----------------------------- MODULE Translator -----------------------------
(***************************************************************************)
(* Brainfunk::translate: Brainfuck source to bitcode.                      *)
(*                                                                         *)
(* A call clears the bitcode, walks the source once to validate the        *)
(* brackets, then walks it again and emits code.  A '[' that starts no     *)
(* optimisable loop leaves a placeholder X and pushes its address; the     *)
(* matching ']' emits JN and patches the placeholder to JE.  One action is *)
(* one iteration of one of the two loops.                                  *)
(***************************************************************************)
EXTENDS BFSource, Bitcode

CONSTANT Sources   \* the texts translate may be called with

ASSUME SourcesAssumption == Sources \subseteq Seq(Char)

VARIABLES
  src,      \* the argument of the call
  phase,    \* where the call is, or how the last one ended
  pos,      \* characters of src the current loop has consumed
  open,     \* size of the bracket stack of validate_brackets
  bitcode,  \* bitcode_
  stack     \* stack of placeholder addresses

vars == <<src, phase, pos, open, bitcode, stack>>

\* "rejected" is the exception of validate_brackets; "unmatched" is either of
\* the two exceptions in the second loop.
Resting == {"idle", "done", "rejected", "unmatched"}
Phases  == Resting \cup {"validate", "translate"}

Init ==
  /\ src = <<>> /\ phase = "idle" /\ pos = 0 /\ open = 0
  /\ bitcode = <<>> /\ stack = <<>>

AtEnd == pos = Len(src)
Front1 == src[pos + 1]

Begin(s) ==
  /\ phase \in Resting
  /\ src' = s /\ phase' = "validate" /\ pos' = 0 /\ open' = 0
  /\ bitcode' = <<>> /\ stack' = <<>>

-----------------------------------------------------------------------------
(***************************************************************************)
(* validate_brackets.                                                      *)
(***************************************************************************)

\* Mutant: the bracket is popped before the stack is tested.
BugValidateChar ==
  /\ phase = "validate" /\ ~AtEnd
  /\ IF Front1 = "]" /\ open <= 1
       THEN phase' = "rejected" /\ UNCHANGED <<pos, open>>
       ELSE /\ open' = open + Net(src, "[", "]", {pos + 1})
            /\ pos' = pos + 1
            /\ UNCHANGED phase
  /\ UNCHANGED <<src, bitcode, stack>>

ValidateChar ==
  /\ phase = "validate" /\ ~AtEnd
  /\ IF Front1 = "]" /\ open = 0
       THEN phase' = "rejected" /\ UNCHANGED <<pos, open>>
       ELSE /\ open' = open + Net(src, "[", "]", {pos + 1})
            /\ pos' = pos + 1
            /\ UNCHANGED phase
  /\ UNCHANGED <<src, bitcode, stack>>

\* Mutant: brackets left open at the end are accepted.
BugValidateEnd ==
  /\ phase = "validate" /\ AtEnd
  /\ phase' = "translate"
  /\ pos' = 0
  /\ UNCHANGED <<src, open, bitcode, stack>>

ValidateEnd ==
  /\ phase = "validate" /\ AtEnd
  /\ phase' = IF open = 0 THEN "translate" ELSE "rejected"
  /\ pos' = 0
  /\ UNCHANGED <<src, open, bitcode, stack>>

-----------------------------------------------------------------------------
(***************************************************************************)
(* The optimisable loops.  The regular expressions are anchored at the     *)
(* current '[' and accept no bracket before their final ']', so what they  *)
(* match is the innermost loop of n characters that starts there.          *)
(***************************************************************************)

InnermostLoop(n) ==
  /\ src[pos + 1] = "["
  /\ src[pos + n] = "]"
  /\ \A i \in pos + 2 .. pos + n - 1 : src[i] \in Arith \cup Moves

Body(n) == SubSeq(src, pos + 2, pos + n - 1)

\* The last positions of the pairs R A the body is cut into.  The '-' that
\* counts the loop is no pair: in front it follows no move, and at the end
\* it is the pair the code drops.
PairEnds(body) ==
  {k \in 2 .. Len(body) - 1 : body[k] \in Arith /\ body[k + 1] \in Moves}

\* -(R A)+ R  or  (R A)+ R -  where R is a run of moves and A a run of
\* additions, back on the starting cell.
IsMulLoop(body) ==
  LET n == Len(body)
  IN  /\ PairEnds(body) # {}
      /\ \/ body[1] = "-" /\ body[2] \in Moves /\ body[n] \in Moves
         \/ body[1] \in Moves /\ body[n - 1] \in Moves /\ body[n] = "-"
      /\ Net(body, ">", "<", 1 .. n) = 0

IsScanLoop(body) ==
  body # <<>> /\ \A i \in DOMAIN body : body[i] \in Moves

\* Mutant: the parity test is dropped.
BugIsSetZeroLoop(body) == body # <<>> /\ \A i \in DOMAIN body : body[i] \in Arith

IsSetZeroLoop(body) ==
  /\ body # <<>>
  /\ \A i \in DOMAIN body : body[i] \in Arith
  /\ Net(body, "+", "-", DOMAIN body) % 2 = 1

\* The i-th smallest element of a set of integers.
Nth(S, i) == CHOOSE k \in S : Cardinality({e \in S : e <= k}) = i

\* Where the i-th pair starts, behind a '-' in front or behind the last pair.
PairStart(body, i) ==
  IF i > 1 THEN Nth(PairEnds(body), i - 1) + 1
  ELSE IF body[1] = "-" THEN 2 ELSE 1

\* Mutant: the count is not narrowed to memory_t.
BugMulFactor(body, i) ==
  Net(body, "+", "-", PairStart(body, i) .. Nth(PairEnds(body), i))

MulFactor(body, i) ==
  Net(body, "+", "-", PairStart(body, i) .. Nth(PairEnds(body), i)) % CellMod

\* Mutant: the offset is that of the pair, not of all pairs so far.
BugMulOffset(body, i) ==
  Net(body, ">", "<", PairStart(body, i) .. Nth(PairEnds(body), i))

\* Offsets are from the cell the loop counts down.
MulOffset(body, i) == Net(body, ">", "<", 1 .. Nth(PairEnds(body), i))

MulCode(body) ==
  [i \in 1 .. Cardinality(PairEnds(body)) |->
     Instr("MUL", MulFactor(body, i), MulOffset(body, i))] \o <<Instr("S", 0, 0)>>

Optimisable(n) ==
  /\ InnermostLoop(n)
  /\ IsMulLoop(Body(n)) \/ IsScanLoop(Body(n)) \/ IsSetZeroLoop(Body(n))

-----------------------------------------------------------------------------
(***************************************************************************)
(* The second loop of translate.                                           *)
(***************************************************************************)

Translating == phase = "translate" /\ ~AtEnd
Remaining == 1 .. Len(src) - pos

\* Append code and drop n characters.
Emit(code, n) ==
  /\ bitcode' = bitcode \o code
  /\ pos' = pos + n
  /\ UNCHANGED <<src, phase, open, stack>>

MulLoop ==
  /\ Translating
  /\ \E n \in Remaining :
       InnermostLoop(n) /\ IsMulLoop(Body(n)) /\ Emit(MulCode(Body(n)), n)

ScanLoop ==
  /\ Translating
  /\ \E n \in Remaining :
       /\ InnermostLoop(n) /\ IsScanLoop(Body(n))
       /\ Emit(<<Instr("F", 0, Net(Body(n), ">", "<", 1 .. n))>>, n)

SetZeroLoop ==
  /\ Translating
  /\ \E n \in Remaining :
       InnermostLoop(n) /\ IsSetZeroLoop(Body(n)) /\ Emit(<<Instr("S", 0, 0)>>, n)

\* Mutant: the size of bitcode_ is pushed after the placeholder went in.
BugOpenLoop ==
  /\ Translating /\ Front1 = "["
  /\ ~ \E n \in Remaining : Optimisable(n)
  /\ bitcode' = Append(bitcode, Instr("X", 0, 0))
  /\ stack' = Append(stack, Len(bitcode) + 1)
  /\ pos' = pos + 1
  /\ UNCHANGED <<src, phase, open>>

OpenLoop ==
  /\ Translating /\ Front1 = "["
  /\ ~ \E n \in Remaining : Optimisable(n)
  /\ bitcode' = Append(bitcode, Instr("X", 0, 0))
  /\ stack' = Append(stack, Len(bitcode))
  /\ pos' = pos + 1
  /\ UNCHANGED <<src, phase, open>>

\* Mutant: the oldest open loop is closed instead of the newest.
BugCloseLoop ==
  /\ Translating /\ Front1 = "]" /\ stack # <<>>
  /\ LET pc == Len(bitcode)
     IN  bitcode' = Append([bitcode EXCEPT ![stack[1] + 1] = Instr("JE", 0, pc - stack[1])],
                           Instr("JN", 0, stack[1] - pc))
  /\ stack' = Tail(stack)
  /\ pos' = pos + 1
  /\ UNCHANGED <<src, phase, open>>

CloseLoop ==
  /\ Translating /\ Front1 = "]"
  /\ IF stack = <<>>
       THEN phase' = "unmatched" /\ UNCHANGED <<pos, bitcode, stack>>
       ELSE LET last_pc == stack[Len(stack)]
                pc      == Len(bitcode)
            IN  /\ bitcode' =
                     Append([bitcode EXCEPT ![last_pc + 1] = Instr("JE", 0, pc - last_pc)],
                            Instr("JN", 0, last_pc - pc))
                /\ stack' = SubSeq(stack, 1, Len(stack) - 1)
                /\ pos' = pos + 1
                /\ UNCHANGED phase
  /\ UNCHANGED <<src, open>>

\* leading_run: the longest run of characters of S at the front.
LeadingRun(S, n) ==
  /\ \A i \in pos + 1 .. pos + n : src[i] \in S
  /\ pos + n < Len(src) => src[pos + n + 1] \notin S

AddRun ==
  /\ Translating
  /\ \E n \in Remaining :
       /\ LeadingRun(Arith, n)
       /\ Emit(<<Instr("A", Net(src, "+", "-", pos + 1 .. pos + n) % CellMod, 0)>>, n)

MoveRun ==
  /\ Translating
  /\ \E n \in Remaining :
       /\ LeadingRun(Moves, n)
       /\ Emit(<<Instr("M", 0, Net(src, ">", "<", pos + 1 .. pos + n))>>, n)

\* Mutant: code.remove_prefix(1) is forgotten.
BugSkip == Translating /\ Front1 \notin InstructionChar /\ Emit(<<>>, 0)

Output == Translating /\ Front1 = "." /\ Emit(<<Instr("IO", IO_OUT, 0)>>, 1)
Input  == Translating /\ Front1 = "," /\ Emit(<<Instr("IO", IO_IN, 0)>>, 1)
Skip   == Translating /\ Front1 \notin InstructionChar /\ Emit(<<>>, 1)

\* The final H is emitted before the check that no loop is left open.
Finish ==
  /\ phase = "translate" /\ AtEnd
  /\ bitcode' = Append(bitcode, Instr("H", 0, 0))
  /\ phase' = IF stack = <<>> THEN "done" ELSE "unmatched"
  /\ UNCHANGED <<src, pos, open, stack>>

-----------------------------------------------------------------------------

\* The body of a call: it is sequential code and runs to its end.
CallStep ==
  \/ ValidateChar \/ ValidateEnd
  \/ MulLoop \/ ScanLoop \/ SetZeroLoop \/ OpenLoop \/ CloseLoop
  \/ AddRun \/ MoveRun \/ Output \/ Input \/ Skip \/ Finish

Next == CallStep \/ \E s \in Sources : Begin(s)

Spec == Init /\ [][Next]_vars /\ WF_vars(CallStep)

-----------------------------------------------------------------------------
(***************************************************************************)
(* Properties.                                                             *)
(***************************************************************************)

\* Every variable has its type; an immediate fits memory_t.
TypeOK ==
  /\ src \in Seq(Char)
  /\ phase \in Phases
  /\ pos \in 0 .. Len(src)
  /\ open \in Nat
  /\ bitcode \in Seq(Instruction)
  /\ stack \in Seq(Nat)

\* translate succeeds only for sources whose brackets all match, and throws
\* "Unmatched ... bracket" only for the others, leaving no code behind.
AcceptsExactlyBalanced ==
  /\ phase = "done" => Balanced(src)
  /\ phase = "rejected" => ~Balanced(src) /\ bitcode = <<>>

\* The two throws of the second loop are dead code once validate_brackets
\* has accepted the source: no call ends with half a program in bitcode_.
NeverUnmatched == phase # "unmatched"

\* A call that returns has left a complete program: no placeholder, one H and
\* it is the last instruction, jumps in pairs and loops nested.
DoneIsWellFormed == phase = "done" => WellFormed(bitcode)

(***************************************************************************)
(* Why it is so: the inductive invariant.                                  *)
(***************************************************************************)

\* While the brackets are counted, `open` is the depth so far and no prefix
\* has closed more than it opened.
ValidateInv ==
  phase = "validate" =>
    /\ open = Depth(src, pos)
    /\ \A k \in 0 .. pos : Depth(src, k) >= 0
    /\ bitcode = <<>>
    /\ stack = <<>>

\* Only a balanced source is translated, and the stack holds one address for
\* each bracket that is open at pos.
DepthInv ==
  /\ phase \in {"translate", "done"} => Balanced(src)
  /\ phase = "rejected" => ~Balanced(src) /\ bitcode = <<>>
  /\ phase = "translate" => Len(stack) = Depth(src, pos)
  /\ phase = "done" => stack = <<>>

\* The stack holds, in order, exactly the addresses of the placeholders.
Pending(code, stk) ==
  /\ \A i \in DOMAIN stk : stk[i] < Len(code)
  /\ \A i, j \in DOMAIN stk : i < j => stk[i] < stk[j]
  /\ \A a \in DOMAIN code :
       code[a].op = "X" <=> \E i \in DOMAIN stk : stk[i] + 1 = a

\* No finished loop contains a placeholder.
NonePendingInside(code, stk) ==
  \A i \in DOMAIN code, k \in DOMAIN stk :
    (code[i].op = "JE" /\ i < stk[k] + 1) => i + code[i].off < stk[k] + 1

CodeInv(code, stk) ==
  /\ Pending(code, stk)
  /\ NonePendingInside(code, stk)
  /\ JumpsMatched(code)
  /\ WellNested(code)

\* H ends the program and nothing else does.
HaltInv ==
  /\ \A a \in DOMAIN bitcode :
       bitcode[a].op = "H" <=> (phase = "done" /\ a = Len(bitcode))
  /\ phase = "done" => bitcode # <<>>

IInv ==
  /\ TypeOK
  /\ NeverUnmatched
  /\ ValidateInv
  /\ DepthInv
  /\ CodeInv(bitcode, stack)
  /\ HaltInv

(***************************************************************************)
(* Action and liveness properties.                                         *)
(***************************************************************************)

\* new is code after emitting at its end and patching placeholders.
OnlyPatched(code, new) ==
  /\ Len(new) >= Len(code)
  /\ \A a \in DOMAIN code :
       new[a] # code[a] => code[a].op = "X" /\ new[a].op = "JE"

\* Within a call, an emitted instruction changes only from a placeholder to
\* the JE of its loop, and code is only ever added at the end.
OnlyPlaceholdersArePatched ==
  [][phase' # "validate" => OnlyPatched(bitcode, bitcode')]_vars

\* Every call returns or throws.
CallEnds == phase = "validate" ~> phase \in Resting
=============================================================================
