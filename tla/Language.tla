------------------------------ MODULE Language ------------------------------
(***************************************************************************)
(* What an interpreter of Brainfuck promises, without saying how it finds  *)
(* the other end of a loop: a program is a text with matched brackets, a   *)
(* '[' over a zero goes behind its ']', a ']' over anything else goes back *)
(* behind its '['.  The interpreters that obey the text directly implement *)
(* this module.                                                            *)
(***************************************************************************)
EXTENDS BFSource

CONSTANTS
  CellMod,   \* values of a cell
  MemSize,   \* cells of the circular tape
  Programs,  \* the texts that may be loaded
  InputEnds  \* is there an end of the input, or is more waited for?

VARIABLES
  code,      \* the text that is loaded
  status,    \* "idle", "running" or "ended"
  at,        \* characters of code before the next one
  ptr, memory,
  input,     \* the bytes still to be read
  output     \* what the last step wrote

langvars == <<code, status, at, ptr, memory, input, output>>

Blank == [a \in 0 .. MemSize - 1 |-> 0]

Init ==
  /\ code \in Programs \cup {<<>>} /\ status = "idle"
  /\ at = 0 /\ ptr = 0 /\ memory = Blank
  /\ input \in Seq(0 .. CellMod - 1) /\ output = <<>>

\* A program that is read from the input takes all of it.
Load ==
  /\ status = "idle"
  /\ code' \in Programs
  /\ input' \in {input, <<>>}
  /\ UNCHANGED <<status, at, ptr, memory, output>>

Start ==
  /\ status = "idle" /\ Balanced(code)
  /\ status' = "running" /\ at' = 0
  /\ ptr' = 0 /\ memory' = Blank /\ output' = <<>>
  /\ UNCHANGED <<code, input>>

-----------------------------------------------------------------------------

Is(ch) == status = "running" /\ at < Len(code) /\ code[at + 1] = ch
Continue == at' = at + 1 /\ UNCHANGED <<code, status>>
Silent == UNCHANGED input /\ output' = <<>>

Change ==
  /\ Continue /\ Silent
  /\ \/ Is("+") /\ memory' = [memory EXCEPT ![ptr] = (@ + 1) % CellMod]
     \/ Is("-") /\ memory' = [memory EXCEPT ![ptr] = (@ - 1) % CellMod]
  /\ UNCHANGED ptr

Shift ==
  /\ Continue /\ Silent
  /\ \/ Is(">") /\ ptr' = (ptr + 1) % MemSize
     \/ Is("<") /\ ptr' = (ptr - 1) % MemSize
  /\ UNCHANGED memory

Enter ==
  /\ Is("[") /\ memory[ptr] # 0 /\ Continue
  /\ Silent /\ UNCHANGED <<ptr, memory>>

Pass ==
  /\ Is("[") /\ memory[ptr] = 0
  /\ \E j \in DOMAIN code : Partners(code, at + 1, j) /\ at' = j
  /\ Silent /\ UNCHANGED <<code, status, ptr, memory>>

Repeat ==
  /\ Is("]") /\ memory[ptr] # 0
  /\ \E i \in DOMAIN code : Partners(code, i, at + 1) /\ at' = i
  /\ Silent /\ UNCHANGED <<code, status, ptr, memory>>

Leave ==
  /\ Is("]") /\ memory[ptr] = 0 /\ Continue
  /\ Silent /\ UNCHANGED <<ptr, memory>>

\* Past the end of the input there are zeros; an input without an end is
\* waited for.
Read ==
  /\ Is(",") /\ Continue
  /\ InputEnds \/ input # <<>>
  /\ memory' = [memory EXCEPT ![ptr] = IF input = <<>> THEN 0 ELSE Head(input)]
  /\ input' = IF input = <<>> THEN <<>> ELSE Tail(input)
  /\ output' = <<>>
  /\ UNCHANGED ptr

Write ==
  /\ Is(".") /\ Continue
  /\ output' = <<memory[ptr]>>
  /\ UNCHANGED <<ptr, memory, input>>

Comment ==
  /\ Is("#") /\ Continue
  /\ Silent /\ UNCHANGED <<ptr, memory>>

End ==
  /\ status = "running" /\ at = Len(code)
  /\ status' = "ended"
  /\ Silent /\ UNCHANGED <<code, at, ptr, memory>>

Obey ==
  \/ Change \/ Shift \/ Enter \/ Pass \/ Repeat \/ Leave
  \/ Read \/ Write \/ Comment \/ End

Next == Load \/ Start \/ Obey

Fairness == WF_langvars(Obey)

Spec == Init /\ [][Next]_langvars /\ Fairness
=============================================================================
