----------------------------- MODULE CommandLine -----------------------------
(***************************************************************************)
(* The command brainfunk: options, source files, an output and an exit     *)
(* status around one object of the library.  Of the object this module     *)
(* uses what BrainfunkProofs shows of it: translate throws for the         *)
(* unbalanced texts and returns a complete program for all others.         *)
(***************************************************************************)
EXTENDS BFSource, SequencesExt

CONSTANTS
  Programs,     \* what translate may return
  Arguments,    \* the options the command may be called with, in order
  Originals,    \* what is on the disk: a function from names to source texts
  Unwritable,   \* the names that cannot be opened for output
  MaxWritten    \* bound on what a program that is run writes

VARIABLES
  args, optind,    \* the options, and how many of them have been taken
  code, valid, format,
  target,          \* output: "-" is stdout
  files,           \* the disk
  stdout,          \* the lines written to stdout
  full,            \* the disk has refused a write
  bitcode, printed,
  stage,           \* "options", "running", "dumping" or "exited"
  exit_code

settings == <<code, valid, format, target>>
outputs == <<files, stdout, full>>
cmdvars == <<args, optind, settings, outputs, bitcode, printed, stage, exit_code>>

Started ==
  /\ optind = 0
  /\ code = <<>> /\ valid = FALSE /\ format = "bf" /\ target = "-"
  /\ files = Originals /\ full = FALSE
  /\ bitcode = <<>> /\ printed = 0 /\ exit_code = 0

Init == args \in Arguments /\ Started /\ stdout = <<>> /\ stage = "options"

-----------------------------------------------------------------------------
(***************************************************************************)
(* The options.                                                            *)
(***************************************************************************)

Exit(status) ==
  /\ stage' = "exited" /\ exit_code' = status
  /\ UNCHANGED <<args, settings, outputs, bitcode, printed>>

Option(o) == stage = "options" /\ optind < Len(args) /\ args[optind + 1].opt = o
Arg == args[optind + 1].arg
Taken == optind' = optind + 1 /\ UNCHANGED <<args, bitcode, printed, stage, exit_code>>

\* What readcode takes of a text.
Instructions(text) == Picked(text, {i \in DOMAIN text : text[i] \in InstructionChar})

\* Mutant: the text of a file replaces the code.
BugReadCode ==
  /\ Option("f") /\ Arg \in DOMAIN files /\ Taken
  /\ code' = Instructions(files[Arg]) /\ valid' = TRUE
  /\ UNCHANGED <<format, target, outputs>>

\* readcode appends, and leaves out what is not an instruction.
ReadCode ==
  /\ Option("f") /\ Arg \in DOMAIN files /\ Taken
  /\ code' = code \o Instructions(files[Arg]) /\ valid' = TRUE
  /\ UNCHANGED <<format, target, outputs>>

SetCode ==
  /\ Option("s") /\ Taken
  /\ code' = Arg /\ valid' = TRUE
  /\ UNCHANGED <<format, target, outputs>>

SetMode ==
  /\ Option("m") /\ Taken
  /\ format' = Arg
  /\ UNCHANGED <<code, valid, target, outputs>>

\* Opening a file for output empties it.
SetOutput ==
  /\ Option("o") /\ Arg \notin Unwritable /\ Taken
  /\ target' = Arg
  /\ files' = IF Arg = "-" THEN files
              ELSE [n \in DOMAIN files \cup {Arg} |-> IF n = Arg THEN <<>> ELSE files[n]]
  /\ UNCHANGED <<code, valid, format, stdout, full>>

Unknown == Option("?") /\ Taken /\ UNCHANGED <<settings, outputs>>

Help == Option("h") /\ optind' = optind + 1 /\ Exit(0)

NotOpened ==
  /\ \/ Option("f") /\ Arg \notin DOMAIN files
     \/ Option("o") /\ Arg \in Unwritable
  /\ optind' = optind + 1
  /\ Exit(1)

-----------------------------------------------------------------------------
(***************************************************************************)
(* The work.                                                               *)
(***************************************************************************)

AllTaken == stage = "options" /\ optind = Len(args) /\ UNCHANGED optind

Formats == {"bit", "bfc", "llvm"}

\* Mutant: the exception of translate is reported and no more.
BugRefuse ==
  /\ AllTaken
  /\ ~valid \/ ~Balanced(code) \/ format \notin Formats \cup {"bf"}
  /\ Exit(IF valid /\ ~Balanced(code) THEN 0 ELSE 1)

\* No program was given, translate throws, or the mode is unknown, which is
\* found after translating.
Refuse ==
  /\ AllTaken
  /\ ~valid \/ ~Balanced(code) \/ format \notin Formats \cup {"bf"}
  /\ Exit(1)

Translate ==
  /\ AllTaken
  /\ valid /\ Balanced(code) /\ format \in Formats \cup {"bf"}
  /\ bitcode' \in Programs
  /\ stage' = IF format = "bf" THEN "running" ELSE "dumping"
  /\ UNCHANGED <<args, settings, outputs, printed, exit_code>>

\* The line of an instruction; the lines of C and of LLVM are no listing.
LineOf(instr) ==
  IF format = "bit"
    THEN [kind |-> "instruction", op |-> instr.op, imm |-> instr.imm, off |-> instr.off]
    ELSE [kind |-> "malformed line"]

\* Writing a line never fails as far as the command can see: once the disk has
\* refused one, the stream is bad and takes no other.
Write(line) ==
  \/ /\ target = "-"
     /\ stdout' = Append(stdout, line) /\ UNCHANGED <<files, full>>
  \/ /\ target # "-" /\ ~full
     /\ files' = [files EXCEPT ![target] = Append(@, line)] /\ UNCHANGED <<stdout, full>>
  \/ /\ target # "-"
     /\ full' = TRUE /\ UNCHANGED <<files, stdout>>

\* Mutant: the loop ends one instruction early.
BugPrintLine ==
  /\ stage = "dumping" /\ printed < Len(bitcode)
  /\ IF printed + 1 < Len(bitcode) THEN Write(LineOf(bitcode[printed + 1]))
                                   ELSE UNCHANGED outputs
  /\ printed' = printed + 1
  /\ UNCHANGED <<args, optind, settings, bitcode, stage, exit_code>>

PrintLine ==
  /\ stage = "dumping" /\ printed < Len(bitcode)
  /\ Write(LineOf(bitcode[printed + 1]))
  /\ printed' = printed + 1
  /\ UNCHANGED <<args, optind, settings, bitcode, stage, exit_code>>

DumpEnds ==
  /\ stage = "dumping" /\ printed = Len(bitcode)
  /\ Exit(0) /\ UNCHANGED optind

\* run writes to stdout, whatever the target is, and may never end.
RunWrites ==
  /\ stage = "running" /\ Len(stdout) < MaxWritten
  /\ stdout' = Append(stdout, [kind |-> "malformed line"])
  /\ UNCHANGED <<args, optind, settings, files, full, bitcode, printed, stage, exit_code>>

RunEnds == stage = "running" /\ Exit(0) /\ UNCHANGED optind

Main ==
  \/ ReadCode \/ SetCode \/ SetMode \/ SetOutput \/ Unknown \/ Help \/ NotOpened
  \/ Refuse \/ Translate \/ PrintLine \/ DumpEnds
  \/ RunWrites \/ RunEnds

-----------------------------------------------------------------------------
(***************************************************************************)
(* Properties, stated of the command line itself.                          *)
(***************************************************************************)

\* The positions of the options o before the k-th.
Given(o, k) == {i \in 1 .. k - 1 : args[i].opt = o}
LastOf(S) == CHOOSE i \in S : \A j \in S : j <= i
LastArg(o, default) ==
  LET S == Given(o, Len(args) + 1) IN IF S = {} THEN default ELSE args[LastOf(S)].arg

\* What an option adds to the program: a file as it was before the call.
TextAt(i) ==
  IF args[i].opt = "f" /\ args[i].arg \in DOMAIN Originals
    THEN Instructions(Originals[args[i].arg]) ELSE <<>>

\* What the first n options say the program is: the last -s and the files behind it.
GivenTo(n) ==
  LET S == Given("s", n + 1)
      k == IF S = {} THEN 0 ELSE LastOf(S)
  IN  (IF k = 0 THEN <<>> ELSE args[k].arg) \o FlattenSeq([i \in 1 .. n - k |-> TextAt(k + i)])

\* One of their sources is emptied by an -o in front of it.
ClobberedTo(n) ==
  \E j \in Given("f", n + 1) :
    \E i \in Given("o", j) : args[i].arg = args[j].arg

\* What is executed or dumped is the program that the options name, although
\* they are obeyed one after the other while files are emptied in between.
CodeIsAsGiven ==
  stage \in {"running", "dumping"} /\ ~ClobberedTo(Len(args)) => code = GivenTo(Len(args))

Dump == [i \in DOMAIN bitcode |-> LineOf(bitcode[i])]
Contents(name) == IF name = "-" THEN stdout ELSE files[name]

\* Nothing has been printed there.
Untouched(name) ==
  Contents(name) = <<>> \/ (name \in DOMAIN Originals /\ files[name] = Originals[name])

\* The exit status and the outputs agree: with 1 nothing has been printed
\* anywhere, not even a part of a dump; with 0 the last output that was named
\* holds the whole dump, unless the disk was full, and no other output does.
StatusTellsTheOutput ==
  stage = "exited" =>
    LET printing == exit_code = 0 /\ Given("h", Len(args) + 1) = {}
        output   == LastArg("o", "-")
        running  == LastArg("m", "bf") = "bf"
    IN  /\ printing => bitcode # <<>>
        /\ printing /\ ~running => Contents(output) = Dump \/ (full /\ output # "-")
        /\ \A name \in DOMAIN files \cup {"-"} :
             (printing /\ name = IF running THEN "-" ELSE output) \/ Untouched(name)
=============================================================================
