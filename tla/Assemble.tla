------------------------------ MODULE Assemble ------------------------------
(***************************************************************************)
(* brainfunk and bit2bin as assemble.sh runs them: two processes with a    *)
(* pipe between them, which holds so many lines and no more.  The status   *)
(* of the pipeline is that of bit2bin alone.  bit2bin is also run on its   *)
(* own, on a listing that a user has written.                              *)
(***************************************************************************)
EXTENDS Bit2bin

CONSTANTS
  Programs, Arguments, Originals, Unwritable, MaxWritten,
  PipeSize   \* lines the pipe holds

\* translate returns complete programs, whose instructions have the operands of
\* their opcodes and no others.
ASSUME ProgramsAssumption ==
  \A p \in Programs : p \in Seq(ProperInstruction) /\ WellFormed(p)

VARIABLES
  args, optind, code, valid, format, target, files, full, bitcode, printed,
  stage, exit_code

\* What brainfunk writes to stdout are the lines that bit2bin reads.
Cmd == INSTANCE CommandLine WITH stdout <- lines

\* A call is a sequence of options; -s has a text, and the disk has texts.
ASSUME ArgumentsAssumption ==
  \A a \in Arguments :
    /\ Len(a) \in Nat /\ DOMAIN a = 1 .. Len(a)
    /\ \A i \in DOMAIN a : a[i].opt = "s" => a[i].arg \in Seq(Cmd!Char)

ASSUME OriginalsAssumption ==
  \A name \in DOMAIN Originals : Originals[name] \in Seq(Cmd!Char)

cmdstate ==
  <<args, optind, code, valid, format, target, files, full, bitcode, printed,
    stage, exit_code>>
assemblevars == <<bitvars, cmdstate>>

Pipeline   == lines = <<>> /\ Cmd!Init
Redirected == args = <<>> /\ Cmd!Started /\ stage = "absent"

AssembleInit == Init /\ (Pipeline \/ Redirected)

-----------------------------------------------------------------------------

\* A write to a full pipe waits.
WriterStep ==
  /\ Cmd!Main /\ UNCHANGED <<line_no, words, refused, exit_status, done>>
  /\ lines' = lines \/ Len(lines') - line_no <= PipeSize

\* Mutant: an empty pipe is taken for its end.
BugReaderStep ==
  /\ Blank \/ Emit \/ Reject \/ EndOfInput
  /\ UNCHANGED cmdstate

\* getline sees the end of the input when the writer has gone.
ReaderStep ==
  /\ \/ Blank \/ Emit \/ Reject
     \/ EndOfInput /\ stage \in {"exited", "absent"}
  /\ UNCHANGED cmdstate

AssembleNext == WriterStep \/ ReaderStep

AssembleSpec ==
  /\ AssembleInit /\ [][AssembleNext]_assemblevars
  /\ WF_assemblevars(WriterStep) /\ WF_assemblevars(ReaderStep)

-----------------------------------------------------------------------------
(***************************************************************************)
(* Properties.                                                             *)
(***************************************************************************)

CodeIsAsGiven == Cmd!CodeIsAsGiven
StatusTellsTheOutput == Cmd!StatusTellsTheOutput

\* The status of the pipeline is that of bit2bin, which cannot know whether its
\* input was all there was to come: with 0 the words are the program that
\* brainfunk has translated, instruction for instruction, or there are none.
\* They are the program if brainfunk has ended well and was to print a listing.
\* This is so as long as stdout takes the words; one that it refuses is missing
\* with the same status.
WholeOrNothing ==
  (done /\ exit_status = 0 /\ stage = "exited" /\ ~refused) =>
    /\ Assembled \in {bitcode, <<>>}
    /\ (exit_code = 0 /\ format = "bit" /\ target = "-" /\ bitcode # <<>>)
         => Assembled = bitcode

\* The two processes never wait for each other: the pipeline ends, unless it
\* was told to run a program and that does not end.
PipelineEnds == (stage # "running") ~> (done \/ stage = "running")
=============================================================================
