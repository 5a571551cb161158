# A verification project for Brainfunk

Brainfunk is a Brainfuck toolkit in C++20. `libbrainfunk` translates source text
into a small bitcode and executes it; `brainfunk` is its command line, which can
also print the bitcode, C or LLVM IR; `visualbrainfunk` runs the bitcode inside
an ncurses event loop; `bf` interprets the source directly and is kept "as a
comparison implementation" (src/README.md:20). This directory holds TLA+ modules
translated from that code, TLC configurations that check them on small
instances, and theorems that TLAPS proves for every instance.

    tlc -config MCMachine.cfg MCMachine.tla       # one of the runs listed below
    tlapm BrainfunkProofs.tla                     # one of the proofs

## 1. Inventory

| component | source | state it keeps | operations |
|---|---|---|---|
| Translator | `libbrainfunk.cpp` 48-262, `libbrainfunk.hpp` 205-246 | the bracket stack of `validate_brackets`, the unread rest of the text, `bitcode_`, the stack of placeholder addresses | `translate`, which calls `validate_brackets`, `leading_run`, `count_net`, `narrow_offset` and three `try_parse_*_loop_` |
| Bitcode machine | `libbrainfunk.cpp` 20-46, 343-445, `libbrainfunk.hpp` 41-203, 248-296 | `bitcode_`, `pc_`, `ptr_`, `memory_`, the two streams | `step`, `run`, `reset_state`, `Bitcode::execute`, `wrap_offset`, `do_input`, `do_output` |
| Brainfunk object | `libbrainfunk.hpp` 151-203 | both of the above | any sequence of `translate`, `run`, `step`, `reset_state`, `clear` |
| Direct interpreter | `bf.cpp` | code string, iterator, vector of iterators, `ptr`, 2^20 cells, stdin | the options `-s`, `-f`; `validate_code`, `read_code`, `interprete` |
| Visualizer loop | `visualbrainfunk.cpp` | `paused`, `step_requested`, `halted`, `resize_requested_`, `delay_`, `next_step`, `pending_program_input_`, the windows' size, the stream state of `ncurses_is` | `init_ncurses_`, `run`, `handle_input_`, `rebuild_windows_`, the stream buffer's `do_input_` |
| Visualizer drawing, options | `visualbrainfunk.cpp` | windows | `rebuild_windows_`'s layout, `print_mem_`, `print_code_`, colours, `main` |
| C output | `libbrainfunk.cpp` 265-341 | none | `dump_c`: one macro per instruction, `JE` is a `while` and `JN` its brace |
| LLVM output | `llvm_codegen.cpp`, `llvm-ir-wrapper.c` | the table of basic blocks | `jump_target`, `dump_llvm_ir`; the wrapper supplies `main`, `getchar`, `putchar` |
| Assembler | `bit2bin.cpp` | line number, exit status | `main`, `parse_line`, `emit`; a bad line is reported and skipped, the lines behind it are still written; whether stdout takes a word is not asked |
| Command line | `brainfunk.cpp` | the code so far, mode, output stream; the files it reads and empties | `main`, `readcode`, `helpmsg` |
| Arduino interpreter | `Brainfunk/Brainfunk.ino` | a fixed tape, a fixed loop stack, the receive buffer of the serial line | `setup`, `loop`, `interprete`, `exit_loop`, `readchar`, `writechar` |
| Pipeline | `assemble.sh` | a pipe between two processes | `brainfunk -m bit \| bit2bin` |
| `bfstrip`, shell scripts, CPU core | `bfstrip.cpp`, `*.sh`, `CPU/` | none that lasts | filters, build steps, a circuit drawing (`Brainfunk.circ`) |

**How they interact.** All of it is calls in one thread: a front end reads the
source, calls `translate` and then `run` (or `step` in a loop, the visualizer),
handing in the streams. What `translate` builds is consumed by five readers that
each trust its shape: `step`, `dump_bitcode`, `dump_c`, `dump_llvm_ir` and,
through a listing, `bit2bin`. `bf` and the Arduino sketch share no code with the
library. Something else moves at the same time in three places. In `assemble.sh`
two processes are joined by a pipe. The sketch's program reads bytes that arrive
when they like. And in the visualizer the user, the terminal and the clock act
between any two statements of its loop, and `step` calls back into the terminal
through `ncurses_is` when the program reads.

**What is hard here.** A translator that patches code it emitted earlier, and
consumers that turn relative jumps into loops without testing them. Loops that
are recognised by pattern and replaced by closed formulas, whose equality with
the loop is arithmetic modulo 2^8 on a circular tape. Two interpreters that
should do the same. An object whose operations may be called in any order while
only some of them reset it. An event loop that waits for keys in five different
places. A stack without a check whose use depends on which loops are entered. A
command whose options have effects on the disk while they are still being read;
write errors that nobody looks at, in the command and in the assembler; a pipeline of
which only the second status counts. There is no shared memory between threads, no network and no
state that is read back after a crash, so no recovery.

**What makes each component correct.**

- *Translator*: it accepts exactly the balanced texts, ends for every text, its
  second loop never finds what its first should have refused, and what it
  returns is a complete program: no placeholder, one `H` at the end, jumps in
  pairs that point at each other, loops properly nested.
- *Machine*: over a complete program it never leaves the program or the tape and
  its jumps behave as `while` loops do.
- *Object*: between operations it has no code or a complete program, and no
  order of calls leads off the tape.
- *Direct interpreter*: never asks an empty stack or reads past its text; its
  stack is the open brackets; every run of it is a run of the language.
- *Arduino interpreter*: the same for every code that suits it: matched, without
  comments, and with fewer loops in one another than the stack has slots.
- *Both together*: the same tape, the same input consumed, the same output.
- *C and LLVM output*: the printed program does what the library's run does, with
  its own means: nested braces, or labels and offsets computed while printing.
- *Assembler*: a word means what its line says, and exit status 0 means that every
  line was in order and, as long as stdout takes the words, that none was lost; behind
  the pipe, that all of the program has come or none of it. A word that stdout refuses
  is lost without a trace.
- *Command line*: what is executed or dumped is what the options name in their
  order, and the exit status tells whether the output is there, whole, where it
  was asked for.
- *Drawing*: the windows fit every terminal, and the instruction and the cell that
  come next are among those that are shown.
- *Visualizer*: bytes reach the program once and in order, a paused program
  executes only what was asked for, a resize is not lost, `q` is heard, a running
  program goes on.

PROJECT.json lists the hazards of the code at their lines, with the property
that would notice each of them going wrong.

## 2. Modules

    module            extends or instantiates        proofs
    BFSource                                         Lemmas
    Bitcode
    Translator        BFSource, Bitcode              BrainfunkProofs
    Machine           Bitcode                        MachineProofs
    Brainfunk         Translator, Machine (object)   BrainfunkProofs
    Language          BFSource
    DirectBF          BFSource; implements Language  DirectBFProofs
    Sketch            BFSource; implements Language  SketchProofs
    Lockstep          Translator, Machine, DirectBF  LockstepProofs
    PrintedProgram    Bitcode
    CProgram          PrintedProgram; impl. Machine  PrintedProofs
    LlvmProgram       PrintedProgram; impl. Machine  PrintedProofs
    Layout            Machine                        MachineProofs
    VisualBrainfunk                                  MachineProofs
    Bit2bin           Bitcode                        AssembleProofs
    CommandLine       BFSource                       AssembleProofs
    Assemble          Bit2bin, CommandLine (a pipe)  AssembleProofs

A module named `MC...` is an instance for the model checker; MCPrograms holds the
programs that Machine, CProgram and LlvmProgram are run on. Machine is both the
model of `Bitcode::execute` and the abstract specification of the two outputs.

**BFSource** — characters, `count_net`, bracket depth, the reference meaning of
"balanced". All characters that are no instruction are one value, `"#"`.

**Bitcode** — opcodes, instructions, `wrap_offset` with both of its branches, and
`WellFormed`, the shape every reader of a program relies on. An instruction
always has the fields `op`, `imm` and `off`; the ones its opcode does not use are
zero. `CellMod` is 2^8 and `MemSize` the tape's size in the code.

**Translator** — a call of `translate`. One action is one turn of one of its two
loops: `ValidateChar`, `ValidateEnd`, then `MulLoop`, `ScanLoop`, `SetZeroLoop`,
`OpenLoop`, `CloseLoop`, `AddRun`, `MoveRun`, `Output`, `Input`, `Skip`,
`Finish`. `phase` is the place in the call, or the way the last one ended.
The regular expressions are written as what they match: they are anchored at the
current `[` and admit no bracket before their closing one, so the loop is named
by its length, and the body is cut into the pairs "moves, additions" by the
positions where an addition is followed by a move (`PairEnds`). The chains of
`if` in the code are exclusive because the three patterns are, so each is an
action with its own guard. The stack holds addresses (from 0), the sequence
positions (from 1), which is why the code's `bitcode_.size()` is `Len(bitcode)`.

**Machine** — `step`, `run` and `reset_state`. One action per opcode, except that
`F`, whose loop need not end, is one action per turn of its loop. `output` is what
the last action wrote. `Stop` is `step` returning false (at `H` and past the end)
or throwing (`X`).

**Brainfunk** — the object: a caller picks any public operation whenever none is
in progress. `translate` leaves `pc_`, `ptr_` and `memory_` alone, `run` resets
them, `step` does not: a `step` may start in a new program at an old `pc_`.

**Language** — what an interpreter of Brainfuck promises, as an abstract
specification: partners of brackets are defined by depth, not found by a scan or a
stack, and the tape is circular. `InputEnds` tells an input that ends (and then reads
as zero) from one that is waited for. It stands for no code: DirectBF and Sketch are
shown to implement it.

**DirectBF** — `bf`: options, `validate_code`, `interprete` with one action per
character class. The scan for the matching bracket is `MatchingClose`. What the
C++ leaves undefined (`back()` of an empty vector, the iterator past the end) is
the mode `"undefined"`, so that its absence can be checked. `ptr` wraps as a word
first (`WordMod`) and then as the tape. `ObeysLanguage` is `Lang!Spec`: the iterator's
position is `at`, a rejected text never starts, and `-f -` takes all of the input as
`Load` may.

**Sketch** — the Arduino interpreter. One action per case of `interprete`; `Push`,
`Repeat` and `PastTheEnd` have the outcome `"undefined"` where an index leaves an
array, so that its absence can be checked. `Suits` says what a code must be: nothing
in the sketch tests it. Slot 0 of the stack is skipped by `++stack_ptr`, hence one
loop less than `STACKSIZE`. `Arrive` is the serial line; a byte may come before,
between or after the characters that read.


**Lockstep** — one text through both. `origin` remembers how much of the text had
been consumed when each instruction was emitted. The machine runs to the next
instruction that begins a new piece of the text, then the interpreter runs until
its iterator is at that piece, and there the two must agree. Both have a tape of
`MemSize` cells here (2^16 and 2^20 in the code), so it shows equality of
behaviour on tapes of the same size.

**PrintedProgram** — what the two printed programs have in common: the bitcode they are
made from, a tape of their own, stdin and stdout.

**CProgram** — what `dump` prints with `Format::C`, one line per instruction. The
offsets of `JE` and `JN` are arguments that their macros drop, so the model has
none either: the brace that closes a `while` is the first at which as many have
been closed as opened. C goes from a `}` back to the test of its `while`, the
machine tests at the `JN`; `again` marks the moment between, and under the
refinement mapping (`MachinePc`) the machine is at the `JN` until that test is done.

**LlvmProgram** — the emitter and what it prints. One action emits one block;
`jump_target` has its two ways to throw, and returns a set of at most one label.
Offsets are reduced to the tape once, while printing, and the printed program
adds and takes the remainder. The wrapper's tape (`WrapperTape`) is compared with
the program's. Under the mapping `pc` is the label.

**Bit2bin** — a line is blank, an instruction with two numbers, or bad in one of
three ways; words are numbers with the opcode above two operand fields, of which
`MUL` uses both and the other instructions one, signed and as wide as the two
together. At each word stdout may refuse (`Emit`): the word is missing, the exit status
stays, and only the history `refused` knows. `Decode` is what doc/bincode.txt says of the bits, and is external: the
processor is not in this code.

**CommandLine** — `brainfunk`: one action per option and per line of the dump. The
disk is a function from names to lines; opening for output empties a file at once
(`SetOutput`). A write may be refused by the disk at any line (`full`) and no one
asks. Of `translate` it uses what BrainfunkProofs shows: unbalanced texts throw,
for all others some complete program comes back (`Programs`). `run` writes to stdout
even when `-o` named a file, which it leaves empty.

**Assemble** — `assemble.sh:16`: CommandLine with its stdout instantiated by
`bit2bin`'s `lines`, of which at most `PipeSize` are unread. The two processes take
steps in any order. The end of the input is seen only when the writer has exited.
In the initial states named `Redirected` the writer is absent and `bit2bin` reads a
listing from a file: the runs of the assembler alone.

**Layout** — the sizes and places of the six windows and, over a running Machine, which
instructions and cells `print_code_` and `print_mem_` show on terminals of the sizes
in `Screens`.

**VisualBrainfunk** — the event loop. `loc` is the statement the thread is at;
`Type`, `Resize`, `Hangup` and `Tick` are the user, the terminal and the clock.
The tape is left out: an instruction is of a kind, `"in"` reads, `"halt"` ends,
`"scan"` is an `F` that finds no zero, `"plain"` asks nothing. Folded together:
`Esc` with `q`, `=`/`+` with the up key, `-`/`_` with the down key, space with `p`;
`x` and `y` are two characters that are no command. `known` is what curses has
been told of the terminal's size, `built` what the windows were made for.
`WgetchRaw` is `wgetch` on the message bar, for which `keypad` is never called
(`visualbrainfunk.cpp:275`, `331`): of an arrow key it reads the escape, and the two
characters behind it are keys of their own, which the loop then queues for the program.
`log` is history and no guard reads it.

**Lemmas, BrainfunkProofs, MachineProofs, PrintedProofs, DirectBFProofs, SketchProofs,
AssembleProofs, LockstepProofs** — the proofs, section 5. A module of proofs extends the modules it is
about, which is why the modules that meet in one have names of their own for what the
others call `Init`, `Next` and `Spec`.

Operators whose name begins with `Bug` are variants of the definition after
them with one plausible mistake; no action uses them. Every property has one
that violates it under its run, which is how the runs are known to look at
something.

## 3. Runs

| run | instance | checks | shows |
|---|---|---|---|
| MCTranslator | every text of up to 4 of `[ ] + #`, 5 of `[ ] +`, 6 brackets; every loop with up to 4 additions and moves, inside a loop and between other code; every two characters | AcceptsExactlyBalanced, NeverUnmatched, DoneIsWellFormed, IInv, OnlyPlaceholdersArePatched, CallEnds | the two loops agree on brackets; patching; the three optimisations lose no jump and keep immediates in a cell; termination |
| MCMachine | every complete program of up to 3 instructions and `H`, the empty program, six with nested loops; 6 sizes of terminal | TypeOK, StaysInProgram, LoopsAreStructured, CurrentIsShown, TapeIsShown | pointer and cells stay in range; jumps are loops; the views follow pc and ptr |
| MCBrainfunk | 8 texts, two rejected, any order of calls | MachineTypeOK, NoHalfPrograms, RunStaysInProgram | nothing left over from an earlier call does harm |
| MCDirectBF | every text of up to 4 of `[ ] , #`, loops with up to 3 instructions, nested loops | NothingUndefined, StackIsOpenBrackets, ObeysLanguage | `validate_code` is what `interprete` needs; `bf` implements Language, fairness included |
| MCSketch | every text of up to 4 of `[ ] + ,`, loops with bodies of 3, loops as deep as the stack and deeper; 2 bytes arriving at any moment | NothingUndefined, StackIsOpenLoops, SuitedObeysLanguage | where the unchecked stack is safe; the sketch implements Language for codes that suit it |
| MCLockstep | every loop with up to 4 additions and moves between reads and writes; larger multiplications in both forms; nested loops; every two input bytes | AgreeUnlessHomeTouched, EndTogether, InterpreterFollows | the optimisations keep the meaning |
| MCCProgram | the programs of MCMachine | CObeysMachine | braces matched by nesting do what the offsets say |
| MCLlvmProgram | the programs of MCMachine | OnlyEmptyIsRefused, LabelsExist, LlvmObeysMachine | `jump_target` refuses no complete program; every label is printed; the compiled program is a run of the machine |
| MCAssemble | every call with up to 3 options and some with 4, a disk that may be full and a stdout of `bit2bin` that may refuse any word, 4 translated programs, a pipe of 2 lines; `bit2bin` alone on every listing of up to 3 lines with operands at and beyond the bounds of every field | StatusZeroIsWhole, RepresentableIsAccepted, WordsMeanTheirLines, CodeIsAsGiven, StatusTellsTheOutput, WholeOrNothing, PipelineEnds | no operand is truncated, none refused that fits; what the exit statuses promise, and what they do not; the two processes never wait for each other |
| VisualBrainfunk | 3 keys, 2 resizes, a hangup, all kinds of instruction | VisualTypeOK, InputInOrder, PausedStepsWereAsked, ResizeIsPending, QuitIsHeard, StepComes | the event loop under every interleaving of keys, resizes and time; the end of the input shuts out no byte |
| MCLockstepHome, VisualBrainfunkResize | one statement of the documentation each | see section 4 | where the code does otherwise |

**Bounds, and why they suffice.** `CellMod = 4` keeps what matters of 2^8: it is a
power of two, so an odd step visits every value and an even one does not, which is
what the parity test of `[-]`-like loops rests on, and there are factors that wrap.
`MemSize` is 2 to 4, smaller than the offsets of the loops that are checked, so
every wrap of `wrap_offset` in both directions happens, more than once around too.
Four characters in a loop are the first at which both forms of the multiplication
loop occur (`[->+<]`, `[>+<-]`) along with everything that nearly is one; two pairs,
runs of two and wrapped offsets are in the listed texts. Six brackets give three
levels and three loops side by side. `MaxKeys = 3` is a key for each of the two
queues a byte may go through and a command between them, `MaxResizes = 2` a resize
during the handling of another. `delay` is bounded by `MaxKeys`, as it grows only
with keys. The assembler's fields have 4 and 4 values for `MUL` and 16 for the
others (2^8, 2^12 and 2^20 in the code), and every bound is tried from both sides;
three lines put a bad line before, between and behind good ones. Two lines in the
pipe and programs of up to five instructions let the writer wait for the reader and
the reader for the writer; three options are a mode, a source and an output in every
order, and the listed four have two sources. `MaxWritten` bounds what a program that
is run may write, which no property counts. `StackSize = 3` leaves room for two
loops, so that codes that just fit and just do not are four characters long;
`WordMod = 16` is a multiple of the tape as 2^16 is of 2^10. The terminals are the
smallest one, some whose code window is one longer or shorter than the program, and
some with an odd and an even number of cells.

**Deadlock.** CHECK_DEADLOCK is off where the system stops: `bf`, the lockstep
run, the sketch, the printed programs and the pipeline end, and the visualizer exits.

**Fairness.** `WF(CallStep)`, `WF(Step)`, `WF(Interprete)`, `WF(CExecute)` and
`WF(LlvmExecute)` of the two printed programs, and the four actions of Lockstep: sequential code that has been
called is not suspended for ever, and between two statements it waits for nothing.
In Lockstep only one of the four is enabled at a time, so their fairness is that of
the one program. In Assemble `WF(WriterStep)` and `WF(ReaderStep)`, one for each
process, as the operating system schedules both. In Sketch `WF(Interprete)`, whose
`,` is enabled once a byte is there, and `WF(Arrive)`: a byte that was sent arrives.
In the visualizer `WF(Thread)` and `WF(Tick)`: the thread runs when a key or a
timeout lets it, and the time of the next step comes. `Thread` is one program
counter, so weak fairness of the whole is right; which instruction it executes next
is not fair, since the Brainfuck program may be one that never halts. No fairness on
the user, the caller of the object or the terminal: nobody has to type or to call
again.

## 4. What the runs found

1. *`try_parse_mul_offset_loop_` takes loops whose body touches the counter*
   (`libbrainfunk.cpp:186`; run MCLockstepHome). The test is only that the loop
   comes back to its starting cell. In `[-><->+<]` a pair has the offset zero, and
   on a tape of n cells a pair may have one that is a multiple of n. The loop of
   the text counts down differently there, the emitted `MUL` multiplies by the
   counter's value at the start and adds to the counter itself. `bf` and the
   library then differ, on the tape and even in whether they end. Everywhere else they
   agree, which the run MCLockstep checks and LockstepProofs proves for every source:
   no other condition than `HomeUntouched` is needed.
2. *A resize on the READY screen is lost* (`visualbrainfunk.cpp:331`; run
   VisualBrainfunkResize): the key that starts the program is thrown away, even if
   it is KEY_RESIZE. For the places of the event loop and the prompt ResizeIsPending
   is the property, and it excepts what was lost on the READY screen. Two screens are
   outside of it: the one for a terminal that is too small looks at the size again
   after every key, and the HALTED one ends with any key, KEY_RESIZE included.

More was seen while modelling, and is not claimed to be wrong. Two `s` keys that are
read in one pass of `handle_input_` share one step (`visualbrainfunk.cpp:436`), as
`step_requested` is a flag. With `-m bf` an `-o` file is emptied and stays empty,
since `run` writes to stdout (`brainfunk.cpp:101`). A dump that the disk refuses ends
with status 0 (`brainfunk.cpp:103`), which StatusTellsTheOutput excepts by `full`.
`bit2bin` ignores what `fprintf` returns for a word (`bit2bin.cpp:219`), counts the
instruction as assembled and ends with status 0 on a full disk; StatusZeroIsWhole and
WholeOrNothing except it by `refused`, and only what the status says of the lines is
left then. An arrow key on the READY screen starts the program and leaves two characters
behind for it to read (`visualbrainfunk.cpp:331`). The
sketch stops at the first character that is no instruction (`Brainfunk.ino:285`),
where the other interpreters skip it. A comment names `[+-]` and `[-+]` as
examples of set-to-zero loops (`libbrainfunk.hpp:210`), and the code rejects an
even net; the code is right, as such a loop never changes its cell. And a scan
with no zero in its path never returns to the event loop (`libbrainfunk.cpp:431`),
so that a `q` typed then is not read: QuitIsHeard excepts the time inside a scan.

## 5. What is proved

`tlapm` checks every proof from nothing; nothing is assumed but the named
assumptions on constants (`CellModAssumption`, `MemSizeAssumption`,
`SourcesAssumption`, `ProgramsAssumption`, `InputsAssumption`, `ScreensAssumption`
and the like), which hold of the code by its types, by the constructor's test for a
memory of size zero and by the loop in `rebuild_windows_` that waits for a larger
terminal.

| module | theorems | of |
|---|---|---|
| BrainfunkProofs | InvariantHolds, TypeCorrect, SecondLoopNeverThrows, BracketsAreDecided, TranslationIsWellFormed, EmittedCodeIsFinal, OperandsAreTheOpcodes | `translate` |
| | ObjectInvariant, ObjectTypeCorrect, ObjectHoldsNoHalfPrograms, RunsStayInProgram | the object |
| MachineProofs | MachineTypeCorrect, MachineStaysInProgram, MachineIsStructured | `step`, `run` |
| PrintedProofs | CImplementsMachine; LlvmImplementsMachine, LlvmRefusesOnlyEmpty, LlvmLabelsExist | the two outputs |
| DirectBFProofs | DirectInvariant, DirectIsDefined, DirectStackIsOpenBrackets, DirectImplementsLanguage | `bf` |
| SketchProofs | SketchInvariant, SketchIsDefined, SketchStackIsOpenLoops, SketchImplementsLanguage | the sketch |
| MachineProofs | WindowsTileTheTerminal, TapeIsAlwaysShown, CurrentIsAlwaysShown | the drawing |
| | LoopInvariant, LoopTypeCorrect, InputIsInOrder, PausedStepsAreAsked, ResizesArePending | the event loop |
| AssembleProofs | PipelineInvariant, WordsMeanWhatLinesSay, BoundsAreThoseOfTheFields, StatusZeroMeansWhole | `bit2bin` |
| | PipelineIsWholeOrNothing, ExitStatusTellsTheOutput, CodeIsWhatIsGiven | `assemble.sh`, `brainfunk` |
| LockstepProofs | LockstepInvariant, MachinesAgree, MachinesEndTogether | the library and `bf` together |

**translate** — for every set of source texts, every cell size and memory size, of
unbounded length: `Spec => []IInv`, and from it `[]TypeOK`, `[]NeverUnmatched`,
`[]AcceptsExactlyBalanced`, `[]DoneIsWellFormed` and `OnlyPlaceholdersArePatched`.
None of these is inductive alone. `IInv` adds what ties the two loops of
`translate` to the text and to each other:

- `ValidateInv`: in the first loop `open` is the depth at `pos` and no prefix has
  gone below zero. This turns the test at a `]` into the definition of balanced.
- `DepthInv`: in the second loop the text is balanced and the size of `stack` is
  the depth at `pos`. So at a `]` the stack is not empty, and at the end it is.
  The step needs that an optimised loop of n characters leaves the depth as it
  was, which is a lemma about `Net` on the disjoint sets of positions before and
  inside the loop (Lemmas).
- `CodeInv`: the stack holds exactly the addresses of the placeholders, in rising
  order; no finished loop contains one; finished jumps point at each other; loops
  nest. The third and the fourth survive the patch in `CloseLoop` only because of
  the first two: the patched address is the last placeholder, so every loop that
  began after it is finished and lies inside, and every loop before it ended
  before it.
- `HaltInv`: the only `H` is the last instruction of a call that returned.

`OperandsAreTheOpcodes` adds that `translate` gives no instruction an operand that
`opcode_operand_type` denies it, which is what makes a listing, which has no room for
one, the whole program.

**The machine** — over every set of programs, if `\A code \in Programs :
Translated(code)`, that is, each is empty or `WellFormed`. That assumption is what
`TranslationIsWellFormed` concludes of every text, so the two modules together
say that what `translate` returns runs inside its program and its tape. The
arithmetic of `WrapOffset` (its result is on the tape for every offset, positive
or negative) is a lemma; the invariant adds that `pc` is at an instruction
whenever the program is not empty, which holds across a jump because its partner
is at an instruction and the instruction behind a partner is never beyond the `H`.

**The object** — the same for every order of calls and without that assumption, as
here the programs come from `translate` itself. `ObjectInv` is the conjunction of what
the properties say with `IInv` while `translate` runs and, outside it, that `phase` is
one of the places where `translate` returns. Neither half is enough: between calls
`IInv` gives `NoHalfPrograms`, and a `step` that starts at an old `pc_` needs only that
`pc_` is a number and that the code, where it has an instruction, has one of the right
shape (`ObjectStep`); a `run`, which resets, needs the program to
be complete to stay in it.

**The C output** — over every set of translated programs, `CImplementsMachine`:
the start of the printed C program is a start of the machine and each of its steps
is one of the machine's or changes nothing that the machine has. Two arguments:

- `BraceIsPartner`: the brace found by counting is the partner that the offset
  names. Up to the partner more braces are open than closed, since each closed one
  has its own open one inside and the loop's own is left over; at the partner they
  are as many, by the bijection that takes a `while` to its partner. Both rest on
  `WellNested`, which is why that belongs to WellFormed.
- `CInv`: the line is one of the program's, or the one behind an empty program, and
  when `again` holds it is at a `while`. Without it the mapped `pc` has no meaning.

**The LLVM output** — `LlvmRefusesOnlyEmpty` holds of every program that may be dumped,
as the property itself asks only of complete ones: `TargetIsBehindPartner` shows that
`jump_target` finds exactly one label for each of their jumps, the one behind the
partner, and that it is below the number of instructions since no jump is the last one.
`EmitInv` says that block a is what instruction a asks for. Over translated programs
`LlvmInv` adds that control is at a block, which gives `LlvmLabelsExist` and, action by
action, `LlvmImplementsMachine`. The arithmetic in it is `ReducedOffset`: an offset that
is reduced to the tape while printing, added to the pointer later and reduced again
leads to the cell that `wrap_offset` finds at once, for offsets of either sign. A wrapper
whose tape has another size makes no step of the machine at all.

**bf** — for every set of sources, inputs, and every tape that divides the range of the
word. `DirectInv` is `NothingUndefined` with what makes it inductive: the text is
balanced (`ValidateIsBalanced`), the stack has as many entries as the depth at the
iterator, and entry i is an open bracket of depth i around it. `NextCloses` and
`LoopCloses` (Lemmas) show that the scan at a `[` stops at the `]` that Language calls
its partner, and that the top of the stack at a `]` is the partner too; both find the
first place where the depth comes back, with `LeastExists` in place of an induction.
The stack then is that of `StackIsOpenBrackets`, and every step is one of Language or
leaves its variables alone, `DirectImplementsLanguage`.

**The sketch** — the same with slots in an array: `LoopsInv` says that slot i is the
open loop of depth i, and `Suits` bounds the depth of the text by the slots there are,
from which `SketchIsDefined` follows; that the skip of a loop ends before the end of
the text needs the text to be balanced. `SketchImplementsLanguage` is stated for the
codes that suit it, as its property is.

**The drawing** — for every terminal `rebuild_windows_` accepts and every size of
tape: the six windows lie inside, do not overlap and leave nothing out; the tape is
shown around the pointer; and, over translated programs, the instruction at pc is
listed. The second needs `WrapIsPlus`: `wrap_offset`, which branches on the sign of the
offset and never forms a negative number, is the sum modulo the tape, so that
neighbours on the screen are neighbours on the tape across its ends. The third needs
that pc is in the program, which is `MachineInvariant`.

**The event loop** — for any number of keys, resizes and steps, where the run has three
keys and two resizes. `LoopInv` strengthens each property with the step before it can
fail:

- `PromptInv`: a prompt is shown only when `pending` is empty. Otherwise a byte typed at
  the prompt would overtake one that was typed ahead. And the stream is at its end only
  after a hangup, behind which no key comes: an `eof` that stays shuts out nothing.
- `StepInv`: while `step_requested` is set there is an `s` that no step has used yet, and
  a paused loop is at its step only with the flag set. The count is then kept by the one
  statement that clears the flag.
- `ResizeInv`: curses knows the terminal's size or has a KEY_RESIZE to give, and the
  windows have the size curses knows or are due to be made again. It is two links of a
  chain; `ResizeIsPending` speaks of its ends only.

**The assembler** — for every width of the two fields, as long as they have an even
number of values, every listing, every pipe and every order of the two processes'
steps. `RoundTrip` shows that what `Encode` puts into a word `Decode` finds there:
the operands, each below the size of its field, are two digits (`Digits`), a negative
offset is read back from its residue (`SignedRoundTrip`), and the opcode is above both.
`ReadBackIsEncodable` is the converse, that what some word decodes to was in the bounds
that `emit` tests. Then `BitInv`: of the lines read so far, status 0 says that each is blank or
has a word (`NoneRefused`), and unless stdout has refused one that the n-th word is that
of the n-th instruction (`AllAssembled`); status 1 that one of them has none. Nothing
more is true after a refused word, as the program goes on as if it had been taken. The
writer only adds lines, which is why this stays true of those already read.

**The pipeline and the command line** — for every set of calls, disks and translated
programs. `PipeInv` says for each stage of `brainfunk` what has been written to the
pipe: nothing while it takes options, a beginning of the listing while it dumps, no line
of a listing while it runs. With `BitInv` that gives `WholeOrNothing`, for a stdout that takes every word. `CmdInv` says
that mode and output are those of the options taken so far, that the file named last is
empty or holds the beginning of the dump unless the disk was full, and that all other
files are as they were or empty. `StatusTellsTheOutput` speaks only of the end and of
the whole call, and is what `CmdInv` says there. The assumptions are in Assemble:
`ProgramsAssumption`, that programs are complete (`TranslationIsWellFormed`) and have no
operands but those of their opcodes (`OperandsAreTheOpcodes`), `ArgumentsAssumption`, that a call is a
sequence of options in which every `-s` has a text, and `OriginalsAssumption`, that the
disk holds texts.

`GivenInv` is the program: as long as no `-f` has named a file that an `-o` in front of
it emptied, the code is `GivenTo` of the options taken so far, and a file is as it was
before the call unless an `-o` has named it. One option more is one step of `GivenTo`
(`GivenToStep`): a text replaces, a file is appended. `FlattenSeq` of the community
modules, which joins the files, is a recursive function over positions; that it takes one
sequence more by appending it (`FlattenAppend`) is shown with the least position at which
the two functions would differ, so no induction over data is needed.

**The library and bf together** — for every set of sources and inputs, every cell size
and tape: `MachinesAgree`, the optimised code does what the source says, and
`MachinesEndTogether`. Both are read off `LInv`, whose parts are:

- *the code*: `PieceInv` says of every instruction which piece of the source it was
  translated from (`origin` names its beginning, comments may follow) and that it means
  this piece: a run's net, an input or output, the text of a loop that clears, scans or
  multiplies, of which the instructions of `MulCode` are one group; `JumpInv` says that
  a `JE` that is still open, and later a pair of jumps, stands at the brackets that are
  partners. They are kept by every action of Translator (`TransKeeps`), the patch
  included.
- *where the machine is*: at the first instruction of a piece (`Met`) both have the same
  tape and the interpreter is before that piece; after k instructions of a multiplying
  loop (`Middle`) the machine's tape is the interpreter's with k pairs multiplied
  (`Multiplied`).
- *where the interpreter is* while it follows (`Following`): in a run, what is left of it
  is what the machine has more; at a bracket, it leads to where the machine went; in a
  clearing loop all other cells agree; in a multiplying loop, `MulLeft`.
- the invariants of `translate` and of `bf`, from their proofs.

A multiplying loop needs an induction over its turns in any direct argument. `MulLeft`
makes it the induction over steps that an invariant is: after q characters of a turn
there is a number r of turns still to do with (counter + rest of this turn - r) = 0 modulo
the cell, and the rest of this turn and r turns more make of the interpreter's tape the
machine's. At the beginning r is the counter (`-1` a turn, `HomeTouch`), at a `]` with
the counter at zero r is a multiple of the cell's range, and nothing is left. That the
pairs of `MulLoop` are all the additions of the body but the lone `-`, each at its
offset, is `MulFacts`, `ShiftInPair`, `PairIsNth` and `PairTouch`, where the pairs are
counted off by the positions at which they end. If a pair comes back to the loop's cell
(`HomeKept` fails) then `-1` a turn is wrong, which is the first finding of section 4.
The tape is the same size on both sides, as in Lockstep; bf's pointer wraps as a word
first, which `ModMod` removes.

**What stays with the model checker.** Liveness (`CallEnds`, `QuitIsHeard`, `StepComes`,
`PipelineEnds`, `InterpreterFollows` and the fairness in `CObeysMachine`,
`LlvmObeysMachine`, `ObeysLanguage` and `SuitedObeysLanguage`), as the prover has no rule
for fairness that could be used here: the four refinements are proved for the initial
states and for every step, and that the implementation goes on is checked. That the interpreter arrives at all where the machine is, `InterpreterFollows`, is
liveness; the theorems say what holds when it has.
Where a module has an inductive invariant (`IInv`) or implements Language, its type
invariant is a part of that or of NothingUndefined and is not checked a second time.

## 6. What is not modelled

`bfstrip` is a filter without state, the one that `readcode` has too (`Instructions`).
Of the visualizer's drawing the texts, the colours and the history of the output are
left out, as no property is about them, and of its `main` the options, which only
choose the source and the first delay; what a step does to the tape is Machine's
subject. `CPU/` is a circuit drawing for a simulator, another language and another
machine. Of the shell scripts only the pipeline of `assemble.sh` is modelled; the others
call compilers, and the tests are used as documentation of what is expected. The banner
and the LED of the sketch have no effect on its program, and nothing calls its `panic`.

Abstractions inside the modelled parts: `offset_t` is unbounded in the models (a
text with more than 2^63 moves cannot be held), `step` on a program that is being
changed by another thread is not considered (the class has no threads), a stream
that fails for other reasons than its end is treated as one at its end, as the
code does. A `brainfunk` that is killed while it writes into the pipe is not considered,
and what a program that is run writes is, to `bit2bin`, a line that is no instruction.
The stdout of `bit2bin` takes a word whole or not at all, when it is written: a write that
the disk cuts inside a line, or words that are lost together when the buffer is flushed
at the end, are words refused one by one, and what a word that was cut means to a reader
is not asked. Options of `bf` that end it before it has a source (`-h`, an unknown
option, a missing argument, a file that cannot be read) are one action, `NoFile`.
A byte that the sketch's receive buffer had no room for is not among those that come.

## 7. Plan

Every safety property that a run checks is a theorem, but for the two that the code
violates (section 4); what is left is liveness. A change of `translate` (another loop
that is recognised, say) touches Translator, one disjunct of `Plain` or `Group` in
LockstepProofs with its lemma for the translation, the machine and the interpreter each,
and nothing else of the proofs.
