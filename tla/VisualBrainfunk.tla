--------------------------- MODULE VisualBrainfunk ---------------------------
(***************************************************************************)
(* The event loop of visualbrainfunk: one thread that reads keys, steps    *)
(* the program and redraws, beside a user who types, resizes the terminal  *)
(* or hangs up at any moment.                                              *)
(*                                                                         *)
(* What a step does to the tape is left out: it executes one instruction   *)
(* of some kind, and the kinds differ in what they ask of the terminal.    *)
(***************************************************************************)
EXTENDS Integers, Sequences

CONSTANTS
  Kinds,     \* the kinds of instruction the program may execute
  MaxKeys,   \* bound: how many keys the user types
  MaxResizes \* bound: how often the terminal changes its size

ASSUME KindsAssumption == Kinds \subseteq {"plain", "in", "halt", "scan"}
ASSUME BoundsAssumption == MaxKeys \in Nat /\ MaxResizes \in Nat

\* "x" and "y" stand for the characters that are no command; "up" and "down"
\* are key codes above 0xff.
Bytes == {"p", "s", "q", "x", "y"}
Keys == Bytes \cup {"up", "down"}

VARIABLES
  loc,       \* where the thread is
  back,      \* where rebuild_windows_ returns to
  paused, step_requested, halted,      \* locals of run
  quit_requested, resize_requested,
  delay,     \* delay_, in steps of 10 ms
  due,       \* next_step has come
  pending,   \* pending_program_input_
  eof,       \* the stream ncurses_is is at its end for good
  built,     \* the terminal size the windows were made for
  known,     \* the terminal size curses has reported
  terminal,  \* the terminal: its size and what has happened to it
  keys,      \* keys typed and not yet read
  log        \* history: what was read and delivered, and what was lost

control == <<loc, back, paused, step_requested, halted, quit_requested>>
vvars == <<control, resize_requested, delay, due, pending, eof,
           built, known, terminal, keys, log>>

\* A size is a number, so that no two sizes are the same, and whether it is at
\* least 60 x 18.
Sizes == [n : 0 .. MaxResizes, big : BOOLEAN]

Locations == {"ready", "input", "drain", "decide", "step", "prompt", "after",
              "scan", "small", "haltmsg", "gone"}

\* The locations of the event loop and of what it calls.
Looping == Locations \ {"ready", "haltmsg", "gone"}

VisualInit ==
  /\ \E big \in BOOLEAN :
       terminal = [size |-> [n |-> 0, big |-> big], typed |-> 0, winch |-> FALSE,
                   hungup |-> FALSE]
  /\ built = terminal.size /\ known = terminal.size
  /\ loc = (IF known.big THEN "ready" ELSE "small") /\ back = "ready"
  /\ paused = FALSE /\ step_requested = FALSE /\ halted = FALSE
  /\ quit_requested = FALSE /\ resize_requested = FALSE
  /\ delay = 1 /\ due = FALSE
  /\ pending = <<>> /\ eof = FALSE /\ keys = <<>>
  /\ log = [accepted |-> <<>>, delivered |-> <<>>, asked |-> 0,
            singles |-> 0, missed |-> FALSE]

-----------------------------------------------------------------------------
(***************************************************************************)
(* The user, the terminal and the clock.                                   *)
(***************************************************************************)

Type(k) ==
  /\ loc # "gone" /\ ~terminal.hungup
  /\ terminal.typed < MaxKeys
  /\ keys' = Append(keys, k)
  /\ terminal' = [terminal EXCEPT !.typed = @ + 1]
  /\ UNCHANGED <<control, resize_requested, delay, due, pending, eof, built, known, log>>

Resize(big) ==
  /\ loc # "gone" /\ ~terminal.hungup
  /\ terminal.size.n < MaxResizes
  /\ terminal' = [terminal EXCEPT !.size = [n |-> @.n + 1, big |-> big],
                                  !.winch = TRUE]
  /\ UNCHANGED <<control, resize_requested, delay, due, pending, eof, built, known, keys, log>>

Hangup ==
  /\ loc # "gone" /\ ~terminal.hungup
  /\ terminal' = [terminal EXCEPT !.hungup = TRUE]
  /\ UNCHANGED <<control, resize_requested, delay, due, pending, eof, built, known, keys, log>>

Tick ==
  /\ loc \in Looping /\ ~due
  /\ due' = TRUE
  /\ UNCHANGED <<control, resize_requested, delay, pending, eof, built, known, terminal, keys, log>>

-----------------------------------------------------------------------------
(***************************************************************************)
(* curses: wgetch returns a key or KEY_RESIZE, and ERR after a hangup.     *)
(***************************************************************************)

Readable ==
  (IF terminal.winch THEN {"resize"} ELSE {})
    \cup (IF keys = <<>> THEN {} ELSE {Head(keys)})

Wgetch(k) ==
  /\ k \in Readable
  /\ IF k = "resize"
       THEN /\ terminal' = [terminal EXCEPT !.winch = FALSE]
            /\ known' = terminal.size
            /\ UNCHANGED keys
       ELSE keys' = Tail(keys) /\ UNCHANGED <<terminal, known>>

\* A window without keypad: of what an arrow key sends only the escape is read,
\* and the two characters behind it, which are no commands, stay.
WgetchRaw(k) ==
  IF k \in {"up", "down"}
    THEN k \in Readable /\ keys' = <<"x", "y">> \o Tail(keys) /\ UNCHANGED <<terminal, known>>
    ELSE Wgetch(k)

WgetchFails ==
  /\ Readable = {} /\ terminal.hungup
  /\ UNCHANGED <<terminal, known, keys>>

\* rebuild_windows_: with too small a terminal it waits for keys of its own.
Rebuild(size, return) ==
  IF size.big
    THEN loc' = return /\ built' = size /\ UNCHANGED back
    ELSE loc' = "small" /\ back' = return /\ UNCHANGED built

\* 'q' leaves by an exception, any other key only has the size looked at again.
TooSmall(k) ==
  /\ loc = "small"
  /\ Wgetch(k)
  /\ IF k = "q" THEN loc' = "gone" /\ UNCHANGED <<back, built>>
                ELSE Rebuild(known', back)
  /\ UNCHANGED <<paused, step_requested, halted, quit_requested,
                 resize_requested, delay, due, pending, eof, log>>

-----------------------------------------------------------------------------
(***************************************************************************)
(* init_ncurses_ ends with a screen that waits for any key.                *)
(***************************************************************************)

Ready(k) ==
  /\ loc = "ready"
  /\ WgetchRaw(k)
  /\ loc' = "input" /\ due' = TRUE
  /\ log' = [log EXCEPT !.missed = (k = "resize")]
  /\ UNCHANGED <<back, paused, step_requested, halted, quit_requested,
                 resize_requested, delay, pending, eof, built>>

ReadyFails ==
  /\ loc = "ready"
  /\ WgetchFails
  /\ loc' = "input" /\ due' = TRUE
  /\ UNCHANGED <<back, paused, step_requested, halted, quit_requested,
                 resize_requested, delay, pending, eof, built, log>>

-----------------------------------------------------------------------------
(***************************************************************************)
(* handle_input_: a first key, waited for until the next step is due or,   *)
(* when paused, for ever; then all the keys that are there.                *)
(***************************************************************************)


\* Mutant: 'q' only sets quit_requested and the keys go on being read.
BugAfterKey(k) ==
  IF k = "resize" THEN Rebuild(known', "drain")
                  ELSE loc' = "drain" /\ UNCHANGED <<back, built>>

\* 'q' ends the loop at once; KEY_RESIZE makes the windows again.
AfterKey(k) ==
  CASE k = "q"      -> loc' = "gone" /\ UNCHANGED <<back, built>>
    [] k = "resize" -> Rebuild(known', "drain")
    [] OTHER        -> loc' = "drain" /\ UNCHANGED <<back, built>>

\* Mutant: the delay goes below zero.
BugFaster(d) == d - 1

Faster(d) == IF d = 0 THEN 0 ELSE d - 1

HandleKey(k) ==
  /\ loc \in {"input", "drain"}
  /\ Wgetch(k)
  /\ paused' = CASE k = "p" -> ~paused [] k = "s" -> TRUE [] OTHER -> paused
  /\ step_requested' = (step_requested \/ k = "s")
  /\ delay' = CASE k = "up"   -> Faster(delay)
                [] k = "down" -> delay + 1
                [] OTHER      -> delay
  /\ quit_requested' = (k = "q")
  /\ pending' = IF k \in {"x", "y"} THEN Append(pending, k) ELSE pending
  /\ log' = [log EXCEPT !.accepted = IF k \in {"x", "y"} THEN Append(@, k) ELSE @,
                        !.asked = IF k = "s" THEN @ + 1 ELSE @]
  /\ AfterKey(k)
  /\ UNCHANGED <<halted, resize_requested, due, eof>>

\* Mutant: the time left until the next step is not computed.
BugInputTimeout ==
  /\ loc = "input" /\ Readable = {} /\ terminal.hungup
  /\ loc' = "decide"
  /\ UNCHANGED <<back, paused, step_requested, halted, quit_requested, resize_requested,
                 delay, due, pending, eof, built, known, terminal, keys, log>>

InputTimeout ==
  /\ loc = "input" /\ Readable = {}
  /\ terminal.hungup \/ (~paused /\ due)
  /\ loc' = "decide"
  /\ UNCHANGED <<back, paused, step_requested, halted, quit_requested, resize_requested,
                 delay, due, pending, eof, built, known, terminal, keys, log>>

NoMoreKeys ==
  /\ loc = "drain" /\ Readable = {}
  /\ loc' = "decide"
  /\ UNCHANGED <<back, paused, step_requested, halted, quit_requested, resize_requested,
                 delay, due, pending, eof, built, known, terminal, keys, log>>

-----------------------------------------------------------------------------
(***************************************************************************)
(* run: execute if it is time to, and what a step asks of the terminal.    *)
(***************************************************************************)

\* Mutant: a program that is paused is not stepped.
BugDecide ==
  /\ loc = "decide"
  /\ loc' = IF ~paused /\ (step_requested \/ due) THEN "step" ELSE "input"
  /\ UNCHANGED <<back, paused, step_requested, halted, quit_requested, resize_requested,
                 delay, due, pending, eof, built, known, terminal, keys, log>>

Decide ==
  /\ loc = "decide"
  /\ loc' = IF step_requested \/ (~paused /\ due) THEN "step" ELSE "input"
  /\ UNCHANGED <<back, paused, step_requested, halted, quit_requested, resize_requested,
                 delay, due, pending, eof, built, known, terminal, keys, log>>

\* An instruction that asks nothing, the end of the program, or an F that finds
\* no zero.
StepOther(kind) ==
  /\ loc = "step"
  /\ kind # "in"
  /\ halted' = (kind = "halt")
  /\ loc' = IF kind = "scan" THEN "scan" ELSE "after"
  /\ UNCHANGED <<back, paused, step_requested, quit_requested, resize_requested,
                 delay, due, pending, eof, built, known, terminal, keys, log>>

\* Mutant: the keyboard is asked before the keys that were typed ahead.
BugStepIn ==
  /\ loc = "step" /\ "in" \in Kinds
  /\ loc' = IF eof THEN "after" ELSE "prompt"
  /\ UNCHANGED <<back, paused, step_requested, halted, quit_requested, resize_requested,
                 delay, due, eof, built, known, terminal, keys, pending, log>>

\* ',': a stream at its end gives zero without asking again; keys typed ahead
\* go first; without any the thread waits.
StepIn ==
  /\ loc = "step" /\ "in" \in Kinds
  /\ IF eof \/ pending # <<>> THEN loc' = "after" ELSE loc' = "prompt"
  /\ IF ~eof /\ pending # <<>>
       THEN /\ pending' = Tail(pending)
            /\ log' = [log EXCEPT !.delivered = Append(@, Head(pending))]
       ELSE UNCHANGED <<pending, log>>
  /\ UNCHANGED <<back, paused, step_requested, halted, quit_requested, resize_requested,
                 delay, due, eof, built, known, terminal, keys>>

\* Mutant: a resize at the prompt is not remembered.
BugPrompt(k) ==
  /\ loc = "prompt"
  /\ Wgetch(k)
  /\ IF k \in Bytes
       THEN /\ loc' = "after"
            /\ log' = [log EXCEPT !.accepted = Append(@, k), !.delivered = Append(@, k)]
       ELSE UNCHANGED <<loc, log>>
  /\ UNCHANGED <<back, paused, step_requested, halted, quit_requested, resize_requested,
                 delay, due, pending, eof, built>>

\* do_input_: commands are not obeyed here; codes above 0xff are dropped, of
\* which only KEY_RESIZE leaves a trace.
Prompt(k) ==
  /\ loc = "prompt"
  /\ Wgetch(k)
  /\ resize_requested' = (resize_requested \/ k = "resize")
  /\ IF k \in Bytes
       THEN /\ loc' = "after"
            /\ log' = [log EXCEPT !.accepted = Append(@, k), !.delivered = Append(@, k)]
       ELSE UNCHANGED <<loc, log>>
  /\ UNCHANGED <<back, paused, step_requested, halted, quit_requested,
                 delay, due, pending, eof, built>>

\* A hangup gives eof, and the stream stays at its end.
PromptFails ==
  /\ loc = "prompt"
  /\ WgetchFails
  /\ eof' = TRUE /\ loc' = "after"
  /\ UNCHANGED <<back, paused, step_requested, halted, quit_requested, resize_requested,
                 delay, due, pending, built, log>>

\* Mutant: the request for a step is not taken back.
BugAfter ==
  /\ loc = "after"
  /\ due' = (delay = 0)
  /\ resize_requested' = FALSE
  /\ log' = [log EXCEPT !.singles = IF paused THEN @ + 1 ELSE @]
  /\ LET next == IF halted THEN "haltmsg" ELSE "input"
     IN  IF resize_requested THEN Rebuild(known, next)
                             ELSE loc' = next /\ UNCHANGED <<back, built>>
  /\ UNCHANGED <<paused, halted, quit_requested, step_requested,
                 delay, pending, eof, known, terminal, keys>>

\* After the step: the next one is due a delay from now, and the windows follow
\* a resize that was seen during the step.
After ==
  /\ loc = "after"
  /\ step_requested' = FALSE
  /\ due' = (delay = 0)
  /\ resize_requested' = FALSE
  /\ log' = [log EXCEPT !.singles = IF paused THEN @ + 1 ELSE @]
  /\ LET next == IF halted THEN "haltmsg" ELSE "input"
     IN  IF resize_requested THEN Rebuild(known, next)
                             ELSE loc' = next /\ UNCHANGED <<back, built>>
  /\ UNCHANGED <<paused, halted, quit_requested,
                 delay, pending, eof, known, terminal, keys>>

\* "HALTED - press any key to quit"
HaltMessage(k) ==
  /\ loc = "haltmsg"
  /\ WgetchRaw(k)
  /\ loc' = "gone"
  /\ UNCHANGED <<back, paused, step_requested, halted, quit_requested, resize_requested,
                 delay, due, pending, eof, built, log>>

HaltMessageFails ==
  /\ loc = "haltmsg"
  /\ WgetchFails
  /\ loc' = "gone"
  /\ UNCHANGED <<back, paused, step_requested, halted, quit_requested, resize_requested,
                 delay, due, pending, eof, built, log>>

-----------------------------------------------------------------------------

Thread ==
  \/ \E k \in Readable :
       TooSmall(k) \/ Ready(k) \/ HandleKey(k) \/ Prompt(k) \/ HaltMessage(k)
  \/ ReadyFails \/ InputTimeout \/ NoMoreKeys \/ Decide
  \/ \E kind \in Kinds : StepOther(kind)
  \/ StepIn \/ PromptFails \/ After \/ HaltMessageFails

Environment ==
  \/ \E k \in Keys : Type(k)
  \/ \E big \in BOOLEAN : Resize(big)
  \/ Hangup

VisualNext == Thread \/ Tick \/ Environment

\* The thread runs and time passes; nobody has to type.
VisualSpec == VisualInit /\ [][VisualNext]_vvars /\ WF_vvars(Thread) /\ WF_vvars(Tick)

-----------------------------------------------------------------------------
(***************************************************************************)
(* Properties.                                                             *)
(***************************************************************************)

VisualTypeOK ==
  /\ loc \in Locations /\ back \in {"ready", "drain", "input", "haltmsg"}
  /\ {paused, step_requested, halted, quit_requested, resize_requested, due, eof} \subseteq BOOLEAN
  /\ delay \in Nat
  /\ pending \in Seq(Bytes)
  /\ keys \in Seq(Keys)
  /\ {built, known, terminal.size} \subseteq Sizes

\* The program gets the bytes that were typed for it once each and in order,
\* whether they were typed ahead or at the prompt.  The stream is at its end for
\* good only behind the last of them: the end shuts out nothing that was typed.
InputInOrder ==
  /\ log.accepted = log.delivered \o pending
  /\ eof => pending = <<>> /\ keys = <<>>

\* A program that is paused executes nothing the user did not ask for with an
\* 's' of its own.
PausedStepsWereAsked == log.singles <= log.asked

\* No resize is forgotten once the loop runs: windows of the wrong size are
\* due to be made again.
ResizeIsPending ==
  (loc \in Looping \ {"small"} /\ ~log.missed /\ built # terminal.size)
    => terminal.winch \/ resize_requested

\* init_ncurses_ has not ended.
Starting == loc = "ready" \/ (loc = "small" /\ back = "ready")

\* Once the loop runs, a 'q' that the user types ends the program, unless the
\* Brainfuck program reads it as its input or is in an F that finds no zero,
\* which is executed to its end without a look at the keys.
QuitIsHeard ==
  (~Starting /\ \E i \in DOMAIN keys : keys[i] = "q")
    ~> \/ loc \in {"gone", "scan"}
       \/ \E i \in DOMAIN log.delivered : log.delivered[i] = "q"

\* The next step comes: that of a program that is not paused, and the one an
\* 's' asks for, which waits neither for the clock nor for another key whatever
\* is typed behind it.  Several 's' that are read together share one step.
StepComes ==
  (loc = "input" /\ ~paused) \/ (loc \in {"input", "drain", "decide"} /\ step_requested)
    ~> loc \in {"step", "small", "gone"} \/ (paused /\ ~step_requested)

(***************************************************************************)
(* What the README says.                                                   *)
(***************************************************************************)

\* "resize support": windows of the wrong size are always due to be made again.
EveryResizeIsPending ==
  (loc \in Looping \ {"small"} /\ built # terminal.size)
    => terminal.winch \/ resize_requested
=============================================================================
