------------------------------- MODULE Layout -------------------------------
(***************************************************************************)
(* What the visualizer draws of a machine: its windows on a terminal of    *)
(* some size, the instructions around pc and the cells around ptr.         *)
(***************************************************************************)
EXTENDS Machine, FiniteSets

CONSTANT Screens   \* sizes of the terminal

\* rebuild_windows_ goes on only with a terminal of this size.
ASSUME ScreensAssumption ==
  Screens \subseteq [rows : Nat \ 0 .. 17, columns : Nat \ 0 .. 59]

-----------------------------------------------------------------------------
(***************************************************************************)
(* rebuild_windows_: six windows.                                          *)
(***************************************************************************)

Larger(a, b) == IF a > b THEN a ELSE b

MemHeight       == 4
MessageHeight   == 1
Available(s)    == s.rows - MemHeight - MessageHeight

CodeHeight(s)   == Larger(7, Available(s) \div 3)

IoHeight(s)     == Available(s) - CodeHeight(s)
RightWidth(s)   == Larger(20, s.columns \div 4)
LeftWidth(s)    == s.columns - RightWidth(s)

\* newwin.
Window(height, width, y, x) == [height |-> height, width |-> width, y |-> y, x |-> x]

Windows(s) ==
  [mem  |-> Window(MemHeight, s.columns, 0, 0),
   code |-> Window(CodeHeight(s), LeftWidth(s), MemHeight, 0),
   reg  |-> Window(CodeHeight(s), RightWidth(s), MemHeight, LeftWidth(s)),
   io   |-> Window(IoHeight(s), LeftWidth(s), MemHeight + CodeHeight(s), 0),
   help |-> Window(IoHeight(s), RightWidth(s), MemHeight + CodeHeight(s), LeftWidth(s)),
   msg  |-> Window(MessageHeight, s.columns, s.rows - MessageHeight, 0)]

-----------------------------------------------------------------------------
(***************************************************************************)
(* print_code_ and print_mem_.                                             *)
(***************************************************************************)

\* Mutant: the view is not taken back to the end of the program.
BugFirstLine(s) ==
  LET half == CodeHeight(s) \div 2
  IN  IF pc > half THEN pc - half ELSE 0

\* The first instruction that is shown: the current one is in the middle, but
\* the program begins and ends at an edge of the window if it is longer.
FirstLine(s) ==
  LET lines == CodeHeight(s)
      half  == lines \div 2
      start == IF pc > half THEN pc - half ELSE 0
  IN  IF Len(bitcode) > lines /\ start + lines > Len(bitcode)
        THEN Len(bitcode) - lines ELSE start

\* The addresses of the instructions that are shown.
Listed(s) == {i \in FirstLine(s) .. FirstLine(s) + CodeHeight(s) - 1 : i < Len(bitcode)}

\* Mutant: as many cells as have room, odd or even.
BugCells(s) == Larger(1, s.columns \div 6)

\* An odd number of cells, so that one is in the middle.
Cells(s) ==
  LET room == Larger(1, s.columns \div 6)
  IN  IF room % 2 = 0 THEN room - 1 ELSE room

\* The address of the cell so many places right of the middle.
ShownCell(offset) == WrapOffset(ptr, offset, MemSize)
Offsets(s) == -(Cells(s) \div 2) .. Cells(s) \div 2

-----------------------------------------------------------------------------
(***************************************************************************)
(* Properties.                                                             *)
(***************************************************************************)

Inside(w, s) ==
  /\ w.height > 0 /\ w.width > 0 /\ w.y >= 0 /\ w.x >= 0
  /\ w.y + w.height <= s.rows /\ w.x + w.width <= s.columns

Apart(v, w) ==
  \/ v.y + v.height <= w.y \/ w.y + w.height <= v.y
  \/ v.x + v.width <= w.x  \/ w.x + w.width <= v.x

Contains(w, y, x) ==
  /\ w.y <= y /\ y < w.y + w.height
  /\ w.x <= x /\ x < w.x + w.width

\* newwin refuses no window, no window hides a part of another, and together
\* they cover the terminal.
Tiled(s) ==
  LET ws == Windows(s)
  IN  /\ \A n \in DOMAIN ws : Inside(ws[n], s)
      /\ \A m, n \in DOMAIN ws : m # n => Apart(ws[m], ws[n])
      /\ \A y \in 0 .. s.rows - 1, x \in 0 .. s.columns - 1 :
           \E n \in DOMAIN ws : Contains(ws[n], y, x)

WindowsTile == \A s \in Screens : Tiled(s)

\* Wherever the machine is, its instruction is among those that are shown, and
\* no line is left blank while the program has more instructions than lines.
CurrentIsShown ==
  bitcode # <<>> =>
    \A s \in Screens :
      /\ pc \in Listed(s)
      /\ Len(bitcode) > CodeHeight(s) => Cardinality(Listed(s)) = CodeHeight(s)

\* The cell of ptr is in the middle of the cells, its neighbours on the tape are
\* beside it, over the ends of the tape too, and all of them have room.
TapeIsShown ==
  \A s \in Screens :
    /\ 6 * Cardinality(Offsets(s)) <= s.columns
    /\ ShownCell(0) = ptr
    /\ \A o \in Offsets(s) :
         o + 1 \in Offsets(s) => ShownCell(o + 1) = (ShownCell(o) + 1) % MemSize
=============================================================================
