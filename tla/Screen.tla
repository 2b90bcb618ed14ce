------------------------------- MODULE Screen -------------------------------
(***************************************************************************)
(* The PC's text screen (boards/pc/dbg_putchar.c): a character goes where  *)
(* the cursor is, and the line after the last one is the first one again.  *)
(* The attributes of the cells are left out.                               *)
(***************************************************************************)
EXTENDS Libs

CONSTANTS COLUMNS, LINES
ASSUME ScreenAssumption == COLUMNS \in Nat \ {0} /\ LINES \in Nat \ {0}

Cells == 0..(COLUMNS * LINES - 1)
Cell(s) == s.xpos + s.ypos * COLUMNS
Cursor == 95

Cls == [video |-> [i \in Cells |-> 0], xpos |-> 0, ypos |-> 0]

NextLine(s) == [s EXCEPT !.xpos = 0, !.ypos = (@ + 1) % LINES]
Forward_Bug(s) == IF s.xpos + 1 > COLUMNS THEN NextLine(s) ELSE [s EXCEPT !.xpos = @ + 1]
Forward(s) == IF s.xpos + 1 >= COLUMNS THEN NextLine(s) ELSE [s EXCEPT !.xpos = @ + 1]

(* From the first place of the first line the cursor goes to its last one. *)
Back_Bug(s) == IF s.xpos = 0 THEN s ELSE [s EXCEPT !.xpos = @ - 1]
Back(s) ==
  IF s.xpos > 0 THEN [s EXCEPT !.xpos = @ - 1]
  ELSE [s EXCEPT !.xpos = COLUMNS - 1, !.ypos = IF @ = 0 THEN 0 ELSE @ - 1]

DbgPutchar(s, c) ==
  LET clear == [s EXCEPT !.video[Cell(s)] = 0]
      moved == CASE c = 10 -> NextLine(clear)
                 [] c = 8  -> Back(clear)
                 [] OTHER  -> Forward([clear EXCEPT !.video[Cell(s)] = c])
  IN  IF c = 13 THEN clear ELSE [moved EXCEPT !.video[Cell(moved)] = Cursor]

(* What stdout_task() writes, a '\r' after each '\n', and the screen shows. *)
RxFunc(s, text) ==
  FoldLeft(LAMBDA a, c : IF c = 10 THEN DbgPutchar(DbgPutchar(a, c), 13)
                         ELSE DbgPutchar(a, c), s, text)
=============================================================================
