------------------------------ MODULE Console -------------------------------
(***************************************************************************)
(* io.c and devices.c: the screen of NUM_ROWS rows of NUM_COLUMNS, with a  *)
(* cursor that goes round, and the debug port to which printc sends every  *)
(* character.  A console is a record; every function maps one to the next. *)
(* Characters are numbers, 10 the newline.                                 *)
(*                                                                         *)
(* port and shown record what came out since the call under way began.     *)
(***************************************************************************)
EXTENDS Integers, Sequences

CONSTANTS NUM_COLUMNS, NUM_ROWS

ASSUME ScreenAssumption == {NUM_COLUMNS, NUM_ROWS} \subseteq Nat \ {0}

NL == 10
Cells == NUM_COLUMNS * NUM_ROWS
Cursor(con) == con.y * NUM_COLUMNS + con.x

Blank(row) == [x |-> 0, y |-> row, port |-> << >>, shown |-> << >>]

NextRow(con) == [con EXCEPT !.x = 0, !.y = (@ + 1) % NUM_ROWS]

\* A character in a cell of the screen.
Draw(shown, cell, c) == [a \in DOMAIN shown \cup {cell} |-> IF a = cell THEN c ELSE shown[a]]

printc(con, c) ==
  LET sent == [con EXCEPT !.port = Append(@, c)]
      drawn == [sent EXCEPT !.shown = Draw(@, Cursor(con), c)]
  IN IF c = NL THEN NextRow(sent)
     ELSE IF con.x + 1 >= NUM_COLUMNS THEN NextRow(drawn) ELSE [drawn EXCEPT !.x = @ + 1]

printc_xyBug(con, mx, my, c) == printc([con EXCEPT !.x = mx, !.y = my], c)
printc_xy(con, mx, my, c) ==
  [printc([con EXCEPT !.x = mx, !.y = my], c) EXCEPT !.x = con.x, !.y = con.y]

\* A string of at most three pieces, as the clock routine of the game kernel prints.
printk(con, s) ==
  LET one == printc(con, s[1])
      two == IF Len(s) < 2 THEN one ELSE printc(one, s[2])
  IN IF Len(s) < 3 THEN two ELSE printc(two, s[3])
=============================================================================
