------------------------------ MODULE Terminal ------------------------------
(***************************************************************************)
(* The text terminal (kernel/ui/tty.c): a window of VGA_HEIGHT rows of     *)
(* VGA_WIDTH characters and the position of the next one.  A terminal is a *)
(* record: row and col are terminal_row and terminal_column, cell the      *)
(* characters on the screen (their colour is left out), cursor the place   *)
(* the VGA controller was told last, and stray whether a character was     *)
(* ever written outside the screen.                                        *)
(***************************************************************************)
EXTENDS Integers

CONSTANTS
  VGA_WIDTH, VGA_HEIGHT,
  SIZE_RANGE       \* the range of size_t, where columns and indices wrap around

ASSUME TerminalAssumption ==
  /\ VGA_WIDTH \in Nat \ {0} /\ VGA_HEIGHT \in Nat \ {0}
  /\ SIZE_RANGE \in Nat /\ SIZE_RANGE > 2 * VGA_WIDTH * VGA_HEIGHT

Cells == 0..(VGA_WIDTH * VGA_HEIGHT - 1)
Blank == " "      \* NL, CR and BS stand for newline, return and backspace

terminal_initialize ==
  [row |-> 0, col |-> 0, cell |-> [k \in Cells |-> Blank], cursor |-> 0, stray |-> FALSE]

terminal_putentryat(t, c, x, y) ==
  LET index == (y * VGA_WIDTH + x) % SIZE_RANGE IN
  IF index \in Cells THEN [t EXCEPT !.cell[index] = c] ELSE [t EXCEPT !.stray = TRUE]

(* Mutant of terminal_scroll: the last row keeps what it shows. *)
terminal_scroll_kept(t) ==
  [t EXCEPT !.cell = [k \in Cells |->
     IF k + VGA_WIDTH \in Cells THEN t.cell[k + VGA_WIDTH] ELSE t.cell[k]]]

terminal_scroll(t) ==
  [t EXCEPT !.cell = [k \in Cells |->
     IF k + VGA_WIDTH \in Cells THEN t.cell[k + VGA_WIDTH] ELSE Blank]]

(* The row below, or a new row at the bottom.  terminal_row is read for the
   comparison, and for the increment. *)
NextRow(t, tested, row) ==
  IF tested + 1 = VGA_HEIGHT THEN terminal_scroll(t) ELSE [t EXCEPT !.row = row + 1]

terminal_newline(t) == NextRow([t EXCEPT !.col = 0], t.row, t.row)

terminal_drawcursor(t) ==
  [t EXCEPT !.cursor = (t.row * VGA_WIDTH + t.col) % SIZE_RANGE]

Advance(t, d) == [t EXCEPT !.col = (@ + d) % SIZE_RANGE]

(* A character that shows: a full row is left only now. *)
PutVisible(t, c) ==
  LET u == IF t.col = VGA_WIDTH THEN terminal_newline(t) ELSE t IN
  terminal_drawcursor(Advance(terminal_putentryat(u, c, u.col, u.row), 1))

(* terminal_putchar as a whole.  Backspace goes back one column, puts a blank
   there and goes back again; from column 0 the column wraps around. *)
terminal_putchar(t, c) ==
  CASE c = "NL" -> terminal_newline(t)
    [] c = "CR" -> [t EXCEPT !.col = 0]
    [] c = "BS" -> terminal_drawcursor(Advance(PutVisible(Advance(t, -1), Blank), -1))
    [] OTHER    -> PutVisible(t, c)
=============================================================================
