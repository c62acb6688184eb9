------------------------------ MODULE Console ------------------------------
(***************************************************************************)
(* The console: kernel_main prints through printf and log_print, and       *)
(* keyboard_handler echoes keys, on one terminal.  The handler runs with   *)
(* interrupts off, so that its terminal_putchar is one step; that of       *)
(* kernel_main can be interrupted between the reads and writes of          *)
(* terminal_column and terminal_row, which nothing protects.  Whether the  *)
(* compiled code reads such a variable again or uses what it read before   *)
(* is left open.                                                           *)
(***************************************************************************)
EXTENDS Keyboard, Terminal, Printf

CONSTANTS
  PrintfCalls,       \* the calls of printf: sequences of directives
  LogCalls,          \* the calls of log_print
  Banner,            \* the call during and after which keys are pressed
  Echoes,            \* what keys print
  EchoesInside,      \* what those print that may come inside a terminal_putchar
  MaxBytes           \* bound: bytes the keyboard sends

VARIABLES
  t,         \* the terminal
  source,    \* the call kernel_main makes: its formatter and its directives
  text,      \* the characters the call prints
  main,      \* kernel_main: where it is in terminal_putchar, how many
             \* characters it has printed, and the row and column it read
  echo,      \* the characters keyboard_handler has still to print
  raced,     \* whether a key was ever pressed inside a terminal_putchar
  paper,     \* what was printed until then, on a sheet of paper
  bytes      \* bytes the keyboard may still send

consoleVars == <<vars, t, source, text, main, echo, raced, paper, bytes>>

-----------------------------------------------------------------------------
(* Directives: what stands in the format, and its argument.                *)

Joined(parts) ==
  LET f[k \in 0..Len(parts)] == IF k = 0 THEN <<>> ELSE f[k - 1] \o parts[k]
  IN f[Len(parts)]

Format(ds) == Joined([k \in 1..Len(ds) |-> ds[k].spelled])
Args(ds) == Joined([k \in 1..Len(ds) |-> IF ds[k].takes THEN <<ds[k].arg>> ELSE <<>>])

(* log_print formats into its buffer and prints that with the time in front,
   here cut down to one number. *)
log_print(ds) ==
  printf(<<"[", "%", "i", "]", "%", "s", "NL">>, <<0, vasprintf(Format(ds), Args(ds))>>)

Printed(src) == IF src.log THEN log_print(src.call) ELSE printf(Format(src.call), Args(src.call))

Calls == [log : {FALSE}, call : PrintfCalls] \cup [log : {TRUE}, call : LogCalls]
BannerCall == [log |-> FALSE, call |-> Banner]

(* How a directive is written, and what goes with it: plain characters; '%%'; '%', a
   length modifier and a conversion that printf knows with it, and an argument of
   its kind; or a conversion that printf does not know, whose letter does not read
   as part of the modifier. *)
Plain(c) == c \in STRING \ {"%", NUL}
Conversion(d, c, m) == d.spelled = <<"%">> \o m \o <<c>>
Written(d) ==
  /\ d.takes = (d.kind \in {"int", "uint", "char", "text"})
  /\ \/ d.kind = "raw" /\ d.spelled \in Seq(STRING) /\ d.spelled # <<>>
          /\ \A k \in 1..Len(d.spelled) : Plain(d.spelled[k])
     \/ d.kind = "percent" /\ d.spelled = <<"%", "%">>
     \/ \E m \in LengthModifiers :
          \/ /\ d.kind = "int" /\ d.arg \in 0..(WORD - 1)
             /\ \E c \in Signed : Known(c, m) /\ Conversion(d, c, m)
          \/ /\ d.kind = "uint" /\ d.arg \in 0..(WORD - 1)
             /\ \E c \in {"o", "u", "x", "X", "p"} :
                  Known(c, m) /\ Conversion(d, c, m) /\ d.base = Base(c)
          \/ d.kind = "char" /\ d.arg \in STRING /\ Conversion(d, "c", m)
          \/ d.kind = "text" /\ d.arg \in Seq(STRING \ {NUL}) /\ Conversion(d, "s", m)
          \/ /\ d.kind = "unknown"
             /\ LET c == d.spelled[Len(d.spelled)] IN
                /\ Plain(c) /\ \A o \in LengthModifiers : \A n \in 1..Len(o) : c # o[n]
                /\ ~ Known(c, m) /\ Conversion(d, c, m)

ASSUME DirectiveAssumption ==
  /\ \A ds \in PrintfCalls \cup {Banner} :
       Len(ds) \in Nat /\ \A k \in 1..Len(ds) : Written(ds[k])
  /\ \A ds \in LogCalls : \A k \in DOMAIN ds :
       ds[k].kind = "dec" => ds[k].arg \in 0..(WORD - 1) /\ ds[k].width \in Nat

(* A key prints its character; but keys 2 and 3 print the address of what they have
   allocated, and heap_alloc a message before it when it finds no page. *)
AddrText(addr) == printf(<<"A", "d", "d", "r", ":", "%", "x", "NL">>, <<addr>>)
NoFreeMemory == printf(<<"-", "-", " ", "N", "O", " ", "F", "R", "E", "E", " ", "M", "E",
                         "M", "O", "R", "Y", " ", "-", "-", "NL">>, <<>>)
KeyText(s) ==
  \/ Len(s) = 1
  \/ \E addr \in 0..(WORD - 1) : s = AddrText(addr)
  \/ s = NoFreeMemory \o AddrText(0)

(* The kernel's texts are not empty and hold no other control character than
   newline, the banner ends with one, and fewer keys are pressed than would take
   backspaces once around size_t. *)
ASSUME ConsoleAssumption ==
  /\ MaxBytes \in Nat /\ MaxBytes + VGA_WIDTH * VGA_HEIGHT < SIZE_RANGE
  /\ \A src \in Calls \cup {BannerCall} :
       /\ Len(Printed(src)) \in Nat \ {0}
       /\ \A k \in 1..Len(Printed(src)) : Printed(src)[k] \notin {"CR", "BS"}
       /\ src.call = Banner => Printed(src)[Len(Printed(src))] = "NL"
  /\ \A s \in Echoes \cup EchoesInside :
       /\ s \in Seq(STRING) \ {<<>>} /\ KeyText(s)
       /\ \A k \in 2..Len(s) : s[k] \notin {"CR", "BS"}

-----------------------------------------------------------------------------
(* A sheet of paper of any length, on which every character has its place: the
   line, the column, what stands at each place, and whether anything was written
   above the rows that the screen shows.                                   *)

Blanks == [line |-> 0, col |-> 0, at |-> [q \in {} |-> Blank], above |-> FALSE]

Top(p)  == IF p.line < VGA_HEIGHT THEN 0 ELSE p.line + 1 - VGA_HEIGHT
Here(p) == p.line * VGA_WIDTH + p.col

NewLine(p) == [p EXCEPT !.line = @ + 1, !.col = 0]
Move(p, d) == [p EXCEPT !.col = @ + d]
Ink(p, c) ==
  [p EXCEPT !.at = [q \in DOMAIN p.at \cup {Here(p)} |-> IF q = Here(p) THEN c ELSE p.at[q]],
            !.above = @ \/ Here(p) < Top(p) * VGA_WIDTH]

(* A line has room for VGA_WIDTH characters. *)
Wrapped(p) == IF p.col = VGA_WIDTH THEN NewLine(p) ELSE p

Typed(p, c) ==
  CASE c = "NL" -> NewLine(p)
    [] c = "CR" -> [p EXCEPT !.col = 0]
    [] c = "BS" -> Ink(Move(p, -1), Blank)
    [] OTHER    -> Move(Ink(Wrapped(p), c), 1)

-----------------------------------------------------------------------------
ConsoleInit ==
  /\ Init
  /\ t = terminal_initialize
  /\ \/ source \in Calls /\ bytes = 0
     \/ source = BannerCall /\ bytes = MaxBytes
  /\ text = Printed(source)
  /\ main = [at |-> "next", done |-> 0, row |-> 0, col |-> 0]
  /\ echo = <<>> /\ raced = FALSE /\ paper = Blanks

-----------------------------------------------------------------------------
(* kernel_main inside terminal_putchar.  It waits while keyboard_handler prints. *)

Char == text[main.done + 1]
mainVars == <<source, text, echo, raced, bytes>>

CharDone(u) ==
  /\ t' = u
  /\ main' = [main EXCEPT !.at = IF main.done + 1 = Len(text) THEN "done" ELSE "next",
                          !.done = @ + 1]
  /\ paper' = IF raced THEN paper ELSE Typed(paper, Char)

(* The column is read and compared. *)
Test ==
  /\ main.at = "next"
  /\ main' = [main EXCEPT !.at = IF Char = "NL" \/ t.col = VGA_WIDTH THEN "column" ELSE "put",
                          !.col = t.col]
  /\ UNCHANGED <<vars, mainVars, t, paper>>

(* Mutant of NewlineColumn: the column is not reset. *)
NewlineColumn_kept ==
  /\ main.at = "column"
  /\ main' = [main EXCEPT !.at = "row", !.row = t.row, !.col = t.col]
  /\ UNCHANGED <<vars, mainVars, paper, t>>

(* terminal_newline: the column, then the row. *)
NewlineColumn ==
  /\ main.at = "column"
  /\ t' = [t EXCEPT !.col = 0]
  /\ main' = [main EXCEPT !.at = "row", !.row = t.row, !.col = 0]
  /\ UNCHANGED <<vars, mainVars, paper>>

NewlineRow ==
  /\ main.at = "row"
  /\ \E tested \in {main.row, t.row}, row \in {main.row, t.row} :
       IF Char = "NL" THEN CharDone(NextRow(t, tested, row))
       ELSE /\ t' = NextRow(t, tested, row)
            /\ main' = [main EXCEPT !.at = "put"]
            /\ UNCHANGED paper
  /\ UNCHANGED <<vars, mainVars>>

Put ==
  /\ main.at = "put"
  /\ \E x \in {main.col, t.col} : t' = terminal_putentryat(t, Char, x, t.row)
  /\ main' = [main EXCEPT !.at = "advance"]
  /\ UNCHANGED <<vars, mainVars, paper>>

AdvanceColumn ==
  /\ main.at = "advance"
  /\ \E x \in {main.col, t.col} :
       CharDone(terminal_drawcursor(Advance([t EXCEPT !.col = x], 1)))
  /\ UNCHANGED <<vars, mainVars>>

Main == echo = <<>> /\ (Test \/ NewlineColumn \/ NewlineRow \/ Put \/ AdvanceColumn)

(* "main loop": for (;;); *)
MainLoop == main.at = "done" /\ UNCHANGED consoleVars

-----------------------------------------------------------------------------
(* The keyboard.  A make code that is not a shift's is echoed, of a lock key
   as the character 0.                                                     *)

Inside == main.at \notin {"next", "done"}

(* terminal_putchar of the first character of s.  The others are still to come:
   nothing but the handler prints before they have. *)
Echo(s) ==
  /\ t' = terminal_putchar(t, Head(s))
  /\ echo' = Tail(s)
  /\ raced' = (raced \/ Inside)
  /\ paper' = IF raced' THEN paper ELSE Typed(paper, Head(s))

Silent == UNCHANGED <<t, echo, raced, paper>>

Key ==
  \/ \E key \in KeySet :
       \/ /\ Press(key)
          /\ \/ key \in Shifts /\ Silent
             \/ key \in Locks /\ Echo(<<NUL>>)
             \/ key \in Chars /\ \E s \in (IF Inside THEN EchoesInside ELSE Echoes) : Echo(s)
       \/ Break(key) /\ Silent
  \/ (Prefix \/ FakeShift(TRUE) \/ FakeShift(FALSE)) /\ Silent

Byte ==
  /\ echo = <<>>
  /\ bytes > 0 /\ bytes' = bytes - 1
  /\ \/ acks = 0 /\ Key
     \/ Ack /\ Silent
  /\ UNCHANGED <<source, text, main>>

(* The lines of keys 2 and 3, character by character. *)
EchoNext ==
  /\ echo # <<>> /\ Echo(echo)
  /\ UNCHANGED <<vars, source, text, main, bytes>>

ConsoleNext == Main \/ MainLoop \/ Byte \/ EchoNext

ConsoleSpec == ConsoleInit /\ [][ConsoleNext]_consoleVars

-----------------------------------------------------------------------------
(* Properties.                                                             *)

(* A number in positional notation, without leading zeros. *)
Power(base, n) == LET p[k \in Nat] == IF k = 0 THEN 1 ELSE base * p[k - 1] IN p[n]
Numeral(value, base) ==
  LET n == CHOOSE n \in 1..WORD : value < Power(base, n) /\ (n = 1 \/ value >= Power(base, n - 1))
  IN [k \in 1..n |-> Digit[((value \div Power(base, n - k)) % base) + 1]]

(* What a directive should print. *)
Shown(d) ==
  CASE d.kind = "int"  -> IF 2 * d.arg < WORD THEN Numeral(d.arg, 10)
                          ELSE <<"-">> \o Numeral(WORD - d.arg, 10)
    [] d.kind = "uint" -> Numeral(d.arg, d.base)
    [] d.kind = "text" -> d.arg
    [] d.kind = "char" -> <<d.arg>>
    [] d.kind = "percent" -> <<"%">>
    [] OTHER -> d.spelled

(* Every call of printf prints, directive by directive, what the directive asks
   for, up to the first one that printf does not know; from there on, what
   stands in the format. *)
PrintfRight ==
  ~source.log =>
    LET ds == source.call
        rejected(k) == \E j \in 1..k : ds[j].kind = "unknown"
    IN text = Joined([k \in 1..Len(ds) |->
                        IF rejected(k) /\ ds[k].kind # "percent"
                        THEN ds[k].spelled ELSE Shown(ds[k])])

(* A decimal number in a message of log_print can be read back, has at least
   the width asked for, and no zero too many as long as the largest number of
   so many digits is a word. *)
LogNumbers ==
  source.log =>
    \A k \in DOMAIN source.call : source.call[k].kind = "dec" =>
      LET d == source.call[k]
          s == print_dec(d.arg, d.width)
          n == Len(Numeral(d.arg, 10))
          longest == IF n < d.width THEN d.width ELSE n IN
      /\ Len(s) >= longest /\ (Power(10, n) <= WORD => Len(s) = longest)
      /\ \A j \in 1..Len(s) :
           s[j] = IF j <= Len(s) - n THEN "0" ELSE Numeral(d.arg, 10)[j - (Len(s) - n)]

(* Both formatters print what their directives ask for. *)
TextRight == PrintfRight /\ LogNumbers

(* The screen shows the last rows of the paper and is in the same one. *)
Shows(u, p) ==
  /\ u.stray = p.above
  /\ u.row = p.line - Top(p)
  /\ \A k \in Cells :
       LET q == Top(p) * VGA_WIDTH + k IN
       u.cell[k] = IF q \in DOMAIN p.at THEN p.at[q] ELSE Blank

(* Unless a key came inside a terminal_putchar, the screen shows the last rows
   of everything that was printed, keys' lines in the middle of kernel_main's
   included, also after rows that were full, rows that
   were scrolled away, and backspaces across the beginning of a row.  Characters
   are written outside the screen exactly when backspaces have gone over its
   top left corner. *)
ScreenRight == ~raced /\ ~Inside => Shows(t, paper) /\ t.col = paper.col % SIZE_RANGE

(* Keys 2 and 3 and Enter are not pressed inside a terminal_putchar. *)
OneCharInside == \A s \in EchoesInside : Len(s) = 1 /\ s[1] # "NL"

(* A column that a key pushed over the edge of the screen does not outlive the
   newline at the end of the banner: when kernel_main is done, the position is
   on the screen again (or left of a row, by backspaces), unless a key that prints
   a newline (Enter, 2 or 3) came inside that newline, or more keys than a row has
   places. *)
Recovers ==
  /\ main.at = "done" /\ source.call = Banner
  /\ OneCharInside /\ MaxBytes <= VGA_WIDTH
  => /\ t.row < VGA_HEIGHT
     /\ t.col <= VGA_WIDTH \/ t.col >= SIZE_RANGE - MaxBytes
=============================================================================
