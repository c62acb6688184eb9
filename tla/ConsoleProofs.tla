--------------------------- MODULE ConsoleProofs ---------------------------
(***************************************************************************)
(* Console, for every size of the screen and every text: the screen shows  *)
(* the end of what was printed unless a key came inside a                  *)
(* terminal_putchar, the position recovers if one did, and what is printed *)
(* is what the directives ask for.  Keyboard, for every size of its        *)
(* buffer.                                                                 *)
(***************************************************************************)
EXTENDS Console, WellFoundedInduction, SequenceTheorems, TLAPS

-----------------------------------------------------------------------------
(* Arithmetic of places.                                                   *)

(* The sizes of the screen and of size_t. *)
LEMMA Sizes ==
  /\ VGA_WIDTH \in Nat \ {0} /\ VGA_HEIGHT \in Nat \ {0} /\ SIZE_RANGE \in Nat \ {0}
  /\ VGA_WIDTH * VGA_HEIGHT \in Nat /\ MaxBytes \in Nat
  /\ MaxBytes + VGA_WIDTH * VGA_HEIGHT < SIZE_RANGE
  /\ 2 * (VGA_WIDTH * VGA_HEIGHT) < SIZE_RANGE
  /\ VGA_WIDTH <= VGA_WIDTH * VGA_HEIGHT
<1>1. /\ VGA_WIDTH \in Nat \ {0} /\ VGA_HEIGHT \in Nat \ {0} /\ SIZE_RANGE \in Nat
      /\ VGA_WIDTH * VGA_HEIGHT \in Nat /\ MaxBytes \in Nat
      /\ MaxBytes + VGA_WIDTH * VGA_HEIGHT < SIZE_RANGE
      /\ 2 * VGA_WIDTH * VGA_HEIGHT < SIZE_RANGE
  BY TerminalAssumption, ConsoleAssumption
<1>2. 2 * VGA_WIDTH * VGA_HEIGHT = 2 * (VGA_WIDTH * VGA_HEIGHT)
  BY <1>1
<1>3. PICK h \in Nat : VGA_HEIGHT = 1 + h
  <2>1. VGA_HEIGHT - 1 \in Nat /\ VGA_HEIGHT = 1 + (VGA_HEIGHT - 1)
    BY <1>1
  <2> QED BY <2>1
<1>4. VGA_WIDTH * VGA_HEIGHT = VGA_WIDTH + VGA_WIDTH * h /\ VGA_WIDTH * h \in Nat
  BY <1>1, <1>3
<1> QED BY <1>1, <1>2, <1>4

(* A row more is VGA_WIDTH places more. *)
LEMMA NextProduct ==
  ASSUME NEW n \in Int
  PROVE  /\ n * VGA_WIDTH \in Int
         /\ (n + 1) * VGA_WIDTH = n * VGA_WIDTH + VGA_WIDTH
BY Sizes

(* Rows between others are places between theirs. *)
LEMMA Rows ==
  ASSUME NEW m \in Int, NEW n \in Int, m <= n
  PROVE  m * VGA_WIDTH \in Int /\ n * VGA_WIDTH \in Int /\ m * VGA_WIDTH <= n * VGA_WIDTH
<1>1. VGA_WIDTH \in Nat
  BY Sizes
<1>2. PICK d \in Nat : n = m + d
  <2>1. n - m \in Nat /\ n = m + (n - m)
    OBVIOUS
  <2> QED BY <2>1
<1>3. n * VGA_WIDTH = m * VGA_WIDTH + d * VGA_WIDTH /\ d * VGA_WIDTH \in Nat
  BY <1>1, <1>2
<1> QED BY <1>1, <1>3

(* What a number less than size_t's range away from it wraps around to. *)
LEMMA Wrap ==
  ASSUME NEW x \in Int, 0 - SIZE_RANGE <= x, x < 2 * SIZE_RANGE
  PROVE  x % SIZE_RANGE = IF x < 0 THEN x + SIZE_RANGE
                          ELSE IF x < SIZE_RANGE THEN x ELSE x - SIZE_RANGE
<1>1. SIZE_RANGE \in Nat \ {0}
  BY Sizes
<1> DEFINE q == x \div SIZE_RANGE
           r == x % SIZE_RANGE
<1>2. q \in Int /\ r \in Nat /\ r < SIZE_RANGE /\ x = SIZE_RANGE * q + r
  BY <1>1
<1> HIDE DEF q, r
<1>3. CASE q <= -2
  <2>1. PICK d \in Nat : q = -2 - d
    <3>1. -2 - q \in Nat /\ q = -2 - (-2 - q)
      BY <1>2, <1>3
    <3> QED BY <3>1
  <2>2. SIZE_RANGE * q = 0 - 2 * SIZE_RANGE - SIZE_RANGE * d /\ SIZE_RANGE * d \in Nat
    BY <1>1, <2>1
  <2> QED BY <1>1, <1>2, <2>2
<1>4. CASE q = -1 \/ q = 0 \/ q = 1
  BY <1>1, <1>2, <1>4 DEF r
<1>5. CASE q >= 2
  <2>1. PICK d \in Nat : q = 2 + d
    <3>1. q - 2 \in Nat /\ q = 2 + (q - 2)
      BY <1>2, <1>5
    <3> QED BY <3>1
  <2>2. SIZE_RANGE * q = 2 * SIZE_RANGE + SIZE_RANGE * d /\ SIZE_RANGE * d \in Nat
    BY <1>1, <2>1
  <2> QED BY <1>1, <1>2, <2>2
<1> QED BY <1>2, <1>3, <1>4, <1>5

-----------------------------------------------------------------------------
(* The screen and the paper.                                               *)

PaperOK(p) ==
  /\ p = [line |-> p.line, col |-> p.col, at |-> p.at, above |-> p.above]
  /\ p.line \in Nat /\ p.col \in Int /\ p.above \in BOOLEAN
  /\ p.at = [q \in DOMAIN p.at |-> p.at[q]]
  /\ \A q \in DOMAIN p.at : q \in Int /\ q < (p.line + 1) * VGA_WIDTH

TermOK(u) ==
  /\ u = [row |-> u.row, col |-> u.col, cell |-> u.cell, cursor |-> u.cursor,
          stray |-> u.stray]
  /\ u.row \in Nat /\ u.col \in Nat /\ u.col < SIZE_RANGE
  /\ u.cell = [k \in Cells |-> u.cell[k]] /\ u.stray \in BOOLEAN

(* The first line that the screen shows, and the row it is in. *)
LEMMA TopRange ==
  ASSUME NEW p, PaperOK(p)
  PROVE  /\ Top(p) \in Nat /\ Top(p) <= p.line /\ p.line - Top(p) \in Nat
         /\ p.line - Top(p) < VGA_HEIGHT
         /\ p.line - Top(p) + 1 = VGA_HEIGHT <=> p.line + 1 >= VGA_HEIGHT
         /\ p.line + 1 >= VGA_HEIGHT => Top(p) = p.line + 1 - VGA_HEIGHT
BY Sizes DEF Top, PaperOK

(* A new line on paper. *)
LEMMA NewLineFields ==
  ASSUME NEW p, PaperOK(p)
  PROVE  /\ NewLine(p).line = p.line + 1 /\ NewLine(p).col = 0
         /\ NewLine(p).at = p.at /\ NewLine(p).above = p.above
         /\ PaperOK(NewLine(p))
<1>0. /\ p = [line |-> p.line, col |-> p.col, at |-> p.at, above |-> p.above]
      /\ p.line \in Nat
  BY DEF PaperOK
<1>1. /\ p.line \in Nat /\ p.above \in BOOLEAN
      /\ p.at = [q \in DOMAIN p.at |-> p.at[q]]
      /\ \A q \in DOMAIN p.at : q \in Int /\ q < (p.line + 1) * VGA_WIDTH
  BY DEF PaperOK
<1> PICK n : n = NewLine(p)
  OBVIOUS
<1>2. /\ n.line = p.line + 1 /\ n.col = 0 /\ n.at = p.at /\ n.above = p.above
      /\ n = [line |-> n.line, col |-> n.col, at |-> n.at, above |-> n.above]
  BY <1>0 DEF NewLine
<1>3. \A q \in DOMAIN p.at : q < (p.line + 1 + 1) * VGA_WIDTH
  <2>1. /\ (p.line + 1) * VGA_WIDTH \in Int
        /\ (p.line + 1 + 1) * VGA_WIDTH = (p.line + 1) * VGA_WIDTH + VGA_WIDTH
    <3>1. p.line + 1 \in Int
      BY <1>1
    <3> QED BY <3>1, NextProduct
  <2> QED BY <1>1, <2>1, Sizes
<1>4. PaperOK(n)
  BY <1>1, <1>2, <1>3 DEF PaperOK
<1> QED BY <1>2, <1>4

(* The row below: the screen goes down, or moves up by one line of the paper,
   below whose last line nothing was written yet. *)
LEMMA RowShows ==
  ASSUME NEW u, TermOK(u), NEW p, PaperOK(p), Shows(u, p)
  PROVE  /\ Shows(NextRow(u, u.row, u.row), NewLine(p))
         /\ TermOK(NextRow(u, u.row, u.row)) /\ NextRow(u, u.row, u.row).col = u.col
<1> DEFINE v == NextRow(u, u.row, u.row)
           n == NewLine(p)
<1>1. /\ n.line = p.line + 1 /\ n.at = p.at /\ n.above = p.above /\ PaperOK(n)
      /\ p.line \in Nat
  BY NewLineFields DEF PaperOK
<1>2. /\ Top(p) \in Nat /\ u.row = p.line - Top(p) /\ u.row \in Nat /\ u.row < VGA_HEIGHT
      /\ u.row + 1 = VGA_HEIGHT <=> p.line + 1 >= VGA_HEIGHT
      /\ p.line + 1 >= VGA_HEIGHT => Top(p) = p.line + 1 - VGA_HEIGHT
  BY TopRange DEF Shows
<1>3. u = [row |-> u.row, col |-> u.col, cell |-> u.cell, cursor |-> u.cursor,
           stray |-> u.stray]
  BY DEF TermOK
<1>4. CASE u.row + 1 = VGA_HEIGHT
  <2> DEFINE cells == [k \in Cells |->
                         IF k + VGA_WIDTH \in Cells THEN u.cell[k + VGA_WIDTH] ELSE Blank]
  <2>1. /\ v.row = u.row /\ v.col = u.col /\ v.cell = cells /\ v.stray = u.stray
        /\ v = [row |-> v.row, col |-> v.col, cell |-> v.cell, cursor |-> v.cursor,
                stray |-> v.stray]
    BY <1>3, <1>4 DEF NextRow, terminal_scroll
  <2>2. Top(n) = Top(p) + 1
    BY <1>1, <1>2, <1>4, Sizes DEF Top
  <2>3. ASSUME NEW k \in Cells
        PROVE  cells[k] = IF Top(n) * VGA_WIDTH + k \in DOMAIN p.at
                          THEN p.at[Top(n) * VGA_WIDTH + k] ELSE Blank
    <3>1. Top(n) * VGA_WIDTH = Top(p) * VGA_WIDTH + VGA_WIDTH /\ Top(p) * VGA_WIDTH \in Int
      BY <1>2, <2>2, NextProduct
    <3>2. k \in Nat /\ k < VGA_WIDTH * VGA_HEIGHT
      BY Sizes DEF Cells
    <3>3. Top(n) * VGA_WIDTH + k = Top(p) * VGA_WIDTH + (k + VGA_WIDTH)
      BY <3>1, <3>2, Sizes
    <3>4. CASE k + VGA_WIDTH \in Cells
      BY <3>3, <3>4 DEF Shows
    <3>5. CASE k + VGA_WIDTH \notin Cells
      <4>1. k + VGA_WIDTH >= VGA_WIDTH * VGA_HEIGHT
        BY <3>2, <3>5, Sizes DEF Cells
      <4>2. (p.line + 1) * VGA_WIDTH = Top(p) * VGA_WIDTH + VGA_WIDTH * VGA_HEIGHT
        <5>1. p.line + 1 = Top(p) + VGA_HEIGHT
          BY <1>1, <1>2, <1>4, Sizes
        <5>2. (Top(p) + VGA_HEIGHT) * VGA_WIDTH = Top(p) * VGA_WIDTH + VGA_WIDTH * VGA_HEIGHT
          BY <1>2, Sizes
        <5> QED BY <5>1, <5>2
      <4>3. Top(n) * VGA_WIDTH + k >= (p.line + 1) * VGA_WIDTH
        BY <3>1, <3>2, <3>3, <4>1, <4>2, Sizes
      <4>4. Top(n) * VGA_WIDTH + k \notin DOMAIN p.at
        <5>1. (p.line + 1) * VGA_WIDTH \in Int /\ Top(n) * VGA_WIDTH + k \in Int
          BY <3>1, <3>2, <4>2, Sizes
        <5>2. \A q \in DOMAIN p.at : q \in Int /\ q < (p.line + 1) * VGA_WIDTH
          BY DEF PaperOK
        <5> QED BY <4>3, <5>1, <5>2
      <4> QED BY <3>5, <4>4
    <3> QED BY <3>4, <3>5
  <2> HIDE DEF cells, n, v
  <2>4. v.row = n.line - Top(n)
    BY <1>1, <1>2, <2>1, <2>2
  <2>5. Shows(v, n)
    BY <1>1, <2>1, <2>3, <2>4 DEF Shows
  <2>6. TermOK(v) /\ v.col = u.col
    BY <2>1 DEF TermOK, cells
  <2> QED BY <2>5, <2>6 DEF v, n
<1>5. CASE u.row + 1 # VGA_HEIGHT
  <2>1. /\ v.row = u.row + 1 /\ v.col = u.col /\ v.cell = u.cell /\ v.stray = u.stray
        /\ v = [row |-> v.row, col |-> v.col, cell |-> v.cell, cursor |-> v.cursor,
                stray |-> v.stray]
    BY <1>3, <1>5 DEF NextRow
  <2>2. Top(n) = Top(p)
    BY <1>1, <1>2, <1>5, Sizes DEF Top, PaperOK
  <2> HIDE DEF n, v
  <2>3. v.row = n.line - Top(n)
    BY <1>1, <1>2, <2>1, <2>2
  <2>4. Shows(v, n)
    BY <1>1, <2>1, <2>2, <2>3 DEF Shows
  <2>5. TermOK(v) /\ v.col = u.col
    BY <2>1 DEF TermOK
  <2> QED BY <2>4, <2>5 DEF v, n
<1> QED BY <1>4, <1>5

(* Where a character goes on the screen: to its place on the paper, counted from
   the first row that shows, or to an index outside of the screen. *)
LEMMA IndexOf ==
  ASSUME NEW r \in Nat, r < VGA_HEIGHT,
         NEW x \in Int, 0 - MaxBytes <= x, x < VGA_WIDTH
  PROVE  /\ r * VGA_WIDTH + x \in Int /\ r * VGA_WIDTH + x < VGA_WIDTH * VGA_HEIGHT
         /\ (r * VGA_WIDTH + (x % SIZE_RANGE)) % SIZE_RANGE
              = IF r * VGA_WIDTH + x >= 0 THEN r * VGA_WIDTH + x
                ELSE r * VGA_WIDTH + x + SIZE_RANGE
         /\ r * VGA_WIDTH + x < 0 =>
              r * VGA_WIDTH + x + SIZE_RANGE >= VGA_WIDTH * VGA_HEIGHT
<1> DEFINE rw == r * VGA_WIDTH
           wh == VGA_WIDTH * VGA_HEIGHT
<1>1. rw \in Nat /\ rw + VGA_WIDTH <= wh
  <2>1. r \in Int /\ r + 1 <= VGA_HEIGHT /\ r + 1 \in Int /\ VGA_HEIGHT \in Int
    BY Sizes
  <2>2. (r + 1) * VGA_WIDTH <= VGA_HEIGHT * VGA_WIDTH
    BY <2>1, Rows
  <2>3. (r + 1) * VGA_WIDTH = rw + VGA_WIDTH /\ rw \in Int
    BY <2>1, NextProduct
  <2>4. VGA_HEIGHT * VGA_WIDTH = wh
    BY Sizes
  <2>5. rw \in Nat
    BY Sizes
  <2> QED BY <2>2, <2>3, <2>4, <2>5
<1>2. /\ VGA_WIDTH \in Nat /\ SIZE_RANGE \in Nat /\ wh \in Nat /\ MaxBytes \in Nat
      /\ MaxBytes + wh < SIZE_RANGE /\ 2 * wh < SIZE_RANGE /\ VGA_WIDTH <= wh
  BY Sizes
<1> HIDE DEF rw, wh
<1>3. x % SIZE_RANGE = IF x < 0 THEN x + SIZE_RANGE ELSE x
  <2>1. 0 - SIZE_RANGE <= x /\ x < SIZE_RANGE /\ x < 2 * SIZE_RANGE
    BY <1>2
  <2> QED BY <2>1, Wrap
<1>4. CASE x >= 0
  <2>1. /\ rw + x \in Int /\ 0 - SIZE_RANGE <= rw + x /\ rw + x < 2 * SIZE_RANGE
        /\ rw + x < SIZE_RANGE /\ rw + x >= 0
    BY <1>1, <1>2, <1>4
  <2>2. (rw + x) % SIZE_RANGE = rw + x
    BY <2>1, Wrap
  <2>3. rw + (x % SIZE_RANGE) = rw + x
    BY <1>3, <1>4
  <2> QED BY <1>1, <1>2, <1>4, <2>1, <2>2, <2>3 DEF rw, wh
<1>5. CASE x < 0
  <2> DEFINE y == rw + (x + SIZE_RANGE)
  <2>1. /\ y \in Int /\ 0 - SIZE_RANGE <= y /\ y < 2 * SIZE_RANGE /\ y >= 0
        /\ y = rw + x + SIZE_RANGE
    BY <1>1, <1>2, <1>5
  <2>2. rw + (x % SIZE_RANGE) = y
    BY <1>3, <1>5
  <2> HIDE DEF y
  <2>3. y % SIZE_RANGE = IF y < SIZE_RANGE THEN y ELSE y - SIZE_RANGE
    BY <2>1, Wrap
  <2> QED BY <1>1, <1>2, <1>5, <2>1, <2>2, <2>3 DEF rw, wh
<1> QED BY <1>4, <1>5

(* A paper n that has one character more than p. *)
Inked(n, p, c) ==
  /\ n.line = p.line /\ n.col = p.col
  /\ n.at = [q \in DOMAIN p.at \cup {Here(p)} |-> IF q = Here(p) THEN c ELSE p.at[q]]
  /\ n.above = (p.above \/ Here(p) < Top(p) * VGA_WIDTH)
  /\ Here(p) \in Int

(* A character on paper. *)
LEMMA InkFields ==
  ASSUME NEW p, PaperOK(p), p.col < VGA_WIDTH, NEW c, NEW n, n = Ink(p, c)
  PROVE  Inked(n, p, c) /\ PaperOK(n)
<1>0. /\ p = [line |-> p.line, col |-> p.col, at |-> p.at, above |-> p.above]
      /\ p.line \in Nat /\ p.col \in Int /\ p.above \in BOOLEAN
  BY DEF PaperOK
<1>1. \A q \in DOMAIN p.at : q \in Int /\ q < (p.line + 1) * VGA_WIDTH
  BY DEF PaperOK
<1> DEFINE at == [q \in DOMAIN p.at \cup {Here(p)} |-> IF q = Here(p) THEN c ELSE p.at[q]]
           above == p.above \/ Here(p) < Top(p) * VGA_WIDTH
<1>2. n = [p EXCEPT !.at = at, !.above = above]
  BY DEF Ink
<1>3. Here(p) \in Int /\ Here(p) < (p.line + 1) * VGA_WIDTH
  <2>1. p.line * VGA_WIDTH \in Int /\ (p.line + 1) * VGA_WIDTH = p.line * VGA_WIDTH + VGA_WIDTH
    BY <1>0, NextProduct
  <2> QED BY <1>0, <2>1, Sizes DEF Here
<1>4. above \in BOOLEAN /\ DOMAIN at = DOMAIN p.at \cup {Here(p)}
      /\ at = [q \in DOMAIN at |-> at[q]]
  OBVIOUS
<1> HIDE DEF at, above
<1>5. /\ n.line = p.line /\ n.col = p.col /\ n.at = at /\ n.above = above
      /\ n = [line |-> n.line, col |-> n.col, at |-> n.at, above |-> n.above]
  BY <1>0, <1>2
<1>6. \A q \in DOMAIN n.at : q \in Int /\ q < (n.line + 1) * VGA_WIDTH
  BY <1>1, <1>3, <1>4, <1>5
<1>7. PaperOK(n)
  BY <1>0, <1>4, <1>5, <1>6 DEF PaperOK
<1> QED BY <1>3, <1>5, <1>7 DEF Inked, at, above

(* The index terminal_putentryat computes from the position. *)
IndexAt(u) == (u.row * VGA_WIDTH + u.col) % SIZE_RANGE

(* A terminal v that is u with a character put at its position. *)
Entered(v, u, c) ==
  /\ v.row = u.row /\ v.col = u.col
  /\ IndexAt(u) \in Cells => v.cell = [u.cell EXCEPT ![IndexAt(u)] = c] /\ v.stray = u.stray
  /\ IndexAt(u) \notin Cells => v.cell = u.cell /\ v.stray = TRUE

(* terminal_putentryat writes one cell, or outside of the screen. *)
LEMMA EntryFields ==
  ASSUME NEW u, TermOK(u), NEW c,
         NEW v, v = terminal_putentryat(u, c, u.col, u.row)
  PROVE  Entered(v, u, c) /\ TermOK(v)
<1> DEFINE index == IndexAt(u)
<1>0. /\ u = [row |-> u.row, col |-> u.col, cell |-> u.cell, cursor |-> u.cursor,
              stray |-> u.stray]
      /\ u.row \in Nat /\ u.col \in Nat /\ u.col < SIZE_RANGE
      /\ u.cell = [k \in Cells |-> u.cell[k]] /\ u.stray \in BOOLEAN
  BY DEF TermOK
<1>1. v = IF index \in Cells THEN [u EXCEPT !.cell = [u.cell EXCEPT ![index] = c]]
          ELSE [u EXCEPT !.stray = TRUE]
  BY DEF terminal_putentryat, IndexAt
<1> HIDE DEF index
<1>2. CASE index \in Cells
  <2> DEFINE cell == [u.cell EXCEPT ![index] = c]
  <2>1. cell = [k \in Cells |-> cell[k]]
    BY <1>0
  <2>2. v = [u EXCEPT !.cell = cell]
    BY <1>1, <1>2
  <2> HIDE DEF cell
  <2>3. /\ v.row = u.row /\ v.col = u.col /\ v.cell = cell /\ v.stray = u.stray
        /\ v = [row |-> v.row, col |-> v.col, cell |-> v.cell, cursor |-> v.cursor,
                stray |-> v.stray]
    BY <1>0, <2>2
  <2>4. TermOK(v)
    BY <1>0, <2>1, <2>3 DEF TermOK
  <2> QED BY <1>2, <2>3, <2>4 DEF Entered, cell, index
<1>3. CASE index \notin Cells
  <2>2. v = [u EXCEPT !.stray = TRUE]
    BY <1>1, <1>3
  <2>3. /\ v.row = u.row /\ v.col = u.col /\ v.cell = u.cell /\ v.stray = TRUE
        /\ v = [row |-> v.row, col |-> v.col, cell |-> v.cell, cursor |-> v.cursor,
                stray |-> v.stray]
    BY <1>0, <2>2
  <2>4. TermOK(v)
    BY <1>0, <2>3 DEF TermOK
  <2> QED BY <1>3, <2>3, <2>4 DEF Entered, index
<1> QED BY <1>2, <1>3

(* Screen and paper agree, with the column at most so far to the left. *)
Match(u, p, low) ==
  /\ TermOK(u) /\ PaperOK(p) /\ Shows(u, p) /\ u.col = p.col % SIZE_RANGE
  /\ low \in Int /\ 0 - MaxBytes <= low /\ low <= 0
  /\ low <= p.col /\ p.col <= VGA_WIDTH

(* A character goes to the same place on the screen and on paper, or is out of
   sight on both. *)
LEMMA InkShows ==
  ASSUME NEW u, NEW p, NEW low, Match(u, p, low), p.col < VGA_WIDTH, NEW c,
         NEW v, v = terminal_putentryat(u, c, u.col, u.row), NEW n, n = Ink(p, c)
  PROVE  Shows(v, n)
<1>0. TermOK(u) /\ PaperOK(p) /\ Shows(u, p)
  BY DEF Match
<1>1. /\ n.line = p.line /\ n.above = (p.above \/ Here(p) < Top(p) * VGA_WIDTH)
      /\ Here(p) \in Int
      /\ n.at = [q \in DOMAIN p.at \cup {Here(p)} |-> IF q = Here(p) THEN c ELSE p.at[q]]
  <2>1. Inked(n, p, c)
    BY <1>0, InkFields
  <2> QED BY <2>1 DEF Inked
<1>2. /\ v.row = u.row
      /\ IndexAt(u) \in Cells => v.cell = [u.cell EXCEPT ![IndexAt(u)] = c]
                               /\ v.stray = u.stray
      /\ IndexAt(u) \notin Cells => v.cell = u.cell /\ v.stray = TRUE
  <2>1. Entered(v, u, c)
    BY <1>0, EntryFields
  <2> QED BY <2>1 DEF Entered
<1> DEFINE top == Top(p)
           tw == Top(p) * VGA_WIDTH
           d == u.row * VGA_WIDTH + p.col
           index == IndexAt(u)
<1>3. /\ top \in Nat /\ u.row = p.line - top /\ u.row \in Nat /\ u.row < VGA_HEIGHT
      /\ p.line \in Nat /\ p.col \in Int
  BY <1>0, TopRange DEF Shows, PaperOK
<1>4. Here(p) = tw + d /\ tw \in Int /\ d \in Int
  <2>1. p.line * VGA_WIDTH = (top + u.row) * VGA_WIDTH
    <3>1. p.line = top + u.row
      BY <1>3
    <3> QED BY <3>1
  <2>2. /\ (top + u.row) * VGA_WIDTH = tw + u.row * VGA_WIDTH
        /\ tw \in Int /\ u.row * VGA_WIDTH \in Int
    BY <1>3, Sizes
  <2> QED BY <1>3, <2>1, <2>2 DEF Here
<1>5. /\ d < VGA_WIDTH * VGA_HEIGHT
      /\ index = IF d >= 0 THEN d ELSE d + SIZE_RANGE
      /\ d < 0 => d + SIZE_RANGE >= VGA_WIDTH * VGA_HEIGHT
  <2>1. u.col = p.col % SIZE_RANGE /\ 0 - MaxBytes <= p.col
    BY <1>3, Sizes DEF Match
  <2>2. index = (u.row * VGA_WIDTH + (p.col % SIZE_RANGE)) % SIZE_RANGE
    BY <2>1 DEF IndexAt
  <2> QED BY <1>3, <2>1, <2>2, IndexOf
<1>6. /\ u.stray = p.above
      /\ \A k \in Cells :
           u.cell[k] = IF tw + k \in DOMAIN p.at THEN p.at[tw + k] ELSE Blank
  BY <1>0 DEF Shows
<1>7. u.cell = [k \in Cells |-> u.cell[k]] /\ u.stray \in BOOLEAN
  BY <1>0 DEF TermOK
<1>8. Top(n) = top
  BY <1>1 DEF Top
<1> HIDE DEF top, tw, d, index
<1>9. \A k \in Cells : k \in Int
  BY Sizes DEF Cells
<1>10. CASE d >= 0
  <2>1. index = d /\ d \in Cells
    BY <1>4, <1>5, <1>10, Sizes DEF Cells
  <2>2. v.stray = u.stray /\ v.cell = [u.cell EXCEPT ![d] = c]
    BY <1>2, <2>1 DEF index
  <2>3. ~(Here(p) < tw)
    BY <1>4, <1>10
  <2>4. v.stray = n.above
    BY <1>1, <1>6, <1>7, <2>2, <2>3 DEF tw
  <2>5. ASSUME NEW k \in Cells
        PROVE  v.cell[k] = IF tw + k \in DOMAIN n.at THEN n.at[tw + k] ELSE Blank
    <3>1. tw + k = Here(p) <=> k = d
      BY <1>4, <1>9
    <3>2. v.cell[k] = IF k = d THEN c ELSE u.cell[k]
      BY <1>7, <2>1, <2>2
    <3>3. CASE k = d
      BY <1>1, <3>1, <3>2, <3>3
    <3>4. CASE k # d
      BY <1>1, <1>6, <3>1, <3>2, <3>4
    <3> QED BY <3>3, <3>4
  <2> QED BY <1>1, <1>2, <1>3, <1>8, <2>4, <2>5 DEF Shows, top, tw
<1>11. CASE d < 0
  <2>1. index \notin Cells
    BY <1>4, <1>5, <1>11, Sizes DEF Cells
  <2>2. v.stray = TRUE /\ v.cell = u.cell
    BY <1>2, <2>1 DEF index
  <2>3. Here(p) < tw
    BY <1>4, <1>11
  <2>4. v.stray = n.above
    BY <1>1, <2>2, <2>3 DEF tw
  <2>5. ASSUME NEW k \in Cells
        PROVE  v.cell[k] = IF tw + k \in DOMAIN n.at THEN n.at[tw + k] ELSE Blank
    <3>1. tw + k # Here(p)
      <4>1. k \in Nat
        BY Sizes DEF Cells
      <4> QED BY <1>4, <1>11, <4>1
    <3> QED BY <1>1, <1>6, <2>2, <3>1
  <2> QED BY <1>1, <1>2, <1>3, <1>8, <2>4, <2>5 DEF Shows, top, tw
<1> QED BY <1>4, <1>10, <1>11

-----------------------------------------------------------------------------
(* Screen and paper through terminal_putchar.                              *)

(* The column on paper and terminal_column move together. *)
LEMMA ColStep ==
  ASSUME NEW x \in Int, 0 - MaxBytes <= x, x <= VGA_WIDTH, NEW d \in {-1, 1}
  PROVE  /\ ((x % SIZE_RANGE) + d) % SIZE_RANGE = (x + d) % SIZE_RANGE
         /\ (x + d) % SIZE_RANGE \in Nat /\ (x + d) % SIZE_RANGE < SIZE_RANGE
         /\ x % SIZE_RANGE = VGA_WIDTH <=> x = VGA_WIDTH
<1>1. /\ VGA_WIDTH \in Nat \ {0} /\ SIZE_RANGE \in Nat \ {0} /\ MaxBytes \in Nat
      /\ MaxBytes + VGA_WIDTH < SIZE_RANGE /\ 2 * VGA_WIDTH < SIZE_RANGE
  BY Sizes
<1>2. x % SIZE_RANGE = IF x < 0 THEN x + SIZE_RANGE ELSE x
  <2>1. 0 - SIZE_RANGE <= x /\ x < SIZE_RANGE /\ x < 2 * SIZE_RANGE
    BY <1>1
  <2> QED BY <2>1, Wrap
<1>3. (x + d) % SIZE_RANGE = IF x + d < 0 THEN x + d + SIZE_RANGE ELSE x + d
  <2>1. /\ x + d \in Int /\ 0 - SIZE_RANGE <= x + d /\ x + d < SIZE_RANGE
        /\ x + d < 2 * SIZE_RANGE
    BY <1>1
  <2> QED BY <2>1, Wrap
<1> DEFINE y == (x % SIZE_RANGE) + d
<1>4. y \in Int /\ 0 - SIZE_RANGE <= y /\ y < 2 * SIZE_RANGE
      /\ y = IF x < 0 THEN x + d + SIZE_RANGE ELSE x + d
  BY <1>1, <1>2
<1> HIDE DEF y
<1>5. y % SIZE_RANGE = IF y < 0 THEN y + SIZE_RANGE
                       ELSE IF y < SIZE_RANGE THEN y ELSE y - SIZE_RANGE
  BY <1>4, Wrap
<1>6. y % SIZE_RANGE = (x + d) % SIZE_RANGE
  BY <1>1, <1>3, <1>4, <1>5
<1>7. (x + d) % SIZE_RANGE \in Nat /\ (x + d) % SIZE_RANGE < SIZE_RANGE
  BY <1>1, <1>3
<1>8. x % SIZE_RANGE = VGA_WIDTH <=> x = VGA_WIDTH
  BY <1>1, <1>2
<1> QED BY <1>6, <1>7, <1>8 DEF y

(* What a terminal shows apart from its column and its cursor. *)
SamePage(v, u) == TermOK(v) /\ v.row = u.row /\ v.cell = u.cell /\ v.stray = u.stray

(* What stands on a paper. *)
SameInk(n, p) == PaperOK(n) /\ n.line = p.line /\ n.at = p.at /\ n.above = p.above

(* Only these count for what is shown. *)
LEMMA ShowsSame ==
  ASSUME NEW u, NEW p, Shows(u, p), NEW v, SamePage(v, u), NEW n, SameInk(n, p)
  PROVE  Shows(v, n)
<1>1. Top(n) = Top(p)
  BY DEF SameInk, Top
<1> QED BY <1>1 DEF Shows, SamePage, SameInk

(* Another column on the screen. *)
LEMMA ColumnFields ==
  ASSUME NEW u, TermOK(u), NEW x \in Nat, x < SIZE_RANGE, NEW v, v = [u EXCEPT !.col = x]
  PROVE  SamePage(v, u) /\ v.col = x
<1>1. u = [row |-> u.row, col |-> u.col, cell |-> u.cell, cursor |-> u.cursor,
           stray |-> u.stray]
  BY DEF TermOK
<1>2. /\ v.row = u.row /\ v.col = x /\ v.cell = u.cell /\ v.stray = u.stray
      /\ v = [row |-> v.row, col |-> v.col, cell |-> v.cell, cursor |-> v.cursor,
              stray |-> v.stray]
  BY <1>1
<1> QED BY <1>2 DEF TermOK, SamePage

(* The cursor shows nothing. *)
LEMMA CursorFields ==
  ASSUME NEW u, TermOK(u), NEW v, v = terminal_drawcursor(u)
  PROVE  SamePage(v, u) /\ v.col = u.col
<1>1. u = [row |-> u.row, col |-> u.col, cell |-> u.cell, cursor |-> u.cursor,
           stray |-> u.stray]
  BY DEF TermOK
<1> PICK k : k = (u.row * VGA_WIDTH + u.col) % SIZE_RANGE
  OBVIOUS
<1>2. v = [u EXCEPT !.cursor = k]
  BY DEF terminal_drawcursor
<1>3. /\ v.row = u.row /\ v.col = u.col /\ v.cell = u.cell /\ v.stray = u.stray
      /\ v = [row |-> v.row, col |-> v.col, cell |-> v.cell, cursor |-> v.cursor,
              stray |-> v.stray]
  BY <1>1, <1>2
<1> QED BY <1>3 DEF TermOK, SamePage

(* Another column on paper. *)
LEMMA PaperFields ==
  ASSUME NEW p, PaperOK(p), NEW x \in Int, NEW n, n = [p EXCEPT !.col = x]
  PROVE  SameInk(n, p) /\ n.col = x
<1>1. p = [line |-> p.line, col |-> p.col, at |-> p.at, above |-> p.above]
  BY DEF PaperOK
<1>2. /\ n.line = p.line /\ n.col = x /\ n.at = p.at /\ n.above = p.above
      /\ n = [line |-> n.line, col |-> n.col, at |-> n.at, above |-> n.above]
  BY <1>1
<1> QED BY <1>2 DEF PaperOK, SameInk

(* Screen and paper still agree when both columns are set alike. *)
LEMMA MatchSame ==
  ASSUME NEW u, NEW p, NEW low, Shows(u, p),
         NEW v, SamePage(v, u), NEW n, SameInk(n, p), v.col = n.col % SIZE_RANGE,
         low \in Int, 0 - MaxBytes <= low, low <= 0, low <= n.col, n.col <= VGA_WIDTH
  PROVE  Match(v, n, low)
<1>1. Shows(v, n)
  BY ShowsSame
<1> QED BY <1>1 DEF Match, SamePage, SameInk

(* What Match says of the columns. *)
LEMMA MatchColumn ==
  ASSUME NEW u, NEW p, NEW low, Match(u, p, low)
  PROVE  /\ low \in Int /\ 0 - MaxBytes <= low /\ low <= 0
         /\ p.col \in Int /\ low <= p.col /\ 0 - MaxBytes <= p.col /\ p.col <= VGA_WIDTH
         /\ u.col \in Nat /\ u.col < SIZE_RANGE /\ u.col = p.col % SIZE_RANGE
         /\ u.col = VGA_WIDTH <=> p.col = VGA_WIDTH
         /\ 0 % SIZE_RANGE = 0
<1>1. /\ low \in Int /\ 0 - MaxBytes <= low /\ low <= 0
      /\ p.col \in Int /\ low <= p.col /\ p.col <= VGA_WIDTH
      /\ u.col \in Nat /\ u.col < SIZE_RANGE /\ u.col = p.col % SIZE_RANGE
  BY DEF Match, PaperOK, TermOK
<1>2. 0 - MaxBytes <= p.col
  BY <1>1, Sizes
<1>3. p.col % SIZE_RANGE = VGA_WIDTH <=> p.col = VGA_WIDTH
  <2>1. 1 \in {-1, 1}
    OBVIOUS
  <2> QED BY <1>1, <1>2, <2>1, ColStep
<1>4. 0 % SIZE_RANGE = 0
  <2>1. 0 \in Int /\ 0 - SIZE_RANGE <= 0 /\ 0 < 2 * SIZE_RANGE /\ 0 < SIZE_RANGE
    BY Sizes
  <2> QED BY <2>1, Wrap
<1> QED BY <1>1, <1>2, <1>3, <1>4

(* The column may be further to the left than it must. *)
LEMMA MatchLow ==
  ASSUME NEW u, NEW p, NEW low, Match(u, p, low),
         NEW less \in Int, 0 - MaxBytes <= less, less <= low
  PROVE  Match(u, p, less)
<1>1. /\ low \in Int /\ 0 - MaxBytes <= low /\ low <= 0
      /\ p.col \in Int /\ low <= p.col /\ p.col <= VGA_WIDTH
  BY MatchColumn
<1>2. less <= 0 /\ less <= p.col
  BY <1>1
<1> QED BY <1>2 DEF Match

(* One column on, or back. *)
LEMMA AdvanceMatch ==
  ASSUME NEW u, NEW p, NEW low, Match(u, p, low), NEW d \in {-1, 1},
         NEW less \in Int, 0 - MaxBytes <= less, less <= 0,
         less <= p.col + d, p.col + d <= VGA_WIDTH
  PROVE  Match(Advance(u, d), Move(p, d), less)
<1>1. /\ p.col \in Int /\ 0 - MaxBytes <= p.col /\ p.col <= VGA_WIDTH
      /\ u.col = p.col % SIZE_RANGE
  BY MatchColumn
<1>2. TermOK(u) /\ PaperOK(p) /\ Shows(u, p)
  BY DEF Match
<1> PICK x : x = (u.col + d) % SIZE_RANGE
  OBVIOUS
<1>3. x \in Nat /\ x < SIZE_RANGE /\ x = (p.col + d) % SIZE_RANGE
  BY <1>1, ColStep
<1> PICK v : v = Advance(u, d)
  OBVIOUS
<1>4. v = [u EXCEPT !.col = x]
  BY DEF Advance
<1>5. SamePage(v, u) /\ v.col = x
  BY <1>2, <1>3, <1>4, ColumnFields
<1> PICK n : n = Move(p, d)
  OBVIOUS
<1>6. n = [p EXCEPT !.col = p.col + d] /\ p.col + d \in Int
  BY <1>1 DEF Move
<1>7. SameInk(n, p) /\ n.col = p.col + d
  BY <1>2, <1>6, PaperFields
<1>8. Match(v, n, less)
  BY <1>2, <1>3, <1>5, <1>7, MatchSame
<1> QED BY <1>8

(* The cursor. *)
LEMMA CursorMatch ==
  ASSUME NEW u, NEW p, NEW low, Match(u, p, low)
  PROVE  Match(terminal_drawcursor(u), p, low)
<1>1. TermOK(u) /\ PaperOK(p) /\ Shows(u, p)
  BY DEF Match
<1> PICK v : v = terminal_drawcursor(u)
  OBVIOUS
<1>2. SamePage(v, u) /\ v.col = u.col
  BY <1>1, CursorFields
<1>3. SameInk(p, p)
  BY <1>1 DEF SameInk
<1>4. /\ v.col = p.col % SIZE_RANGE
      /\ low \in Int /\ 0 - MaxBytes <= low /\ low <= 0 /\ low <= p.col /\ p.col <= VGA_WIDTH
  BY <1>2, MatchColumn
<1>5. Match(v, p, low)
  BY <1>1, <1>2, <1>3, <1>4, MatchSame
<1> QED BY <1>5

(* The second half of terminal_newline: from column 0 down. *)
LEMMA DownMatch ==
  ASSUME NEW u, TermOK(u), u.col = 0, NEW p, PaperOK(p), Shows(u, p),
         NEW low \in Int, 0 - MaxBytes <= low, low <= 0
  PROVE  Match(NextRow(u, u.row, u.row), NewLine(p), low)
<1> PICK v : v = NextRow(u, u.row, u.row)
  OBVIOUS
<1> PICK n : n = NewLine(p)
  OBVIOUS
<1>1. Shows(v, n) /\ TermOK(v) /\ v.col = 0
  BY RowShows
<1>2. PaperOK(n) /\ n.col = 0
  BY NewLineFields
<1>3. 0 % SIZE_RANGE = 0 /\ 0 <= VGA_WIDTH
  <2>1. 0 \in Int /\ 0 - SIZE_RANGE <= 0 /\ 0 < 2 * SIZE_RANGE /\ 0 < SIZE_RANGE
    BY Sizes
  <2> QED BY <2>1, Wrap, Sizes
<1>4. Match(v, n, low)
  BY <1>1, <1>2, <1>3 DEF Match
<1> QED BY <1>4

(* terminal_newline as a whole. *)
LEMMA NewlineMatch ==
  ASSUME NEW u, NEW p, NEW low, Match(u, p, low)
  PROVE  Match(terminal_newline(u), NewLine(p), low)
<1>1. TermOK(u) /\ PaperOK(p) /\ Shows(u, p)
  BY DEF Match
<1>2. low \in Int /\ 0 - MaxBytes <= low /\ low <= 0
  BY MatchColumn
<1> PICK v : v = [u EXCEPT !.col = 0]
  OBVIOUS
<1>3. 0 \in Nat /\ 0 < SIZE_RANGE
  BY Sizes
<1>4. SamePage(v, u) /\ v.col = 0
  BY <1>1, <1>3, ColumnFields
<1>5. SameInk(p, p)
  BY <1>1 DEF SameInk
<1>6. Shows(v, p) /\ TermOK(v) /\ v.row = u.row
  <2>1. Shows(v, p)
    BY <1>1, <1>4, <1>5, ShowsSame
  <2> QED BY <2>1, <1>4 DEF SamePage
<1>7. Match(NextRow(v, v.row, v.row), NewLine(p), low)
  BY <1>1, <1>2, <1>4, <1>6, DownMatch
<1>8. terminal_newline(u) = NextRow(v, v.row, v.row)
  BY <1>6 DEF terminal_newline
<1> QED BY <1>7, <1>8

(* A full row. *)
LEMMA WrapMatch ==
  ASSUME NEW u, NEW p, NEW low, Match(u, p, low)
  PROVE  /\ Match(IF u.col = VGA_WIDTH THEN terminal_newline(u) ELSE u, Wrapped(p), low)
         /\ Wrapped(p).col < VGA_WIDTH
<1>1. /\ u.col = VGA_WIDTH <=> p.col = VGA_WIDTH
      /\ p.col \in Int /\ p.col <= VGA_WIDTH
  BY MatchColumn
<1>2. CASE p.col = VGA_WIDTH
  <2>1. Match(terminal_newline(u), NewLine(p), low)
    BY NewlineMatch
  <2>2. NewLine(p).col = 0
    BY NewLineFields DEF Match
  <2> QED BY <1>1, <1>2, <2>1, <2>2, Sizes DEF Wrapped
<1>3. CASE p.col # VGA_WIDTH
  <2>1. p.col < VGA_WIDTH
    BY <1>1, <1>3, Sizes
  <2> QED BY <1>1, <1>3, <2>1 DEF Wrapped
<1> QED BY <1>2, <1>3

(* A character at the position. *)
LEMMA EntryMatch ==
  ASSUME NEW u, NEW p, NEW low, Match(u, p, low), p.col < VGA_WIDTH, NEW c
  PROVE  /\ Match(terminal_putentryat(u, c, u.col, u.row), Ink(p, c), low)
         /\ terminal_putentryat(u, c, u.col, u.row).col = u.col
         /\ Ink(p, c).col = p.col
<1>1. TermOK(u) /\ PaperOK(p)
  BY DEF Match
<1> PICK v : v = terminal_putentryat(u, c, u.col, u.row)
  OBVIOUS
<1> PICK n : n = Ink(p, c)
  OBVIOUS
<1>2. Shows(v, n)
  BY InkShows
<1>3. Entered(v, u, c) /\ TermOK(v)
  BY <1>1, EntryFields
<1>4. Inked(n, p, c) /\ PaperOK(n)
  BY <1>1, InkFields
<1>5. v.col = u.col /\ n.col = p.col
  BY <1>3, <1>4 DEF Entered, Inked
<1>6. Match(v, n, low)
  BY <1>2, <1>3, <1>4, <1>5 DEF Match
<1> QED BY <1>5, <1>6

(* A character that shows. *)
LEMMA VisibleMatch ==
  ASSUME NEW u, NEW p, NEW low, Match(u, p, low), NEW c
  PROVE  Match(PutVisible(u, c), Move(Ink(Wrapped(p), c), 1), low)
<1> PICK w : w = IF u.col = VGA_WIDTH THEN terminal_newline(u) ELSE u
  OBVIOUS
<1> PICK q : q = Wrapped(p)
  OBVIOUS
<1>1. Match(w, q, low) /\ q.col < VGA_WIDTH
  BY WrapMatch
<1> PICK v : v = terminal_putentryat(w, c, w.col, w.row)
  OBVIOUS
<1> PICK n : n = Ink(q, c)
  OBVIOUS
<1>2. Match(v, n, low) /\ n.col = q.col
  BY <1>1, EntryMatch
<1>3. /\ low \in Int /\ 0 - MaxBytes <= low /\ low <= 0
      /\ n.col \in Int /\ low <= n.col
  BY <1>2, MatchColumn
<1>4. 1 \in {-1, 1} /\ low <= n.col + 1 /\ n.col + 1 <= VGA_WIDTH
  BY <1>1, <1>2, <1>3, Sizes
<1>5. Match(Advance(v, 1), Move(n, 1), low)
  BY <1>2, <1>3, <1>4, AdvanceMatch
<1>6. Match(terminal_drawcursor(Advance(v, 1)), Move(n, 1), low)
  BY <1>5, CursorMatch
<1>7. PutVisible(u, c) = terminal_drawcursor(Advance(v, 1))
  BY DEF PutVisible
<1> QED BY <1>6, <1>7

(* A backspace. *)
LEMMA BackMatch ==
  ASSUME NEW u, NEW p, NEW low, Match(u, p, low), 0 - MaxBytes <= low - 1
  PROVE  Match(terminal_putchar(u, "BS"), Typed(p, "BS"), low - 1)
<1>1. /\ low \in Int /\ low <= 0 /\ p.col \in Int /\ low <= p.col /\ p.col <= VGA_WIDTH
      /\ PaperOK(p)
  BY MatchColumn DEF Match
<1> PICK less : less = low - 1
  OBVIOUS
<1>2. /\ less \in Int /\ 0 - MaxBytes <= less /\ less <= 0 /\ -1 \in {-1, 1} /\ 1 \in {-1, 1}
      /\ less <= p.col + (-1) /\ p.col + (-1) <= VGA_WIDTH
  BY <1>1, Sizes
<1> PICK w : w = Advance(u, -1)
  OBVIOUS
<1> PICK q : q = Move(p, -1)
  OBVIOUS
<1>3. Match(w, q, less)
  BY <1>2, AdvanceMatch
<1>4. q.col = p.col + (-1)
  <2>1. q = [p EXCEPT !.col = p.col + (-1)] /\ p.col + (-1) \in Int
    BY <1>1 DEF Move
  <2> QED BY <1>1, <2>1, PaperFields
<1>5. q.col < VGA_WIDTH /\ Wrapped(q) = q
  BY <1>1, <1>4, Sizes DEF Wrapped
<1> PICK n : n = Ink(q, Blank)
  OBVIOUS
<1> PICK m : m = Move(n, 1)
  OBVIOUS
<1> PICK x : x = PutVisible(w, Blank)
  OBVIOUS
<1>6. Match(x, m, less)
  BY <1>3, <1>5, VisibleMatch
<1>7. PaperOK(n) /\ n.col = q.col /\ n.col \in Int /\ less <= n.col /\ n.col < VGA_WIDTH
  <2>1. PaperOK(q)
    BY <1>3 DEF Match
  <2>2. Inked(n, q, Blank) /\ PaperOK(n)
    BY <1>5, <2>1, InkFields
  <2>3. q.col \in Int /\ less <= q.col
    BY <1>3, MatchColumn
  <2> QED BY <1>5, <2>2, <2>3 DEF Inked
<1>8. SameInk(m, n) /\ m.col = n.col + 1
  <2>1. m = [n EXCEPT !.col = n.col + 1] /\ n.col + 1 \in Int
    BY <1>7 DEF Move
  <2> QED BY <1>7, <2>1, PaperFields
<1> PICK y : y = Advance(x, -1)
  OBVIOUS
<1>9. Match(y, Move(m, -1), less) /\ PaperOK(m)
  <2>1. less <= m.col + (-1) /\ m.col + (-1) <= VGA_WIDTH
    BY <1>7, <1>8, Sizes
  <2> QED BY <1>2, <1>6, <1>8, <2>1, AdvanceMatch DEF SameInk
<1> PICK r : r = Move(m, -1)
  OBVIOUS
<1>10. SameInk(r, m) /\ r.col = n.col
  <2>1. /\ r = [m EXCEPT !.col = m.col + (-1)] /\ m.col + (-1) \in Int
        /\ m.col + (-1) = n.col
    BY <1>7, <1>8 DEF Move
  <2> QED BY <1>9, <2>1, PaperFields
<1>11. Match(y, n, less)
  <2>1. SameInk(n, r)
    BY <1>7, <1>8, <1>10 DEF SameInk
  <2>2. Shows(y, r) /\ SamePage(y, y) /\ y.col = r.col % SIZE_RANGE
    BY <1>9 DEF Match, SamePage
  <2>3. less <= n.col /\ n.col <= VGA_WIDTH /\ y.col = n.col % SIZE_RANGE
    BY <1>7, <1>10, <2>2, Sizes
  <2> QED BY <1>2, <2>1, <2>2, <2>3, MatchSame
<1>12. Match(terminal_drawcursor(y), n, less)
  BY <1>11, CursorMatch
<1>13. terminal_putchar(u, "BS") = terminal_drawcursor(y) /\ Typed(p, "BS") = n
  BY DEF terminal_putchar, Typed
<1> QED BY <1>12, <1>13

(* Every character: screen and paper agree after terminal_putchar if they did
   before, a backspace allowed to go one column further to the left. *)
LEMMA CharMatch ==
  ASSUME NEW u, NEW p, NEW low, Match(u, p, low), NEW c,
         c = "BS" => 0 - MaxBytes <= low - 1
  PROVE  Match(terminal_putchar(u, c), Typed(p, c), IF c = "BS" THEN low - 1 ELSE low)
<1>1. CASE c = "NL"
  <2>1. terminal_putchar(u, c) = terminal_newline(u) /\ Typed(p, c) = NewLine(p)
    BY <1>1 DEF terminal_putchar, Typed
  <2> QED BY <1>1, <2>1, NewlineMatch
<1>2. CASE c = "CR"
  <2>1. TermOK(u) /\ PaperOK(p) /\ Shows(u, p)
    BY DEF Match
  <2>2. /\ low \in Int /\ 0 - MaxBytes <= low /\ low <= 0 /\ 0 % SIZE_RANGE = 0
        /\ 0 \in Nat /\ 0 \in Int /\ 0 < SIZE_RANGE /\ 0 <= VGA_WIDTH
    BY MatchColumn, Sizes
  <2> PICK v : v = [u EXCEPT !.col = 0]
    OBVIOUS
  <2> PICK n : n = [p EXCEPT !.col = 0]
    OBVIOUS
  <2>3. SamePage(v, u) /\ v.col = 0
    BY <2>1, <2>2, ColumnFields
  <2>4. SameInk(n, p) /\ n.col = 0
    BY <2>1, <2>2, PaperFields
  <2>5. Match(v, n, low)
    BY <2>1, <2>2, <2>3, <2>4, MatchSame
  <2>6. terminal_putchar(u, c) = v /\ Typed(p, c) = n
    BY <1>2 DEF terminal_putchar, Typed
  <2> QED BY <1>2, <2>5, <2>6
<1>3. CASE c = "BS"
  BY <1>3, BackMatch
<1>4. CASE c \notin {"NL", "CR", "BS"}
  <2>1. /\ terminal_putchar(u, c) = PutVisible(u, c)
        /\ Typed(p, c) = Move(Ink(Wrapped(p), c), 1)
    BY <1>4 DEF terminal_putchar, Typed
  <2> QED BY <1>4, <2>1, VisibleMatch
<1> QED BY <1>1, <1>2, <1>3, <1>4

-----------------------------------------------------------------------------
(* The text and the place in it.                                           *)

Places == {"next", "column", "row", "put", "advance", "done"}

MainOK ==
  /\ source \in Calls \cup {BannerCall} /\ text = Printed(source)
  /\ main = [at |-> main.at, done |-> main.done, row |-> main.row, col |-> main.col]
  /\ main.at \in Places /\ main.done \in Nat
  /\ main.at # "done" => main.done < Len(text)
  /\ main.at \in {"put", "advance"} => Char # "NL"
  /\ raced \in BOOLEAN /\ bytes \in 0..MaxBytes

(* What ConsoleAssumption says of the text. *)
LEMMA TextOK ==
  ASSUME MainOK
  PROVE  /\ Len(text) \in Nat \ {0}
         /\ main.at # "done" => Char \notin {"CR", "BS"}
         /\ main.at # "done" /\ source.call = Banner /\ main.done + 1 = Len(text) => Char = "NL"
<1>1. /\ Len(text) \in Nat \ {0}
      /\ \A k \in 1..Len(text) : text[k] \notin {"CR", "BS"}
      /\ source.call = Banner => text[Len(text)] = "NL"
  BY ConsoleAssumption DEF MainOK
<1>2. main.at # "done" => main.done + 1 \in 1..Len(text)
  <2>1. main.done \in Nat /\ (main.at # "done" => main.done < Len(text))
    BY DEF MainOK
  <2> QED BY <1>1, <2>1
<1> QED BY <1>1, <1>2 DEF Char

(* A step of kernel_main that stays in its character. *)
LEMMA StayOK ==
  ASSUME MainOK, UNCHANGED mainVars, main.at # "done",
         NEW at \in Places \ {"done"}, NEW row, NEW col, at \in {"put", "advance"} => Char # "NL",
         main' = [at |-> at, done |-> main.done, row |-> row, col |-> col]
  PROVE  MainOK' /\ Char' = Char
<1>1. /\ source' = source /\ text' = text /\ raced' = raced /\ bytes' = bytes
      /\ main'.at = at /\ main'.done = main.done /\ main'.row = row /\ main'.col = col
  BY DEF mainVars
<1>2. Char' = Char
  BY <1>1 DEF Char
<1>3. /\ (source \in Calls \cup {BannerCall})'
      /\ (text = Printed(source))' /\ (raced \in BOOLEAN)' /\ (bytes \in 0..MaxBytes)'
  BY <1>1 DEF MainOK
<1>4. /\ main'.done \in Nat /\ main'.done < Len(text')
      /\ main'.at \in Places
      /\ main' = [at |-> main'.at, done |-> main'.done, row |-> main'.row, col |-> main'.col]
  BY <1>1 DEF MainOK
<1> QED BY <1>1, <1>2, <1>3, <1>4 DEF MainOK

(* A step of kernel_main to its next character. *)
LEMMA DoneOK ==
  ASSUME MainOK, UNCHANGED mainVars, main.at # "done", NEW u, CharDone(u)
  PROVE  MainOK' /\ main'.at \in {"next", "done"}
<1>1. /\ source' = source /\ text' = text /\ raced' = raced /\ bytes' = bytes
  BY DEF mainVars
<1>2. /\ main = [at |-> main.at, done |-> main.done, row |-> main.row, col |-> main.col]
      /\ main.done \in Nat /\ main.done < Len(text) /\ Len(text) \in Nat
  BY TextOK DEF MainOK
<1> PICK at : at = IF main.done + 1 = Len(text) THEN "done" ELSE "next"
  OBVIOUS
<1>3. main' = [main EXCEPT !.at = at, !.done = main.done + 1]
  BY DEF CharDone
<1>4. /\ main'.at = at /\ main'.done = main.done + 1
      /\ main' = [at |-> main'.at, done |-> main'.done, row |-> main'.row, col |-> main'.col]
  BY <1>2, <1>3
<1>5. /\ (source \in Calls \cup {BannerCall})'
      /\ (text = Printed(source))' /\ (raced \in BOOLEAN)' /\ (bytes \in 0..MaxBytes)'
  BY <1>1 DEF MainOK
<1>6. /\ main'.at \in {"next", "done"} /\ main'.at \in Places
      /\ main'.done \in Nat /\ (main'.at # "done" => main'.done < Len(text'))
  <2>1. main.done + 1 \in Nat /\ (at # "done" => main.done + 1 < Len(text))
    BY <1>2
  <2>2. at \in {"next", "done"} /\ at \in Places
    BY DEF Places
  <2> QED BY <1>1, <1>4, <2>1, <2>2
<1> QED BY <1>4, <1>5, <1>6 DEF MainOK

(* A byte of the keyboard. *)
LEMMA ByteOK ==
  ASSUME MainOK, Byte
  PROVE  /\ MainOK' /\ Char' = Char /\ main' = main /\ source' = source
         /\ bytes \in Nat /\ bytes' = bytes - 1 /\ bytes' \in Nat /\ bytes <= MaxBytes
<1>1. /\ source' = source /\ text' = text /\ main' = main /\ bytes > 0 /\ bytes' = bytes - 1
      /\ bytes \in 0..MaxBytes /\ MaxBytes \in Nat
  BY Sizes DEF Byte, MainOK
<1>2. raced' \in BOOLEAN
  <2>1. CASE UNCHANGED raced
    BY <2>1 DEF MainOK
  <2>2. CASE raced' = (raced \/ Inside)
    BY <2>2
  <2> QED BY <2>1, <2>2 DEF Byte, Key, Echo, Silent
<1>3. /\ bytes \in Nat /\ bytes' \in Nat /\ bytes <= MaxBytes /\ bytes' \in 0..MaxBytes
  BY <1>1
<1>4. Char' = Char
  BY <1>1 DEF Char
<1> QED BY <1>1, <1>2, <1>3, <1>4 DEF MainOK

-----------------------------------------------------------------------------
(* What keyboard_handler still prints.                                     *)

EchoChar == STRING \cup {NUL}
NoMove(s) == \A k \in 1..Len(s) : s[k] \notin {"CR", "BS"}

EchoOK ==
  /\ echo \in Seq(EchoChar) /\ NoMove(echo)
  /\ OneCharInside /\ Inside => echo = <<>>

(* A key prints s. *)
KeyEcho(s) ==
  /\ Echo(s) /\ s \in Seq(EchoChar) \ {<<>>}
  /\ \A k \in 2..Len(s) : s[k] \notin {"CR", "BS"}
  /\ Inside => s \in EchoesInside \cup {<<NUL>>}

(* What a byte does to the screen and to the paper. *)
LEMMA ByteCases ==
  ASSUME Byte
  PROVE  Silent \/ \E s : KeyEcho(s)
<1>1. CASE Silent
  BY <1>1
<1>2. ASSUME Echo(<<NUL>>)  PROVE \E s : KeyEcho(s)
  <2>1. NUL \in EchoChar
    BY DEF EchoChar
  <2>2. <<NUL>> \in Seq(EchoChar)
    BY <2>1
  <2>3. Len(<<NUL>>) = 1
    OBVIOUS
  <2>4. <<NUL>> # <<>>
    BY <2>3
  <2>5. KeyEcho(<<NUL>>)
    BY <1>2, <2>2, <2>3, <2>4 DEF KeyEcho
  <2> QED BY <2>5
<1>3. ASSUME NEW s \in (IF Inside THEN EchoesInside ELSE Echoes), Echo(s)
      PROVE  \E u : KeyEcho(u)
  <2>1. /\ s \in Echoes \cup EchoesInside
        /\ Inside => s \in EchoesInside \cup {<<NUL>>}
    BY <1>3
  <2>2. /\ s \in Seq(STRING) \ {<<>>}
        /\ \A k \in 2..Len(s) : s[k] \notin {"CR", "BS"}
    BY <2>1, ConsoleAssumption
  <2>3. \A x \in Seq(STRING) : x \in Seq(EchoChar)
    BY DEF EchoChar
  <2>4. KeyEcho(s)
    BY <1>3, <2>1, <2>2, <2>3 DEF KeyEcho
  <2> QED BY <2>4
<1> QED BY <1>1, <1>2, <1>3 DEF Byte, Key

(* The characters after the first one. *)
LEMMA EchoTail ==
  ASSUME NEW s \in Seq(EchoChar) \ {<<>>}
  PROVE  /\ Tail(s) \in Seq(EchoChar) /\ Len(Tail(s)) = Len(s) - 1 /\ Len(s) \in Nat \ {0}
         /\ \A k \in 1..Len(Tail(s)) : Tail(s)[k] = s[k + 1]
         /\ Head(s) = s[1]
<1>1. Len(s) \in Nat \ {0} /\ Tail(s) \in Seq(EchoChar) /\ Len(Tail(s)) = Len(s) - 1
  OBVIOUS
<1> QED BY <1>1

(* A step of the console. *)
LEMMA EchoStep ==
  ASSUME EchoOK, [ConsoleNext]_consoleVars
  PROVE  EchoOK'
<1>1. CASE Main
  <2>1. echo = <<>> /\ echo' = echo
    BY <1>1 DEF Main, Test, NewlineColumn, NewlineRow, Put, AdvanceColumn, mainVars
  <2> QED BY <2>1 DEF EchoOK, NoMove
<1>2. ASSUME echo' = echo, main' = main
      PROVE  EchoOK'
  <2>1. Inside' <=> Inside
    BY <1>2 DEF Inside
  <2>2. NoMove(echo')
    BY <1>2 DEF EchoOK
  <2> QED BY <1>2, <2>1, <2>2 DEF EchoOK, OneCharInside
<1>3. ASSUME NEW s \in Seq(EchoChar) \ {<<>>}, echo' = Tail(s), main' = main,
             \A k \in 2..Len(s) : s[k] \notin {"CR", "BS"},
             OneCharInside /\ Inside => Len(s) = 1
      PROVE  EchoOK'
  <2>1. /\ echo' \in Seq(EchoChar) /\ Len(echo') = Len(s) - 1 /\ Len(s) \in Nat \ {0}
        /\ \A k \in 1..Len(echo') : echo'[k] = s[k + 1]
    BY <1>3, EchoTail
  <2>2. NoMove(echo')
    <3>1. ASSUME NEW k \in 1..Len(echo')  PROVE echo'[k] \notin {"CR", "BS"}
      <4>1. k + 1 \in 2..Len(s)
        BY <2>1, <3>1
      <4> QED BY <1>3, <2>1, <4>1
    <3> QED BY <3>1 DEF NoMove
  <2>3. OneCharInside /\ Inside => echo' = <<>>
    BY <1>3, <2>1
  <2>4. Inside' <=> Inside
    BY <1>3 DEF Inside
  <2> QED BY <2>1, <2>2, <2>3, <2>4 DEF EchoOK, OneCharInside
<1>4. CASE Byte
  <2>1. main' = main
    BY <1>4 DEF Byte
  <2>2. CASE Silent
    BY <1>2, <2>1, <2>2 DEF Silent
  <2>3. ASSUME NEW s, KeyEcho(s)  PROVE EchoOK'
    <3>1. /\ s \in Seq(EchoChar) \ {<<>>} /\ echo' = Tail(s)
          /\ \A k \in 2..Len(s) : s[k] \notin {"CR", "BS"}
          /\ Inside => s \in EchoesInside \cup {<<NUL>>}
      BY <2>3 DEF KeyEcho, Echo
    <3>2. OneCharInside /\ Inside => Len(s) = 1
      BY <3>1 DEF OneCharInside
    <3> QED BY <1>3, <2>1, <3>1, <3>2
  <2> QED BY <1>4, <2>2, <2>3, ByteCases
<1>5. CASE EchoNext
  <2>1. echo \in Seq(EchoChar) \ {<<>>} /\ echo' = Tail(echo) /\ main' = main
    BY <1>5 DEF EchoNext, Echo, EchoOK
  <2>2. \A k \in 2..Len(echo) : echo[k] \notin {"CR", "BS"}
    <3>1. Len(echo) \in Nat /\ \A k \in 2..Len(echo) : k \in 1..Len(echo)
      BY <2>1
    <3> QED BY <3>1 DEF EchoOK, NoMove
  <2>3. ~(OneCharInside /\ Inside)
    BY <2>1 DEF EchoOK
  <2> QED BY <1>3, <2>1, <2>2, <2>3
<1>6. CASE MainLoop \/ UNCHANGED consoleVars
  BY <1>2, <1>6 DEF MainLoop, consoleVars
<1> QED BY <1>1, <1>4, <1>5, <1>6 DEF ConsoleNext

(* Init. *)
LEMMA EchoInit ==
  ASSUME ConsoleInit
  PROVE  EchoOK
<1>1. echo = <<>> /\ echo \in Seq(EchoChar) /\ Len(echo) = 0
  BY DEF ConsoleInit
<1> QED BY <1>1 DEF EchoOK, NoMove

(* One more character of a line leaves the text of kernel_main where it is. *)
LEMMA EchoNextOK ==
  ASSUME MainOK, EchoOK, EchoNext
  PROVE  /\ MainOK' /\ Char' = Char /\ main' = main /\ source' = source /\ bytes' = bytes
         /\ Head(echo) \notin {"CR", "BS"}
<1>1. /\ source' = source /\ text' = text /\ main' = main /\ bytes' = bytes
      /\ raced' = (raced \/ Inside) /\ echo \in Seq(EchoChar) \ {<<>>}
  BY DEF EchoNext, Echo, EchoOK
<1>2. raced' \in BOOLEAN /\ Char' = Char
  BY <1>1 DEF Char
<1>3. MainOK'
  BY <1>1, <1>2 DEF MainOK
<1>4. Head(echo) = echo[1] /\ 1 \in 1..Len(echo)
  BY <1>1, EchoTail
<1>5. Head(echo) \notin {"CR", "BS"}
  BY <1>4 DEF EchoOK, NoMove
<1> QED BY <1>1, <1>2, <1>3, <1>5

-----------------------------------------------------------------------------
(* As long as no key came inside a terminal_putchar, screen and paper agree, and
   inside one so far as it has got. *)

AtChar == Match(t, paper, bytes - MaxBytes)

AtColumn == AtChar /\ (Char = "NL" \/ paper.col = VGA_WIDTH)

AtRow ==
  /\ TermOK(t) /\ PaperOK(paper) /\ Shows(t, paper)
  /\ t.col = 0 /\ main.col = t.col /\ main.row = t.row
  /\ Char = "NL" \/ paper.col = VGA_WIDTH

AtPut ==
  /\ Match(t, Wrapped(paper), bytes - MaxBytes) /\ Wrapped(paper).col < VGA_WIDTH
  /\ main.col = t.col

AtAdvance ==
  /\ Match(t, Ink(Wrapped(paper), Char), bytes - MaxBytes)
  /\ Ink(Wrapped(paper), Char).col < VGA_WIDTH
  /\ main.col = t.col

Sync ==
  ~raced =>
    /\ main.at \in {"next", "done"} => AtChar
    /\ main.at = "column" => AtColumn
    /\ main.at = "row" => AtRow
    /\ main.at = "put" => AtPut
    /\ main.at = "advance" => AtAdvance

ScreenInv == MainOK /\ Sync

(* Init. *)
LEMMA ScreenInit ==
  ASSUME ConsoleInit
  PROVE  ScreenInv
<1>1. /\ t = terminal_initialize /\ paper = Blanks /\ raced = FALSE /\ text = Printed(source)
      /\ main = [at |-> "next", done |-> 0, row |-> 0, col |-> 0]
      /\ source \in Calls \cup {BannerCall} /\ bytes \in {0, MaxBytes}
  BY DEF ConsoleInit
<1>2. /\ main.at = "next" /\ main.done = 0 /\ main.row = 0 /\ main.col = 0
  BY <1>1
<1>3. MainOK
  <2>1. Len(text) \in Nat \ {0}
    BY <1>1, ConsoleAssumption
  <2>2. 0 < Len(text) /\ 0 \in Nat /\ bytes \in 0..MaxBytes
    BY <1>1, <2>1, Sizes
  <2> QED BY <1>1, <1>2, <2>2 DEF MainOK, Places
<1>4. TermOK(t) /\ t.col = 0 /\ t.row = 0 /\ t.stray = FALSE /\ t.cell = [k \in Cells |-> Blank]
  BY <1>1, Sizes DEF terminal_initialize, TermOK
<1>5. /\ paper.line = 0 /\ paper.col = 0 /\ paper.above = FALSE /\ paper.at = [q \in {} |-> Blank]
      /\ PaperOK(paper)
  BY <1>1 DEF Blanks, PaperOK
<1>6. Shows(t, paper)
  <2>1. Top(paper) = 0
    BY <1>5, Sizes DEF Top
  <2>2. DOMAIN paper.at = {}
    BY <1>5
  <2>3. t.row = paper.line - Top(paper)
    BY <1>4, <1>5, <2>1
  <2> QED BY <1>4, <1>5, <2>2, <2>3 DEF Shows
<1>7. /\ 0 % SIZE_RANGE = 0 /\ bytes - MaxBytes \in Int /\ 0 - MaxBytes <= bytes - MaxBytes
      /\ bytes - MaxBytes <= 0 /\ 0 <= VGA_WIDTH
  <2>1. 0 \in Int /\ 0 - SIZE_RANGE <= 0 /\ 0 < 2 * SIZE_RANGE /\ 0 < SIZE_RANGE
    BY Sizes
  <2>2. 0 % SIZE_RANGE = 0
    BY <2>1, Wrap
  <2> QED BY <1>1, <2>2, Sizes
<1>8. AtChar
  BY <1>4, <1>5, <1>6, <1>7 DEF AtChar, Match
<1> QED BY <1>2, <1>3, <1>8 DEF ScreenInv, Sync

(* The column is read. *)
LEMMA TestSync ==
  ASSUME ScreenInv, Test
  PROVE  ScreenInv'
<1> PICK at : at = IF Char = "NL" \/ t.col = VGA_WIDTH THEN "column" ELSE "put"
  OBVIOUS
<1>1. /\ main.at = "next" /\ UNCHANGED mainVars /\ t' = t /\ paper' = paper
      /\ main' = [main EXCEPT !.at = at, !.col = t.col]
  BY DEF Test
<1>2. main' = [at |-> at, done |-> main.done, row |-> main.row, col |-> t.col]
  <2>1. main = [at |-> main.at, done |-> main.done, row |-> main.row, col |-> main.col]
    BY DEF ScreenInv, MainOK
  <2> QED BY <1>1, <2>1
<1>3. /\ at \in {"column", "put"} /\ at \in Places \ {"done"} /\ main.at # "done"
      /\ at \in {"put", "advance"} => Char # "NL"
  BY <1>1 DEF Places
<1>4. MainOK' /\ Char' = Char
  BY <1>1, <1>2, <1>3, StayOK DEF ScreenInv
<1>5. /\ raced' = raced /\ bytes' = bytes /\ main'.at = at /\ main'.col = t.col
  BY <1>1, <1>2 DEF mainVars
<1>6. ASSUME ~raced PROVE (at = "column" => AtColumn') /\ (at = "put" => AtPut')
  <2>1. Match(t, paper, bytes - MaxBytes)
    BY <1>1, <1>6 DEF ScreenInv, Sync, AtChar
  <2>2. t.col = VGA_WIDTH <=> paper.col = VGA_WIDTH
    BY <2>1, MatchColumn
  <2>3. ASSUME at = "column" PROVE AtColumn'
    BY <1>1, <1>4, <1>5, <2>1, <2>2, <2>3 DEF AtColumn, AtChar
  <2>4. ASSUME at = "put" PROVE AtPut'
    <3>1. paper.col # VGA_WIDTH /\ Wrapped(paper) = paper
      BY <2>2, <2>4 DEF Wrapped
    <3>2. paper.col \in Int /\ paper.col <= VGA_WIDTH
      BY <2>1, MatchColumn
    <3>3. paper.col < VGA_WIDTH
      BY <3>1, <3>2, Sizes
    <3> QED BY <1>1, <1>5, <2>1, <3>1, <3>3 DEF AtPut
  <2> QED BY <2>3, <2>4
<1>7. Sync'
  BY <1>3, <1>5, <1>6 DEF Sync
<1> QED BY <1>4, <1>7 DEF ScreenInv

(* terminal_newline sets the column. *)
LEMMA ColumnSync ==
  ASSUME ScreenInv, NewlineColumn
  PROVE  ScreenInv'
<1>1. /\ main.at = "column" /\ UNCHANGED mainVars /\ paper' = paper /\ t' = [t EXCEPT !.col = 0]
      /\ main' = [main EXCEPT !.at = "row", !.row = t.row, !.col = 0]
  BY DEF NewlineColumn
<1>2. main' = [at |-> "row", done |-> main.done, row |-> t.row, col |-> 0]
  <2>1. main = [at |-> main.at, done |-> main.done, row |-> main.row, col |-> main.col]
    BY DEF ScreenInv, MainOK
  <2> QED BY <1>1, <2>1
<1>3. "row" \in Places \ {"done"} /\ main.at # "done" /\ "row" \notin {"put", "advance"}
  BY <1>1 DEF Places
<1>4. MainOK' /\ Char' = Char
  BY <1>1, <1>2, <1>3, StayOK DEF ScreenInv
<1>5. /\ raced' = raced /\ main'.at = "row" /\ main'.row = t.row /\ main'.col = 0
  BY <1>1, <1>2 DEF mainVars
<1>6. ASSUME ~raced PROVE AtRow'
  <2>1. /\ Match(t, paper, bytes - MaxBytes) /\ (Char = "NL" \/ paper.col = VGA_WIDTH)
    BY <1>1, <1>6 DEF ScreenInv, Sync, AtColumn, AtChar
  <2>2. TermOK(t) /\ PaperOK(paper) /\ Shows(t, paper) /\ SameInk(paper, paper)
    BY <2>1 DEF Match, SameInk
  <2>3. 0 \in Nat /\ 0 < SIZE_RANGE
    BY Sizes
  <2>4. SamePage(t', t) /\ t'.col = 0
    BY <1>1, <2>2, <2>3, ColumnFields
  <2>5. Shows(t', paper)
    BY <2>2, <2>4, ShowsSame
  <2> QED BY <1>1, <1>4, <1>5, <2>1, <2>2, <2>4, <2>5 DEF AtRow, SamePage
<1>7. Sync'
  BY <1>5, <1>6 DEF Sync
<1> QED BY <1>4, <1>7 DEF ScreenInv

(* terminal_newline sets the row: the end of a newline, or a full row left. *)
LEMMA RowSync ==
  ASSUME ScreenInv, NewlineRow
  PROVE  ScreenInv'
<1>1. main.at = "row" /\ UNCHANGED mainVars /\ main.at # "done" /\ MainOK
  BY DEF NewlineRow, ScreenInv
<1>2. PICK tested \in {main.row, t.row}, row \in {main.row, t.row} :
        IF Char = "NL" THEN CharDone(NextRow(t, tested, row))
        ELSE /\ t' = NextRow(t, tested, row)
             /\ main' = [main EXCEPT !.at = "put"]
             /\ UNCHANGED paper
  BY DEF NewlineRow
<1>3. raced' = raced /\ bytes' = bytes /\ bytes - MaxBytes \in Int
      /\ 0 - MaxBytes <= bytes - MaxBytes /\ bytes - MaxBytes <= 0
  BY <1>1, Sizes DEF mainVars, MainOK
<1>4. ~raced => AtRow /\ tested = t.row /\ row = t.row
  <2>1. ~raced => AtRow
    BY <1>1 DEF ScreenInv, Sync
  <2> QED BY <1>2, <2>1 DEF AtRow
<1>5. ~raced => Match(NextRow(t, tested, row), NewLine(paper), bytes - MaxBytes)
  <2>1. SUFFICES ASSUME ~raced
                 PROVE  Match(NextRow(t, t.row, t.row), NewLine(paper), bytes - MaxBytes)
    BY <1>4
  <2>2. TermOK(t) /\ t.col = 0 /\ PaperOK(paper) /\ Shows(t, paper)
    BY <1>4, <2>1 DEF AtRow
  <2> QED BY <1>3, <2>2, DownMatch
<1>6. CASE Char = "NL"
  <2>1. CharDone(NextRow(t, tested, row))
    BY <1>2, <1>6
  <2>2. MainOK' /\ main'.at \in {"next", "done"}
    BY <1>1, <2>1, DoneOK
  <2>3. ~raced => t' = NextRow(t, tested, row) /\ paper' = NewLine(paper)
    BY <1>6, <2>1 DEF CharDone, Typed
  <2>4. Sync'
    BY <1>3, <1>5, <2>2, <2>3 DEF Sync, AtChar
  <2> QED BY <2>2, <2>4 DEF ScreenInv
<1>7. CASE Char # "NL"
  <2>1. /\ t' = NextRow(t, tested, row) /\ main' = [main EXCEPT !.at = "put"]
        /\ paper' = paper
    BY <1>2, <1>7
  <2>2. main' = [at |-> "put", done |-> main.done, row |-> main.row, col |-> main.col]
    <3>1. main = [at |-> main.at, done |-> main.done, row |-> main.row, col |-> main.col]
      BY DEF ScreenInv, MainOK
    <3> QED BY <2>1, <3>1
  <2>3. "put" \in Places \ {"done"}
    BY DEF Places
  <2>4. MainOK' /\ Char' = Char
    BY <1>1, <1>7, <2>2, <2>3, StayOK
  <2>5. ASSUME ~raced PROVE AtPut'
    <3>1. /\ TermOK(t) /\ PaperOK(paper) /\ Shows(t, paper) /\ paper.col = VGA_WIDTH
          /\ t.col = 0 /\ main.col = t.col /\ tested = t.row /\ row = t.row
      BY <1>4, <1>7, <2>5 DEF AtRow
    <3>2. Wrapped(paper) = NewLine(paper) /\ NewLine(paper).col = 0 /\ 0 < VGA_WIDTH
      BY <3>1, NewLineFields, Sizes DEF Wrapped
    <3>3. NextRow(t, t.row, t.row).col = t.col
      BY <3>1, RowShows
    <3>4. t'.col = t.col /\ main'.col = main.col
      BY <2>1, <2>2, <3>1, <3>3
    <3>5. Match(t', Wrapped(paper'), bytes' - MaxBytes)
      BY <1>3, <1>5, <2>1, <2>5, <3>2
    <3> QED BY <2>1, <3>1, <3>2, <3>4, <3>5 DEF AtPut
  <2>6. main'.at = "put"
    BY <2>2
  <2>7. Sync'
    BY <1>3, <2>5, <2>6 DEF Sync
  <2> QED BY <2>4, <2>7 DEF ScreenInv
<1> QED BY <1>6, <1>7

(* The character is written. *)
LEMMA PutSync ==
  ASSUME ScreenInv, Put
  PROVE  ScreenInv'
<1>1. /\ main.at = "put" /\ UNCHANGED mainVars /\ paper' = paper /\ main.at # "done" /\ MainOK
      /\ main' = [main EXCEPT !.at = "advance"]
  BY DEF Put, ScreenInv
<1>2. PICK x \in {main.col, t.col} : t' = terminal_putentryat(t, Char, x, t.row)
  BY DEF Put
<1>3. main' = [at |-> "advance", done |-> main.done, row |-> main.row, col |-> main.col]
  <2>1. main = [at |-> main.at, done |-> main.done, row |-> main.row, col |-> main.col]
    BY DEF ScreenInv, MainOK
  <2> QED BY <1>1, <2>1
<1>4. "advance" \in Places \ {"done"} /\ Char # "NL"
  BY <1>1 DEF Places, MainOK
<1>5. MainOK' /\ Char' = Char
  BY <1>1, <1>3, <1>4, StayOK
<1>6. raced' = raced /\ bytes' = bytes /\ main'.at = "advance" /\ main'.col = main.col
  BY <1>1, <1>3 DEF mainVars
<1>7. ASSUME ~raced PROVE AtAdvance'
  <2>1. AtPut
    BY <1>1, <1>7 DEF ScreenInv, Sync
  <2> PICK q : q = Wrapped(paper)
    OBVIOUS
  <2>2. Match(t, q, bytes - MaxBytes) /\ q.col < VGA_WIDTH /\ main.col = t.col
    BY <2>1 DEF AtPut
  <2>3. t' = terminal_putentryat(t, Char, t.col, t.row)
    BY <1>2, <2>2
  <2>4. Match(t', Ink(q, Char), bytes - MaxBytes) /\ t'.col = t.col /\ Ink(q, Char).col = q.col
    BY <2>2, <2>3, EntryMatch
  <2>5. Wrapped(paper') = q
    BY <1>1
  <2> QED BY <1>5, <1>6, <2>2, <2>4, <2>5 DEF AtAdvance
<1>8. Sync'
  BY <1>6, <1>7 DEF Sync
<1> QED BY <1>5, <1>8 DEF ScreenInv

(* The column is written. *)
LEMMA AdvanceSync ==
  ASSUME ScreenInv, AdvanceColumn
  PROVE  ScreenInv'
<1>1. main.at = "advance" /\ UNCHANGED mainVars /\ main.at # "done" /\ MainOK
  BY DEF AdvanceColumn, ScreenInv
<1>2. PICK x \in {main.col, t.col} :
        CharDone(terminal_drawcursor(Advance([t EXCEPT !.col = x], 1)))
  BY DEF AdvanceColumn
<1>3. MainOK' /\ main'.at \in {"next", "done"}
  BY <1>1, <1>2, DoneOK
<1>4. raced' = raced /\ bytes' = bytes
  BY <1>1 DEF mainVars
<1>5. Char \notin {"NL", "CR", "BS"}
  BY <1>1, TextOK DEF MainOK
<1>6. ASSUME ~raced PROVE AtChar'
  <2>1. AtAdvance
    BY <1>1, <1>6 DEF ScreenInv, Sync
  <2> PICK n : n = Ink(Wrapped(paper), Char)
    OBVIOUS
  <2> PICK low : low = bytes - MaxBytes
    OBVIOUS
  <2>2. Match(t, n, low) /\ n.col < VGA_WIDTH /\ main.col = t.col
    BY <2>1 DEF AtAdvance
  <2>3. [t EXCEPT !.col = x] = t
    <3>1. t = [row |-> t.row, col |-> t.col, cell |-> t.cell, cursor |-> t.cursor,
               stray |-> t.stray]
      BY <2>2 DEF Match, TermOK
    <3>2. x = t.col
      BY <1>2, <2>2
    <3> QED BY <3>1, <3>2
  <2>4. t' = terminal_drawcursor(Advance(t, 1)) /\ paper' = Typed(paper, Char)
    BY <1>2, <1>6, <2>3 DEF CharDone
  <2>5. Typed(paper, Char) = Move(n, 1)
    BY <1>5 DEF Typed
  <2>6. /\ low \in Int /\ 0 - MaxBytes <= low /\ low <= 0 /\ n.col \in Int /\ low <= n.col
    BY <2>2, MatchColumn
  <2>7. 1 \in {-1, 1} /\ low <= n.col + 1 /\ n.col + 1 <= VGA_WIDTH
    BY <2>2, <2>6, Sizes
  <2>8. Match(Advance(t, 1), Move(n, 1), low)
    BY <2>2, <2>6, <2>7, AdvanceMatch
  <2>9. Match(terminal_drawcursor(Advance(t, 1)), Move(n, 1), low)
    BY <2>8, CursorMatch
  <2> QED BY <1>4, <2>4, <2>5, <2>9 DEF AtChar
<1>7. Sync'
  BY <1>3, <1>4, <1>6 DEF Sync
<1> QED BY <1>3, <1>7 DEF ScreenInv

(* A character of a key: outside of a terminal_putchar, screen and paper get it. *)
LEMMA EchoSync ==
  ASSUME ScreenInv, MainOK', main' = main, NEW s, Echo(s),
         NEW low \in Int, low = bytes' - MaxBytes, 0 - MaxBytes <= low,
         low <= bytes - MaxBytes, Head(s) = "BS" => low = bytes - MaxBytes - 1
  PROVE  ScreenInv'
<1> DEFINE c == Head(s)
           old == bytes - MaxBytes
<1>1. /\ t' = terminal_putchar(t, c) /\ raced' = (raced \/ Inside)
      /\ paper' = IF raced' THEN paper ELSE Typed(paper, c)
  BY DEF Echo
<1>2. old \in Int /\ low <= old /\ (c = "BS" => low = old - 1)
  BY Sizes DEF ScreenInv, MainOK
<1> HIDE DEF c
<1>3. ASSUME ~raced' PROVE main'.at \in {"next", "done"} /\ AtChar'
  <2>1. ~raced /\ ~Inside /\ paper' = Typed(paper, c)
    BY <1>1, <1>3
  <2>2. main.at \in {"next", "done"}
    BY <2>1 DEF Inside
  <2>3. Match(t, paper, old)
    BY <2>1, <2>2 DEF ScreenInv, Sync, AtChar
  <2> HIDE DEF old
  <2>4. Match(t', paper', IF c = "BS" THEN old - 1 ELSE old)
    BY <1>1, <1>2, <2>1, <2>3, CharMatch
  <2>5. Match(t', paper', low)
    BY <1>2, <2>4, MatchLow
  <2> QED BY <2>2, <2>5 DEF AtChar
<1>4. Sync'
  BY <1>3 DEF Sync
<1> QED BY <1>4 DEF ScreenInv

(* The lines of keys 2 and 3 go on. *)
LEMMA EchoNextSync ==
  ASSUME ScreenInv, EchoOK, EchoNext
  PROVE  ScreenInv'
<1>1. MainOK' /\ main' = main /\ bytes' = bytes /\ Head(echo) # "BS" /\ Echo(echo)
  BY EchoNextOK DEF ScreenInv, EchoNext
<1>2. bytes - MaxBytes \in Int /\ 0 - MaxBytes <= bytes - MaxBytes
  BY Sizes DEF ScreenInv, MainOK
<1> QED BY <1>1, <1>2, EchoSync

(* A byte of the keyboard. *)
LEMMA ByteSync ==
  ASSUME ScreenInv, Byte
  PROVE  ScreenInv'
<1> PICK low : low = bytes - MaxBytes
  OBVIOUS
<1>1. /\ MainOK' /\ Char' = Char /\ main' = main /\ bytes' - MaxBytes = low - 1
      /\ low \in Int /\ low - 1 \in Int /\ 0 - MaxBytes <= low - 1 /\ low - 1 <= low
  <2>1. /\ MainOK' /\ Char' = Char /\ main' = main /\ bytes \in Nat /\ bytes' = bytes - 1
        /\ bytes' \in Nat /\ bytes <= MaxBytes
    BY ByteOK DEF ScreenInv
  <2> QED BY <2>1, Sizes
<1>2. CASE Silent
  <2>1. t' = t /\ raced' = raced /\ paper' = paper
    BY <1>2 DEF Silent
  <2>2. ASSUME ~raced, AtChar PROVE AtChar'
    <3>1. Match(t, paper, low)
      BY <2>2 DEF AtChar
    <3>2. Match(t, paper, low - 1)
      BY <1>1, <3>1, MatchLow
    <3> QED BY <1>1, <2>1, <3>2 DEF AtChar
  <2>3. AtRow => AtRow'
    BY <1>1, <2>1 DEF AtRow
  <2>4. ASSUME AtPut PROVE AtPut'
    <3>1. Match(t, Wrapped(paper), low) /\ Wrapped(paper).col < VGA_WIDTH /\ main.col = t.col
      BY <2>4 DEF AtPut
    <3>2. Match(t, Wrapped(paper), low - 1)
      BY <1>1, <3>1, MatchLow
    <3> QED BY <1>1, <2>1, <3>1, <3>2 DEF AtPut
  <2>5. ASSUME AtAdvance PROVE AtAdvance'
    <3> PICK n : n = Ink(Wrapped(paper), Char)
      OBVIOUS
    <3>1. Match(t, n, low) /\ n.col < VGA_WIDTH /\ main.col = t.col
      BY <2>5 DEF AtAdvance
    <3>2. Match(t, n, low - 1)
      BY <1>1, <3>1, MatchLow
    <3>3. Ink(Wrapped(paper'), Char') = n
      BY <1>1, <2>1
    <3> QED BY <1>1, <2>1, <3>1, <3>2, <3>3 DEF AtAdvance
  <2>6. ~raced /\ AtColumn => AtColumn'
    BY <1>1, <2>1, <2>2 DEF AtColumn
  <2>7. Sync'
    BY <1>1, <2>1, <2>2, <2>3, <2>4, <2>5, <2>6 DEF Sync, ScreenInv
  <2> QED BY <1>1, <2>7 DEF ScreenInv
<1>3. ASSUME NEW s, KeyEcho(s) PROVE ScreenInv'
  <2>1. Echo(s) /\ bytes - MaxBytes = low
    BY <1>3 DEF KeyEcho
  <2> QED BY <1>1, <2>1, EchoSync
<1> QED BY <1>2, <1>3, ByteCases

(* Nothing else. *)
LEMMA StutterSync ==
  ASSUME ScreenInv, UNCHANGED consoleVars
  PROVE  ScreenInv'
<1>1. /\ t' = t /\ source' = source /\ text' = text /\ main' = main /\ raced' = raced
      /\ paper' = paper /\ bytes' = bytes
  BY DEF consoleVars
<1> QED BY <1>1 DEF ScreenInv, MainOK, Sync, AtChar, AtColumn, AtRow, AtPut, AtAdvance, Char

(* For every size of the screen, every text and every sequence of keys: unless a
   key came inside a terminal_putchar, the screen shows the last rows of all that
   was printed, whatever was wrapped, scrolled away or taken back. *)
THEOREM ScreenShows == ConsoleSpec => []ScreenRight
<1>1. ConsoleInit => ScreenInv /\ EchoOK
  BY ScreenInit, EchoInit
<1>2. ScreenInv /\ EchoOK /\ [ConsoleNext]_consoleVars => ScreenInv' /\ EchoOK'
  BY TestSync, ColumnSync, RowSync, PutSync, AdvanceSync, ByteSync, EchoNextSync, StutterSync,
     EchoStep DEF ConsoleNext, Main, MainLoop
<1>3. ScreenInv => ScreenRight
  <2>1. SUFFICES ASSUME ScreenInv, ~raced, ~Inside
                 PROVE  Shows(t, paper) /\ t.col = paper.col % SIZE_RANGE
    BY DEF ScreenRight
  <2>2. AtChar
    BY <2>1 DEF ScreenInv, Sync, Inside
  <2> QED BY <2>2 DEF AtChar, Match
<1> QED BY <1>1, <1>2, <1>3, PTL DEF ConsoleSpec

-----------------------------------------------------------------------------
(* The position, whether or not keys came inside a terminal_putchar.       *)

OnScreen(u) == TermOK(u) /\ u.row < VGA_HEIGHT

(* A column of the first hi, or at most k left of the row. *)
Near(col, hi, k) == col <= hi \/ col >= SIZE_RANGE - k

(* The row below stays on the screen. *)
LEMMA RowOn ==
  ASSUME NEW u, OnScreen(u), NEW v, v = NextRow(u, u.row, u.row)
  PROVE  OnScreen(v) /\ v.col = u.col
<1>1. /\ u = [row |-> u.row, col |-> u.col, cell |-> u.cell, cursor |-> u.cursor,
              stray |-> u.stray]
      /\ u.row \in Nat /\ u.row < VGA_HEIGHT
  BY DEF OnScreen, TermOK
<1>2. CASE u.row + 1 = VGA_HEIGHT
  <2> DEFINE cells == [k \in Cells |->
                         IF k + VGA_WIDTH \in Cells THEN u.cell[k + VGA_WIDTH] ELSE Blank]
  <2>1. /\ v.row = u.row /\ v.col = u.col /\ v.cell = cells /\ v.stray = u.stray
        /\ v = [row |-> v.row, col |-> v.col, cell |-> v.cell, cursor |-> v.cursor,
                stray |-> v.stray]
    BY <1>1, <1>2 DEF NextRow, terminal_scroll
  <2> QED BY <1>1, <2>1 DEF OnScreen, TermOK
<1>3. CASE u.row + 1 # VGA_HEIGHT
  <2>1. /\ v.row = u.row + 1 /\ v.col = u.col /\ v.cell = u.cell /\ v.stray = u.stray
        /\ v = [row |-> v.row, col |-> v.col, cell |-> v.cell, cursor |-> v.cursor,
                stray |-> v.stray]
    BY <1>1, <1>3 DEF NextRow
  <2>2. v.row \in Nat /\ v.row < VGA_HEIGHT
    BY <1>1, <1>3, <2>1, Sizes
  <2> QED BY <2>1, <2>2 DEF OnScreen, TermOK
<1> QED BY <1>2, <1>3

(* terminal_newline stays on the screen. *)
LEMMA NewlineOn ==
  ASSUME NEW u, OnScreen(u), NEW v, v = terminal_newline(u)
  PROVE  OnScreen(v) /\ v.col = 0
<1> PICK w : w = [u EXCEPT !.col = 0]
  OBVIOUS
<1>1. 0 \in Nat /\ 0 < SIZE_RANGE /\ TermOK(u) /\ u.row < VGA_HEIGHT
  BY Sizes DEF OnScreen
<1>2. SamePage(w, u) /\ w.col = 0
  BY <1>1, ColumnFields
<1>3. OnScreen(w) /\ w.row = u.row
  BY <1>1, <1>2 DEF OnScreen, SamePage
<1>4. v = NextRow(w, w.row, w.row)
  BY <1>3 DEF terminal_newline
<1> QED BY <1>2, <1>3, <1>4, RowOn

(* terminal_putentryat leaves the position alone. *)
LEMMA EntryOn ==
  ASSUME NEW u, OnScreen(u), NEW c, NEW x, NEW y, NEW v, v = terminal_putentryat(u, c, x, y)
  PROVE  OnScreen(v) /\ v.col = u.col /\ v.row = u.row
<1>1. /\ u = [row |-> u.row, col |-> u.col, cell |-> u.cell, cursor |-> u.cursor,
              stray |-> u.stray]
      /\ u.cell = [k \in Cells |-> u.cell[k]] /\ u.row < VGA_HEIGHT /\ TermOK(u)
  BY DEF OnScreen, TermOK
<1> PICK index : index = (y * VGA_WIDTH + x) % SIZE_RANGE
  OBVIOUS
<1>2. v = IF index \in Cells THEN [u EXCEPT !.cell = [u.cell EXCEPT ![index] = c]]
          ELSE [u EXCEPT !.stray = TRUE]
  BY DEF terminal_putentryat
<1>3. CASE index \in Cells
  <2> DEFINE cell == [u.cell EXCEPT ![index] = c]
  <2>1. cell = [k \in Cells |-> cell[k]]
    BY <1>1
  <2>2. v = [u EXCEPT !.cell = cell]
    BY <1>2, <1>3
  <2> HIDE DEF cell
  <2>3. /\ v.row = u.row /\ v.col = u.col /\ v.cell = cell /\ v.stray = u.stray
        /\ v = [row |-> v.row, col |-> v.col, cell |-> v.cell, cursor |-> v.cursor,
                stray |-> v.stray]
    BY <1>1, <2>2
  <2> QED BY <1>1, <2>1, <2>3 DEF OnScreen, TermOK
<1>4. CASE index \notin Cells
  <2>1. v = [u EXCEPT !.stray = TRUE]
    BY <1>2, <1>4
  <2>2. /\ v.row = u.row /\ v.col = u.col /\ v.cell = u.cell /\ v.stray = TRUE
        /\ v = [row |-> v.row, col |-> v.col, cell |-> v.cell, cursor |-> v.cursor,
                stray |-> v.stray]
    BY <1>1, <2>1
  <2> QED BY <1>1, <2>2 DEF OnScreen, TermOK
<1> QED BY <1>3, <1>4

(* A column on, or back. *)
LEMMA ColumnOn ==
  ASSUME NEW u, OnScreen(u), NEW d \in {-1, 1}, NEW v, v = Advance(u, d)
  PROVE  /\ OnScreen(v) /\ v.row = u.row
         /\ v.col = IF u.col + d < 0 THEN SIZE_RANGE - 1
                    ELSE IF u.col + d = SIZE_RANGE THEN 0 ELSE u.col + d
<1>1. /\ TermOK(u) /\ u.row < VGA_HEIGHT /\ u.col \in Nat /\ u.col < SIZE_RANGE
      /\ SIZE_RANGE \in Nat \ {0}
  BY Sizes DEF OnScreen, TermOK
<1> PICK e : e = u.col + d
  OBVIOUS
<1>2. e \in Int /\ 0 - SIZE_RANGE <= e /\ e < 2 * SIZE_RANGE /\ -1 <= e /\ e <= SIZE_RANGE
  BY <1>1
<1> PICK x : x = e % SIZE_RANGE
  OBVIOUS
<1>3. x = IF e < 0 THEN e + SIZE_RANGE ELSE IF e < SIZE_RANGE THEN e ELSE e - SIZE_RANGE
  BY <1>2, Wrap
<1>4. /\ x \in Nat /\ x < SIZE_RANGE
      /\ x = IF e < 0 THEN SIZE_RANGE - 1 ELSE IF e = SIZE_RANGE THEN 0 ELSE e
  BY <1>1, <1>2, <1>3
<1>5. v = [u EXCEPT !.col = x]
  BY DEF Advance
<1>6. SamePage(v, u) /\ v.col = x
  BY <1>1, <1>4, <1>5, ColumnFields
<1> QED BY <1>1, <1>4, <1>6 DEF OnScreen, SamePage

(* The cursor. *)
LEMMA CursorOn ==
  ASSUME NEW u, OnScreen(u), NEW v, v = terminal_drawcursor(u)
  PROVE  OnScreen(v) /\ v.col = u.col /\ v.row = u.row
<1>1. TermOK(u) /\ u.row < VGA_HEIGHT
  BY DEF OnScreen
<1>2. SamePage(v, u) /\ v.col = u.col
  BY <1>1, CursorFields
<1> QED BY <1>1, <1>2 DEF OnScreen, SamePage

(* A character that shows. *)
LEMMA VisibleOn ==
  ASSUME NEW u, OnScreen(u), NEW c, NEW v, v = PutVisible(u, c)
  PROVE  /\ OnScreen(v)
         /\ u.col = VGA_WIDTH => v.col = 1
         /\ u.col # VGA_WIDTH =>
              v.row = u.row /\ v.col = IF u.col + 1 = SIZE_RANGE THEN 0 ELSE u.col + 1
<1> PICK w : w = IF u.col = VGA_WIDTH THEN terminal_newline(u) ELSE u
  OBVIOUS
<1>1. /\ OnScreen(w) /\ (u.col = VGA_WIDTH => w.col = 0) /\ (u.col # VGA_WIDTH => w = u)
  BY NewlineOn
<1> PICK x : x = terminal_putentryat(w, c, w.col, w.row)
  OBVIOUS
<1>2. OnScreen(x) /\ x.col = w.col /\ x.row = w.row
  BY <1>1, EntryOn
<1> PICK y : y = Advance(x, 1)
  OBVIOUS
<1>3. /\ OnScreen(y) /\ y.row = x.row
      /\ y.col = IF x.col + 1 < 0 THEN SIZE_RANGE - 1
                 ELSE IF x.col + 1 = SIZE_RANGE THEN 0 ELSE x.col + 1
  <2>1. 1 \in {-1, 1}
    OBVIOUS
  <2> QED BY <1>2, <2>1, ColumnOn
<1>4. v = terminal_drawcursor(y)
  BY DEF PutVisible
<1>5. OnScreen(v) /\ v.col = y.col /\ v.row = y.row
  BY <1>3, <1>4, CursorOn
<1>6. /\ x.col \in Nat /\ SIZE_RANGE \in Nat /\ SIZE_RANGE > 1
  BY <1>2, Sizes DEF OnScreen, TermOK
<1>7. y.col = IF x.col + 1 = SIZE_RANGE THEN 0 ELSE x.col + 1
  BY <1>3, <1>6
<1>8. CASE u.col = VGA_WIDTH
  <2>1. x.col = 0
    BY <1>1, <1>2, <1>8
  <2> QED BY <1>5, <1>6, <1>7, <1>8, <2>1
<1>9. CASE u.col # VGA_WIDTH
  BY <1>1, <1>2, <1>3, <1>5, <1>7, <1>9
<1> QED BY <1>8, <1>9

(* The column before, and the column after. *)
Before(x) == IF x = 0 THEN SIZE_RANGE - 1 ELSE x - 1
After(x) == IF x + 1 = SIZE_RANGE THEN 0 ELSE x + 1

(* Where terminal_putchar leaves the position. *)
Moved(v, u, c) ==
  /\ c = "NL" => v.col = 0
  /\ c = "CR" => v.col = 0 /\ v.row = u.row
  /\ c = "BS" => /\ Before(u.col) = VGA_WIDTH => v.col = 0
                 /\ Before(u.col) # VGA_WIDTH => v.col = Before(u.col) /\ v.row = u.row
  /\ c \notin {"NL", "CR", "BS"} =>
       /\ u.col = VGA_WIDTH => v.col = 1
       /\ u.col # VGA_WIDTH => v.col = After(u.col) /\ v.row = u.row

(* terminal_putchar stays in the rows of the screen. *)
LEMMA CharOn ==
  ASSUME NEW u, OnScreen(u), NEW c, NEW v, v = terminal_putchar(u, c)
  PROVE  OnScreen(v) /\ Moved(v, u, c)
<1>0. /\ u.col \in Nat /\ u.col < SIZE_RANGE /\ SIZE_RANGE \in Nat /\ SIZE_RANGE > 1
      /\ TermOK(u) /\ u.row < VGA_HEIGHT /\ VGA_WIDTH \in Nat
  BY Sizes DEF OnScreen, TermOK
<1>1. CASE c = "NL"
  <2>1. v = terminal_newline(u)
    BY <1>1 DEF terminal_putchar
  <2>2. OnScreen(v) /\ v.col = 0
    BY <2>1, NewlineOn
  <2> QED BY <1>1, <2>2 DEF Moved
<1>2. CASE c = "CR"
  <2>1. v = [u EXCEPT !.col = 0]
    BY <1>2 DEF terminal_putchar
  <2>2. SamePage(v, u) /\ v.col = 0
    BY <1>0, <2>1, ColumnFields
  <2> QED BY <1>0, <1>2, <2>2 DEF Moved, OnScreen, SamePage
<1>3. CASE c = "BS"
  <2> PICK w : w = Advance(u, -1)
    OBVIOUS
  <2>1. -1 \in {-1, 1} /\ 1 \in {-1, 1}
    OBVIOUS
  <2>2. /\ OnScreen(w) /\ w.row = u.row
        /\ w.col = IF u.col + (-1) < 0 THEN SIZE_RANGE - 1
                   ELSE IF u.col + (-1) = SIZE_RANGE THEN 0 ELSE u.col + (-1)
    BY <2>1, ColumnOn
  <2>3. w.col = Before(u.col) /\ w.col \in Nat /\ w.col < SIZE_RANGE
    BY <1>0, <2>2 DEF Before
  <2> PICK x : x = PutVisible(w, Blank)
    OBVIOUS
  <2>4. /\ OnScreen(x)
        /\ w.col = VGA_WIDTH => x.col = 1
        /\ w.col # VGA_WIDTH =>
             x.row = w.row /\ x.col = IF w.col + 1 = SIZE_RANGE THEN 0 ELSE w.col + 1
    BY <2>2, VisibleOn
  <2> PICK y : y = Advance(x, -1)
    OBVIOUS
  <2>5. /\ OnScreen(y) /\ y.row = x.row
        /\ y.col = IF x.col + (-1) < 0 THEN SIZE_RANGE - 1
                   ELSE IF x.col + (-1) = SIZE_RANGE THEN 0 ELSE x.col + (-1)
    BY <2>1, <2>4, ColumnOn
  <2>6. v = terminal_drawcursor(y)
    BY <1>3 DEF terminal_putchar
  <2>7. OnScreen(v) /\ v.col = y.col /\ v.row = y.row
    BY <2>5, <2>6, CursorOn
  <2>8. w.col = VGA_WIDTH => v.col = 0
    BY <1>0, <2>4, <2>5, <2>7
  <2>9. w.col # VGA_WIDTH => v.col = w.col /\ v.row = u.row
    BY <1>0, <2>2, <2>3, <2>4, <2>5, <2>7
  <2> QED BY <1>3, <2>3, <2>7, <2>8, <2>9 DEF Moved
<1>4. CASE c \notin {"NL", "CR", "BS"}
  <2>1. v = PutVisible(u, c)
    BY <1>4 DEF terminal_putchar
  <2>2. /\ OnScreen(v)
        /\ u.col = VGA_WIDTH => v.col = 1
        /\ u.col # VGA_WIDTH =>
             v.row = u.row /\ v.col = IF u.col + 1 = SIZE_RANGE THEN 0 ELSE u.col + 1
    BY <2>1, VisibleOn
  <2> QED BY <1>4, <2>2 DEF Moved, After
<1> QED BY <1>1, <1>2, <1>3, <1>4

(* One key more after the text: the column stays near the screen. *)
LEMMA CharNear ==
  ASSUME NEW u, OnScreen(u), NEW v, OnScreen(v), NEW c, Moved(v, u, c),
         NEW k \in Nat, k < MaxBytes, Near(u.col, VGA_WIDTH, k)
  PROVE  Near(v.col, VGA_WIDTH, k + 1)
<1>1. /\ u.col \in Nat /\ u.col < SIZE_RANGE /\ v.col \in Nat /\ SIZE_RANGE \in Nat
      /\ VGA_WIDTH \in Nat \ {0} /\ MaxBytes \in Nat /\ MaxBytes + VGA_WIDTH < SIZE_RANGE
      /\ u.col <= VGA_WIDTH \/ u.col >= SIZE_RANGE - k
  BY Sizes DEF OnScreen, TermOK, Near
<1>2. CASE c = "NL" \/ c = "CR"
  BY <1>1, <1>2 DEF Moved, Near
<1>3. CASE c = "BS"
  <2>1. v.col = 0 \/ v.col = Before(u.col)
    BY <1>3 DEF Moved
  <2> QED BY <1>1, <2>1 DEF Near, Before
<1>4. CASE c \notin {"NL", "CR", "BS"}
  <2>1. \/ u.col = VGA_WIDTH /\ v.col = 1
        \/ u.col # VGA_WIDTH /\ v.col = After(u.col)
    BY <1>4 DEF Moved
  <2> QED BY <1>1, <2>1 DEF Near, After
<1> QED BY <1>2, <1>3, <1>4

(* And so it does while a key prints its line. *)
LEMMA LineNear ==
  ASSUME NEW u, OnScreen(u), NEW v, OnScreen(v), NEW c, Moved(v, u, c), c # "BS",
         NEW k \in Nat, k <= MaxBytes, Near(u.col, VGA_WIDTH, k)
  PROVE  Near(v.col, VGA_WIDTH, k)
<1>1. /\ u.col \in Nat /\ u.col < SIZE_RANGE /\ v.col \in Nat /\ SIZE_RANGE \in Nat
      /\ VGA_WIDTH \in Nat \ {0} /\ MaxBytes \in Nat /\ MaxBytes + VGA_WIDTH < SIZE_RANGE
      /\ u.col <= VGA_WIDTH \/ u.col >= SIZE_RANGE - k
  BY Sizes DEF OnScreen, TermOK, Near
<1>2. CASE c = "NL" \/ c = "CR"
  BY <1>1, <1>2 DEF Moved, Near
<1>3. CASE c \notin {"NL", "CR", "BS"}
  <2>1. \/ u.col = VGA_WIDTH /\ v.col = 1
        \/ u.col # VGA_WIDTH /\ v.col = After(u.col)
    BY <1>3 DEF Moved
  <2> QED BY <1>1, <2>1 DEF Near, After
<1> QED BY <1>2, <1>3

(* One key more between the two halves of terminal_newline: no more than a row's
   keys fill the row, and none of them leaves it. *)
LEMMA CharInRow ==
  ASSUME NEW u, OnScreen(u), NEW v, OnScreen(v), NEW c, Moved(v, u, c), c # "NL",
         NEW k \in Nat, k < MaxBytes, k < VGA_WIDTH, Near(u.col, k, k)
  PROVE  Near(v.col, k + 1, k + 1) /\ v.row = u.row
<1>1. /\ u.col \in Nat /\ u.col < SIZE_RANGE /\ v.col \in Nat /\ SIZE_RANGE \in Nat
      /\ VGA_WIDTH \in Nat \ {0} /\ MaxBytes \in Nat /\ MaxBytes + VGA_WIDTH < SIZE_RANGE
      /\ u.col <= k \/ u.col >= SIZE_RANGE - k
  BY Sizes DEF OnScreen, TermOK, Near
<1>2. u.col # VGA_WIDTH /\ Before(u.col) # VGA_WIDTH
  BY <1>1 DEF Before
<1>3. CASE c = "CR"
  BY <1>1, <1>3 DEF Moved, Near
<1>4. CASE c = "BS"
  <2>1. v.col = Before(u.col) /\ v.row = u.row
    BY <1>2, <1>4 DEF Moved
  <2> QED BY <1>1, <2>1 DEF Near, Before
<1>5. CASE c \notin {"NL", "CR", "BS"}
  <2>1. v.col = After(u.col) /\ v.row = u.row
    BY <1>2, <1>5 DEF Moved
  <2> QED BY <1>1, <2>1 DEF Near, After
<1> QED BY <1>3, <1>4, <1>5

-----------------------------------------------------------------------------
(* The position recovers.  What is known of it inside the newline that ends the
   banner: the row that kernel_main read is still the terminal's, and the column
   is as far from 0 as keys were pressed. *)

Spared == OneCharInside /\ MaxBytes <= VGA_WIDTH
Pressed == MaxBytes - bytes

Position ==
  Spared =>
    /\ OnScreen(t) /\ main.col \in Nat /\ main.col < SIZE_RANGE
    /\ main.at = "row" => main.row = t.row /\ Near(t.col, Pressed, Pressed)
    /\ main.at = "done" /\ source.call = Banner => Near(t.col, VGA_WIDTH, Pressed)

PositionInv == MainOK /\ Position

(* The range of the number of keys. *)
LEMMA PressedRange ==
  ASSUME MainOK
  PROVE  /\ Pressed \in Nat /\ Pressed <= MaxBytes /\ MaxBytes \in Nat
         /\ VGA_WIDTH \in Nat \ {0} /\ SIZE_RANGE \in Nat /\ SIZE_RANGE > 0
BY Sizes DEF MainOK, Pressed

(* Init. *)
LEMMA PositionInit ==
  ASSUME ConsoleInit
  PROVE  PositionInv
<1>1. MainOK
  BY ScreenInit DEF ScreenInv
<1>2. /\ t = terminal_initialize
      /\ main = [at |-> "next", done |-> 0, row |-> 0, col |-> 0]
  BY DEF ConsoleInit
<1>3. main.at = "next" /\ main.col = 0 /\ 0 \in Nat /\ 0 < SIZE_RANGE
  BY <1>2, Sizes
<1>4. OnScreen(t)
  <2>1. TermOK(t) /\ t.row = 0
    BY <1>2, Sizes DEF terminal_initialize, TermOK
  <2> QED BY <2>1, Sizes DEF OnScreen
<1> QED BY <1>1, <1>3, <1>4 DEF PositionInv, Position

(* The column is read. *)
LEMMA TestPosition ==
  ASSUME PositionInv, MainOK', Test
  PROVE  PositionInv'
<1>1. /\ t' = t /\ main'.at \in {"column", "put"} /\ main'.col = t.col
  <2>1. main = [at |-> main.at, done |-> main.done, row |-> main.row, col |-> main.col]
    BY DEF PositionInv, MainOK
  <2> QED BY <2>1 DEF Test
<1>2. OnScreen(t) => t.col \in Nat /\ t.col < SIZE_RANGE
  BY DEF OnScreen, TermOK
<1>3. Position'
  BY <1>1, <1>2 DEF Position, PositionInv
<1> QED BY <1>3 DEF PositionInv

(* terminal_newline sets the column. *)
LEMMA ColumnPosition ==
  ASSUME PositionInv, MainOK', NewlineColumn
  PROVE  PositionInv'
<1>1. /\ t' = [t EXCEPT !.col = 0] /\ main'.at = "row" /\ main'.col = 0 /\ main'.row = t.row
  <2>1. main = [at |-> main.at, done |-> main.done, row |-> main.row, col |-> main.col]
    BY DEF PositionInv, MainOK
  <2> QED BY <2>1 DEF NewlineColumn
<1>2. Pressed' \in Nat /\ 0 \in Nat /\ 0 < SIZE_RANGE
  <2>1. PICK b : b = bytes'
    OBVIOUS
  <2>2. b \in 0..MaxBytes
    BY <2>1 DEF MainOK
  <2>3. MaxBytes - b \in Nat
    BY <2>2, Sizes
  <2>4. 0 < SIZE_RANGE
    BY Sizes
  <2> QED BY <2>1, <2>3, <2>4 DEF Pressed
<1>3. ASSUME Spared PROVE OnScreen(t') /\ t'.row = t.row /\ Near(t'.col, Pressed', Pressed')
  <2>1. TermOK(t) /\ t.row < VGA_HEIGHT
    BY <1>3 DEF PositionInv, Position, OnScreen
  <2>2. SamePage(t', t) /\ t'.col = 0
    BY <1>1, <1>2, <2>1, ColumnFields
  <2>3. Near(0, Pressed', Pressed')
    BY <1>2 DEF Near
  <2> QED BY <2>1, <2>2, <2>3 DEF OnScreen, SamePage
<1>4. Position'
  BY <1>1, <1>2, <1>3 DEF Position
<1> QED BY <1>4 DEF PositionInv

(* terminal_newline sets the row, to the one below what it is. *)
LEMMA RowPosition ==
  ASSUME PositionInv, MainOK', NewlineRow
  PROVE  PositionInv'
<1>1. main.at = "row" /\ UNCHANGED mainVars
  BY DEF NewlineRow
<1>2. PICK tested \in {main.row, t.row}, row \in {main.row, t.row} :
        IF Char = "NL" THEN CharDone(NextRow(t, tested, row))
        ELSE /\ t' = NextRow(t, tested, row)
             /\ main' = [main EXCEPT !.at = "put"]
             /\ UNCHANGED paper
  BY DEF NewlineRow
<1>3. t' = NextRow(t, tested, row) /\ main'.col = main.col /\ main'.at \in {"next", "done", "put"}
  <2>1. main = [at |-> main.at, done |-> main.done, row |-> main.row, col |-> main.col]
    BY DEF PositionInv, MainOK
  <2>2. CASE Char = "NL"
    BY <1>2, <2>1, <2>2 DEF CharDone
  <2>3. CASE Char # "NL"
    BY <1>2, <2>1, <2>3
  <2> QED BY <2>2, <2>3
<1>4. Pressed' = Pressed
  BY <1>1 DEF mainVars, Pressed
<1>5. ASSUME Spared PROVE OnScreen(t') /\ Near(t'.col, VGA_WIDTH, Pressed)
  <2>1. OnScreen(t) /\ main.row = t.row /\ Near(t.col, Pressed, Pressed)
    BY <1>1, <1>5 DEF PositionInv, Position
  <2>2. t' = NextRow(t, t.row, t.row)
    BY <1>2, <1>3, <2>1
  <2>3. OnScreen(t') /\ t'.col = t.col
    BY <2>1, <2>2, RowOn
  <2>4. Near(t.col, VGA_WIDTH, Pressed)
    <3>1. Pressed \in Nat /\ Pressed <= VGA_WIDTH /\ t.col \in Nat /\ VGA_WIDTH \in Nat
      <4>1. /\ Pressed \in Nat /\ Pressed <= MaxBytes /\ MaxBytes \in Nat /\ VGA_WIDTH \in Nat
            /\ MaxBytes <= VGA_WIDTH
        BY <1>5, PressedRange DEF PositionInv, Spared
      <4>2. t.col \in Nat
        BY <2>1 DEF OnScreen, TermOK
      <4> QED BY <4>1, <4>2
    <3> QED BY <2>1, <3>1 DEF Near
  <2> QED BY <2>3, <2>4
<1>6. Position'
  BY <1>3, <1>4, <1>5 DEF Position, PositionInv
<1> QED BY <1>6 DEF PositionInv

(* The character is written. *)
LEMMA PutPosition ==
  ASSUME PositionInv, MainOK', Put
  PROVE  PositionInv'
<1>1. PICK x \in {main.col, t.col} : t' = terminal_putentryat(t, Char, x, t.row)
  BY DEF Put
<1>2. main'.col = main.col /\ main'.at = "advance"
  <2>1. main = [at |-> main.at, done |-> main.done, row |-> main.row, col |-> main.col]
    BY DEF PositionInv, MainOK
  <2> QED BY <2>1 DEF Put
<1>3. OnScreen(t) => OnScreen(t')
  BY <1>1, EntryOn
<1>4. Position'
  BY <1>2, <1>3 DEF Position, PositionInv
<1> QED BY <1>4 DEF PositionInv

(* The column is written: not at the end of the banner, which is a newline. *)
LEMMA AdvancePosition ==
  ASSUME PositionInv, MainOK', AdvanceColumn
  PROVE  PositionInv'
<1>1. main.at = "advance" /\ UNCHANGED mainVars /\ MainOK
  BY DEF AdvanceColumn, PositionInv
<1>2. PICK x \in {main.col, t.col} :
        CharDone(terminal_drawcursor(Advance([t EXCEPT !.col = x], 1)))
  BY DEF AdvanceColumn
<1>3. /\ main'.col = main.col
      /\ main'.at = IF main.done + 1 = Len(text) THEN "done" ELSE "next"
  <2>1. main = [at |-> main.at, done |-> main.done, row |-> main.row, col |-> main.col]
    BY DEF PositionInv, MainOK
  <2> QED BY <1>2, <2>1 DEF CharDone
<1>4. main'.at # "row" /\ ~(main'.at = "done" /\ source'.call = Banner)
  <2>1. source' = source /\ Char # "NL"
    BY <1>1 DEF mainVars, MainOK
  <2>2. source.call = Banner /\ main.done + 1 = Len(text) => Char = "NL"
    BY <1>1, TextOK
  <2> QED BY <1>3, <2>1, <2>2
<1>5. ASSUME Spared PROVE OnScreen(t')
  <2>1. OnScreen(t) /\ TermOK(t) /\ t.row < VGA_HEIGHT /\ x \in Nat /\ x < SIZE_RANGE
    BY <1>2, <1>5 DEF PositionInv, Position, OnScreen, TermOK
  <2> PICK w : w = [t EXCEPT !.col = x]
    OBVIOUS
  <2>2. SamePage(w, t)
    BY <2>1, ColumnFields
  <2>3. OnScreen(w)
    BY <2>1, <2>2 DEF OnScreen, SamePage
  <2> PICK y : y = Advance(w, 1)
    OBVIOUS
  <2>4. OnScreen(y)
    <3>1. 1 \in {-1, 1}
      OBVIOUS
    <3> QED BY <2>3, <3>1, ColumnOn
  <2>5. t' = terminal_drawcursor(y)
    BY <1>2 DEF CharDone
  <2> QED BY <2>4, <2>5, CursorOn
<1>6. Position'
  BY <1>3, <1>4, <1>5 DEF Position, PositionInv
<1> QED BY <1>6 DEF PositionInv

(* A byte of the keyboard. *)
LEMMA BytePosition ==
  ASSUME PositionInv, Byte
  PROVE  PositionInv'
<1> PICK k : k = Pressed
  OBVIOUS
<1>1. /\ MainOK' /\ main' = main /\ source' = source /\ k \in Nat /\ k < MaxBytes
      /\ Pressed' = k + 1 /\ MaxBytes \in Nat /\ VGA_WIDTH \in Nat /\ SIZE_RANGE \in Nat
  <2>1. /\ MainOK' /\ main' = main /\ source' = source /\ bytes \in Nat /\ bytes' = bytes - 1
        /\ bytes' \in Nat /\ bytes <= MaxBytes
    BY ByteOK DEF PositionInv
  <2> QED BY <2>1, Sizes DEF Pressed
<1>2. CASE Silent
  <2>1. t' = t
    BY <1>2 DEF Silent
  <2>2. ASSUME OnScreen(t)
        PROVE  /\ Near(t.col, k, k) => Near(t.col, k + 1, k + 1)
               /\ Near(t.col, VGA_WIDTH, k) => Near(t.col, VGA_WIDTH, k + 1)
    <3>1. t.col \in Nat
      BY <2>2 DEF OnScreen, TermOK
    <3> QED BY <1>1, <3>1 DEF Near
  <2>3. Position'
    BY <1>1, <2>1, <2>2 DEF Position, PositionInv
  <2> QED BY <1>1, <2>3 DEF PositionInv
<1>3. ASSUME NEW s, KeyEcho(s)
      PROVE  PositionInv'
  <2> PICK c : c = Head(s)
    OBVIOUS
  <2>1. t' = terminal_putchar(t, c) /\ (Spared /\ Inside => c # "NL")
    <3>1. Inside => s \in EchoesInside \cup {<<NUL>>}
      BY <1>3 DEF KeyEcho
    <3>2. s \in Seq(EchoChar) \ {<<>>} /\ Head(s) = s[1]
      BY <1>3, EchoTail DEF KeyEcho
    <3>3. Spared /\ Inside => c # "NL"
      BY <3>1, <3>2 DEF Spared, OneCharInside, NUL
    <3> QED BY <1>3, <3>3 DEF KeyEcho, Echo
  <2>2. ASSUME Spared
        PROVE  /\ OnScreen(t')
               /\ main.at = "row" => main.row = t'.row /\ Near(t'.col, k + 1, k + 1)
               /\ main.at = "done" /\ source.call = Banner => Near(t'.col, VGA_WIDTH, k + 1)
    <3>1. /\ OnScreen(t)
          /\ main.at = "row" => main.row = t.row /\ Near(t.col, k, k)
          /\ main.at = "done" /\ source.call = Banner => Near(t.col, VGA_WIDTH, k)
      BY <2>2 DEF PositionInv, Position
    <3>2. OnScreen(t') /\ Moved(t', t, c)
      BY <2>1, <3>1, CharOn
    <3>3. ASSUME main.at = "row" PROVE main.row = t'.row /\ Near(t'.col, k + 1, k + 1)
      <4>1. c # "NL"
        BY <2>1, <2>2, <3>3 DEF Inside
      <4>2. k < VGA_WIDTH
        BY <1>1, <2>2 DEF Spared
      <4> QED BY <1>1, <3>1, <3>2, <3>3, <4>1, <4>2, CharInRow
    <3>4. ASSUME main.at = "done", source.call = Banner PROVE Near(t'.col, VGA_WIDTH, k + 1)
      BY <1>1, <3>1, <3>2, <3>4, CharNear
    <3> QED BY <3>2, <3>3, <3>4
  <2>3. Position'
    BY <1>1, <2>2 DEF Position, PositionInv
  <2> QED BY <1>1, <2>3 DEF PositionInv
<1> QED BY <1>2, <1>3, ByteCases

(* The lines of keys 2 and 3 go on, after a terminal_putchar of kernel_main. *)
LEMMA EchoNextPosition ==
  ASSUME PositionInv, EchoOK, EchoNext
  PROVE  PositionInv'
<1> PICK k : k = Pressed
  OBVIOUS
<1> PICK c : c = Head(echo)
  OBVIOUS
<1>1. /\ MainOK' /\ main' = main /\ source' = source /\ bytes' = bytes /\ c # "BS"
      /\ t' = terminal_putchar(t, c)
  BY EchoNextOK DEF PositionInv, EchoNext, Echo
<1>2. k \in Nat /\ k <= MaxBytes /\ Pressed' = k
  BY <1>1, PressedRange DEF PositionInv, Pressed
<1>3. OneCharInside => main.at # "row"
  BY DEF EchoOK, EchoNext, Inside
<1>4. ASSUME Spared
      PROVE  /\ OnScreen(t')
             /\ main.at = "done" /\ source.call = Banner => Near(t'.col, VGA_WIDTH, k)
  <2>1. /\ OnScreen(t)
        /\ main.at = "done" /\ source.call = Banner => Near(t.col, VGA_WIDTH, k)
    BY <1>4 DEF PositionInv, Position
  <2>2. OnScreen(t') /\ Moved(t', t, c)
    BY <1>1, <2>1, CharOn
  <2> QED BY <1>1, <1>2, <2>1, <2>2, LineNear
<1>5. Position'
  BY <1>1, <1>2, <1>3, <1>4 DEF Position, PositionInv, Spared
<1> QED BY <1>1, <1>5 DEF PositionInv

(* Whatever bytes come inside of kernel_main's terminal_putchar, keys that print a
   newline there (Enter, 2 and 3) and more keys than a row has places excepted: once
   the banner is printed the position is on the screen again. *)
THEOREM PositionRecovers == ConsoleSpec => []Recovers
<1>1. ConsoleInit => PositionInv /\ ScreenInv /\ EchoOK
  BY PositionInit, ScreenInit, EchoInit
<1>2. ScreenInv /\ EchoOK /\ [ConsoleNext]_consoleVars => ScreenInv' /\ EchoOK'
  BY TestSync, ColumnSync, RowSync, PutSync, AdvanceSync, ByteSync, EchoNextSync, StutterSync,
     EchoStep DEF ConsoleNext, Main, MainLoop
<1>3. ASSUME PositionInv, ScreenInv, EchoOK, [ConsoleNext]_consoleVars PROVE PositionInv'
  <2>1. MainOK'
    BY <1>2, <1>3 DEF ScreenInv
  <2>2. CASE UNCHANGED consoleVars
    <3>1. t' = t /\ main' = main /\ bytes' = bytes /\ source' = source
      BY <2>2 DEF consoleVars
    <3> QED BY <1>3, <2>1, <3>1 DEF PositionInv, Position, Pressed
  <2> QED BY <1>3, <2>1, <2>2, TestPosition, ColumnPosition, RowPosition, PutPosition,
             AdvancePosition, BytePosition, EchoNextPosition DEF ConsoleNext, Main, MainLoop
<1>4. PositionInv => Recovers
  <2>1. SUFFICES ASSUME PositionInv, main.at = "done", source.call = Banner, Spared
                 PROVE  /\ t.row < VGA_HEIGHT
                        /\ t.col <= VGA_WIDTH \/ t.col >= SIZE_RANGE - MaxBytes
    BY DEF Recovers, Spared
  <2>2. OnScreen(t) /\ Near(t.col, VGA_WIDTH, Pressed)
    BY <2>1 DEF PositionInv, Position
  <2>3. Pressed \in Nat /\ Pressed <= MaxBytes /\ MaxBytes \in Nat /\ SIZE_RANGE \in Nat
    BY <2>1, PressedRange DEF PositionInv
  <2>4. t.row < VGA_HEIGHT /\ t.col \in Nat
    BY <2>2 DEF OnScreen, TermOK
  <2> QED BY <2>2, <2>3, <2>4 DEF Near
<1> QED BY <1>1, <1>2, <1>3, <1>4, PTL DEF ConsoleSpec

-----------------------------------------------------------------------------
(* In the console the keyboard handler does what Keyboard says: whatever its echo
   interrupts, each of its steps is one of Keyboard's, and kernel_main takes none.
   What is proved of Keyboard's Spec so holds in the console. *)
THEOREM KeyboardWithin == ConsoleSpec => Spec
<1>1. ConsoleInit => Init
  BY DEF ConsoleInit
<1>2. ASSUME [ConsoleNext]_consoleVars PROVE [Next]_vars
  <2>1. CASE Byte
    <3>1. CASE acks = 0 /\ Key
      BY <3>1 DEF Key, KeyCode, Next
    <3>2. CASE Ack
      BY <3>2 DEF Next
    <3> QED BY <2>1, <3>1, <3>2 DEF Byte
  <2>2. CASE Main
    BY <2>2 DEF Main, Test, NewlineColumn, NewlineRow, Put, AdvanceColumn
  <2>3. CASE MainLoop \/ UNCHANGED consoleVars
    BY <2>3 DEF MainLoop, consoleVars
  <2>4. CASE EchoNext
    BY <2>4 DEF EchoNext
  <2> QED BY <1>2, <2>1, <2>2, <2>3, <2>4 DEF ConsoleNext
<1> QED BY <1>1, <1>2, PTL DEF ConsoleSpec, Spec

-----------------------------------------------------------------------------
(* The keyboard by itself.                                                 *)

(* No answer is outstanding when a lock key asks for the next two. *)
KeyboardInv == TypeOK /\ kb_count = 0

(* Storing the byte alone keeps the counters in range. *)
LEMMA RawRange ==
  ASSUME KeyboardInv, StoreRawOnly
  PROVE  /\ kb_count' = 0 /\ kb_count_raw' \in 0..(KB_MAXBUFFER + 1)
         /\ wrote_raw' \in {None} \cup 0..(KB_MAXBUFFER - 1)
         /\ wrote' \in {None} \cup 0..KB_MAXBUFFER
  BY KeyboardAssumption DEF KeyboardInv, TypeOK, StoreRawOnly, RawPosition, AfterRaw

(* So does storing the byte and the character, one further. *)
LEMMA CharRange ==
  ASSUME KeyboardInv, StoreRawAndChar
  PROVE  /\ kb_count' = 0 /\ kb_count_raw' \in 0..(KB_MAXBUFFER + 1)
         /\ wrote_raw' \in {None} \cup 0..(KB_MAXBUFFER - 1)
         /\ wrote' \in {None} \cup 0..KB_MAXBUFFER
  BY KeyboardAssumption DEF KeyboardInv, TypeOK, StoreRawAndChar, RawPosition, AfterRaw

(* Every byte from the keyboard keeps the invariant. *)
LEMMA KeyboardStep ==
  ASSUME KeyboardInv, [Next]_vars
  PROVE  KeyboardInv'
<1>1. ASSUME NEW key \in KeySet, acks = 0, Press(key)
      PROVE  KeyboardInv'
  <2>1. StoreRawOnly \/ StoreRawAndChar
    BY <1>1 DEF Press
  <2>2. /\ kb_count' = 0 /\ kb_count_raw' \in 0..(KB_MAXBUFFER + 1)
        /\ wrote_raw' \in {None} \cup 0..(KB_MAXBUFFER - 1)
        /\ wrote' \in {None} \cup 0..KB_MAXBUFFER
    BY <2>1, RawRange, CharRange
  <2>3. kb_ltmp' \subseteq Locks /\ acks' \in 0..2
    BY <1>1 DEF Press, KeyboardInv, TypeOK
  <2>4. kb_shift_flag' \in BOOLEAN /\ kb_caps_flag' \in BOOLEAN
    BY <1>1 DEF Press, KeyboardInv, TypeOK
  <2>5. down' \subseteq KeySet
    BY <1>1 DEF Press, KeyboardInv, TypeOK
  <2>6. prefix' \in BOOLEAN /\ pretended' \in BOOLEAN
    BY <1>1 DEF Press, KeyboardInv, TypeOK
  <2> QED  BY <2>2, <2>3, <2>4, <2>5, <2>6, KeyboardAssumption DEF KeyboardInv, TypeOK
<1>2. ASSUME NEW key \in KeySet, Break(key)
      PROVE  KeyboardInv'
  <2>1. /\ kb_count' = 0 /\ kb_count_raw' \in 0..(KB_MAXBUFFER + 1)
        /\ wrote_raw' \in {None} \cup 0..(KB_MAXBUFFER - 1)
        /\ wrote' \in {None} \cup 0..KB_MAXBUFFER
    BY <1>2, RawRange DEF Break
  <2>2. kb_shift_flag' \in BOOLEAN
    BY <1>2 DEF Break, KeyboardInv, TypeOK
  <2> QED  BY <1>2, <2>1, <2>2, KeyboardAssumption DEF Break, KeyboardInv, TypeOK
<1>5. ASSUME Prefix \/ \E on \in BOOLEAN : FakeShift(on)
      PROVE  KeyboardInv'
  <2>1. StoreRawOnly /\ kb_shift_flag' \in BOOLEAN /\ prefix' \in BOOLEAN /\ pretended' \in BOOLEAN
    BY <1>5 DEF Prefix, FakeShift, KeyboardInv, TypeOK
  <2>2. kb_ltmp' = kb_ltmp /\ kb_caps_flag' = kb_caps_flag /\ down' = down /\ acks' = acks
    BY <1>5 DEF Prefix, FakeShift
  <2>3. /\ kb_count' = 0 /\ kb_count_raw' \in 0..(KB_MAXBUFFER + 1)
        /\ wrote_raw' \in {None} \cup 0..(KB_MAXBUFFER - 1)
        /\ wrote' \in {None} \cup 0..KB_MAXBUFFER
    BY <2>1, RawRange
  <2> QED  BY <2>1, <2>2, <2>3, KeyboardAssumption DEF KeyboardInv, TypeOK
<1>3. ASSUME Ack
      PROVE  KeyboardInv'
  <2>1. /\ kb_count' = 0 /\ kb_count_raw' \in 0..(KB_MAXBUFFER + 1)
        /\ wrote_raw' \in {None} \cup 0..(KB_MAXBUFFER - 1)
        /\ wrote' \in {None} \cup 0..KB_MAXBUFFER
    BY <1>3, RawRange DEF Ack
  <2> QED  BY <1>3, <2>1, KeyboardAssumption DEF Ack, KeyboardInv, TypeOK
<1>4. CASE UNCHANGED vars
  BY <1>4 DEF vars, KeyboardInv, TypeOK
<1> QED  BY <1>1, <1>2, <1>3, <1>4, <1>5 DEF Next, KeyCode

(* The raw counter gets at most one past the buffer, and the handler writes
   at most one position behind it, whatever keys are pressed. *)
THEOREM CountersBounded == Spec => []TypeOK
<1>1. Init => KeyboardInv
  <2> SUFFICES ASSUME Init  PROVE KeyboardInv
    OBVIOUS
  <2>1. /\ kb_count = 0 /\ kb_count \in 0..KB_MAXBUFFER
        /\ kb_count_raw \in 0..(KB_MAXBUFFER + 1) /\ acks \in 0..2
    BY KeyboardAssumption DEF Init
  <2>2. /\ wrote_raw \in {None} \cup 0..(KB_MAXBUFFER - 1)
        /\ wrote \in {None} \cup 0..KB_MAXBUFFER
    BY DEF Init
  <2>3. kb_ltmp \subseteq Locks /\ down \subseteq KeySet
    BY DEF Init
  <2>4. /\ kb_shift_flag \in BOOLEAN /\ kb_caps_flag \in BOOLEAN
        /\ prefix \in BOOLEAN /\ pretended \in BOOLEAN
    BY DEF Init
  <2> QED  BY <2>1, <2>2, <2>3, <2>4 DEF KeyboardInv, TypeOK
<1>2. KeyboardInv /\ [Next]_vars => KeyboardInv'
  BY KeyboardStep
<1>3. KeyboardInv => TypeOK
  BY DEF KeyboardInv
<1> QED  BY <1>1, <1>2, <1>3, PTL DEF Spec

(* While the shift flag is on, a shift key is held down or the last code of a shift
   that came behind 0xE0 was a make code, for every sequence of bytes. *)
THEOREM ShiftNeverSticks == Spec => []ShiftHeld
<1>1. Init => ShiftHeld
  BY DEF Init, ShiftHeld
<1>2. ShiftHeld /\ [Next]_vars => ShiftHeld'
  <2> SUFFICES ASSUME ShiftHeld, [Next]_vars  PROVE ShiftHeld'
    OBVIOUS
  <2>1. ASSUME NEW key \in KeySet, Press(key)  PROVE ShiftHeld'
    BY <2>1 DEF Press, ShiftHeld
  <2>2. ASSUME NEW key \in KeySet, Break(key)  PROVE ShiftHeld'
    BY <2>2 DEF Break, ShiftHeld
  <2>3. ASSUME Ack \/ Prefix  PROVE ShiftHeld'
    BY <2>3 DEF Ack, Prefix, ShiftHeld
  <2>5. ASSUME NEW on \in BOOLEAN, FakeShift(on)  PROVE ShiftHeld'
    BY <2>5 DEF FakeShift, ShiftHeld
  <2>4. CASE UNCHANGED vars
    BY <2>4 DEF vars, ShiftHeld
  <2> QED  BY <2>1, <2>2, <2>3, <2>4, <2>5 DEF Next, KeyCode
<1> QED  BY <1>1, <1>2, PTL DEF Spec

(* So neither happens while kernel_main prints and echoes come in between. *)
THEOREM KeyboardInConsole == ConsoleSpec => [](TypeOK /\ ShiftHeld)
BY KeyboardWithin, CountersBounded, ShiftNeverSticks, PTL

-----------------------------------------------------------------------------
(* Induction on numbers, and functions defined by iteration.               *)

(* A non-empty set of naturals has a least element. *)
LEMMA LeastElement ==
  ASSUME NEW S \in SUBSET Nat, S # {}
  PROVE  \E x \in S : \A y \in S : x <= y
<1>1. IsWellFoundedOn(OpToRel(<, Nat), Nat)
  BY NatLessThanWellFounded
<1>2. PICK x \in S : \A y \in S : ~(<<y, x>> \in OpToRel(<, Nat))
  BY <1>1, WFMin
<1>3. \A y \in S : ~(y < x)
  BY <1>2 DEF OpToRel
<1>4. QED
  BY <1>3

(* A set of naturals with 0 and all successors of its members has them all. *)
LEMMA Induction ==
  ASSUME NEW S \in SUBSET Nat, 0 \in S, \A k \in S : k + 1 \in S
  PROVE  S = Nat
<1>1. SUFFICES ASSUME Nat \ S # {} PROVE FALSE
  OBVIOUS
<1>2. PICK k \in Nat \ S : \A l \in Nat \ S : k <= l
  <2>1. Nat \ S \in SUBSET Nat
    OBVIOUS
  <2> QED BY <1>1, <2>1, LeastElement
<1>3. k # 0 /\ k - 1 \in Nat /\ k - 1 \in S /\ (k - 1) + 1 = k
  BY <1>2
<1> QED BY <1>2, <1>3

(* What an iteration of step from a on has up to n. *)
Iterates(A, a, step, n, h) ==
  /\ h \in [0..n -> A] /\ h[0] = a
  /\ \A k \in 0..(n - 1) : h[k + 1] = step[h[k]]

(* Two iterations agree as far as both go. *)
LEMMA IterationUnique ==
  ASSUME NEW A, NEW a \in A, NEW step \in [A -> A], NEW n \in Nat, NEW m \in Nat,
         NEW h, NEW i, Iterates(A, a, step, n, h), Iterates(A, a, step, m, i)
  PROVE  \A k \in Nat : k <= n /\ k <= m => h[k] = i[k]
<1> DEFINE S == {k \in Nat : k <= n /\ k <= m /\ h[k] # i[k]}
<1>1. SUFFICES ASSUME S # {} PROVE FALSE
  OBVIOUS
<1>2. PICK k \in S : \A l \in S : k <= l
  BY <1>1, LeastElement
<1>3. k # 0
  BY <1>2 DEF Iterates
<1>4. k - 1 \in Nat /\ k - 1 \notin S
  BY <1>2, <1>3
<1>5. h[k - 1] = i[k - 1] /\ k - 1 \in 0..(n - 1) /\ k - 1 \in 0..(m - 1)
  BY <1>2, <1>3, <1>4
<1>6. (k - 1) + 1 = k
  BY <1>2
<1>7. h[k] = step[h[k - 1]] /\ i[k] = step[i[k - 1]]
  BY <1>5, <1>6 DEF Iterates
<1> QED BY <1>2, <1>5, <1>7

(* An iteration can go as far as one likes. *)
LEMMA IterationExists ==
  ASSUME NEW A, NEW a \in A, NEW step \in [A -> A], NEW n \in Nat
  PROVE  \E h : Iterates(A, a, step, n, h)
<1> DEFINE S == {k \in Nat : ~ \E h : Iterates(A, a, step, k, h)}
<1>1. SUFFICES ASSUME S # {} PROVE FALSE
  OBVIOUS
<1>2. PICK k \in S : \A l \in S : k <= l
  BY <1>1, LeastElement
<1>3. k # 0
  <2>1. Iterates(A, a, step, 0, [l \in 0..0 |-> a])
    BY DEF Iterates
  <2> QED BY <1>2, <2>1
<1>4. k - 1 \in Nat /\ k - 1 \notin S
  BY <1>2, <1>3
<1>5. PICK h : Iterates(A, a, step, k - 1, h)
  BY <1>4
<1> DEFINE g == [l \in 0..k |-> IF l = k THEN step[h[k - 1]] ELSE h[l]]
<1>6. h \in [0..(k - 1) -> A] /\ h[0] = a /\ \A l \in 0..(k - 1 - 1) : h[l + 1] = step[h[l]]
  BY <1>5 DEF Iterates
<1>7. \A l \in 0..(k - 1) : l \in 0..k /\ l # k /\ g[l] = h[l] /\ h[l] \in A
  BY <1>2, <1>4, <1>6
<1>8. g[k] = step[h[k - 1]] /\ g[k] \in A
  BY <1>2, <1>4, <1>6
<1>9. g \in [0..k -> A] /\ g[0] = a
  BY <1>2, <1>4, <1>6, <1>7, <1>8
<1>10. ASSUME NEW l \in 0..(k - 1)
       PROVE  g[l + 1] = step[g[l]]
  <2>1. CASE l = k - 1
    BY <1>2, <1>7, <1>8, <2>1
  <2>2. CASE l # k - 1
    <3>1. l \in 0..(k - 1 - 1) /\ l + 1 \in 0..(k - 1)
      BY <1>2, <1>4, <2>2
    <3> QED BY <1>6, <1>7, <3>1
  <2> QED BY <2>1, <2>2
<1>11. Iterates(A, a, step, k, g)
  BY <1>9, <1>10 DEF Iterates
<1> QED BY <1>2, <1>11

(* f starts with a and goes on with step for ever. *)
Goes(A, a, step, f) == f \in [Nat -> A] /\ f[0] = a /\ \A k \in Nat : f[k + 1] = step[f[k]]

(* So there is a function that starts with a and goes on with step for ever. *)
LEMMA Iteration ==
  ASSUME NEW A, NEW a \in A, NEW step \in [A -> A]
  PROVE  \E f : Goes(A, a, step, f)
<1> DEFINE h(n) == CHOOSE g : Iterates(A, a, step, n, g)
           f == [n \in Nat |-> h(n)[n]]
<1>1. ASSUME NEW n \in Nat PROVE Iterates(A, a, step, n, h(n))
  BY IterationExists
<1>2. ASSUME NEW n \in Nat PROVE h(n)[n] \in A
  BY <1>1 DEF Iterates
<1>3. h(0)[0] = a
  BY <1>1 DEF Iterates
<1>4. ASSUME NEW k \in Nat PROVE h(k + 1)[k + 1] = step[h(k)[k]]
  <2>1. Iterates(A, a, step, k + 1, h(k + 1)) /\ Iterates(A, a, step, k, h(k))
    BY <1>1
  <2> HIDE DEF h
  <2>2. h(k + 1)[k] = h(k)[k]
    <3>1. k + 1 \in Nat /\ k <= k + 1 /\ k <= k
      OBVIOUS
    <3> QED BY <2>1, <3>1, IterationUnique
  <2>3. k \in 0..(k + 1 - 1)
    OBVIOUS
  <2> QED BY <2>1, <2>2, <2>3 DEF Iterates
<1> HIDE DEF h
<1>5. f \in [Nat -> A] /\ f[0] = a /\ \A k \in Nat : f[k + 1] = step[f[k]]
  BY <1>2, <1>3, <1>4
<1> QED BY <1>5 DEF Goes

-----------------------------------------------------------------------------
(* Numbers.                                                                *)

(* Power(base, n) is base to the n. *)
LEMMA PowerSteps ==
  ASSUME NEW base \in Nat
  PROVE  /\ Power(base, 0) = 1
         /\ \A n \in Nat : Power(base, n) \in Nat /\ Power(base, n + 1) = base * Power(base, n)
<1> DEFINE step == [x \in Nat |-> base * x]
           p == CHOOSE f : f = [k \in Nat |-> IF k = 0 THEN 1 ELSE base * f[k - 1]]
<1>1. step \in [Nat -> Nat] /\ \A x \in Nat : step[x] = base * x
  OBVIOUS
<1> HIDE DEF step
<1>2. PICK f : Goes(Nat, 1, step, f)
  BY <1>1, Iteration
<1>3. ASSUME NEW k \in Nat PROVE f[k] = IF k = 0 THEN 1 ELSE base * f[k - 1]
  <2>1. CASE k = 0
    BY <1>2, <2>1 DEF Goes
  <2>2. CASE k # 0
    <3>1. k - 1 \in Nat /\ (k - 1) + 1 = k
      BY <2>2
    <3>2. f[k - 1] \in Nat /\ f[(k - 1) + 1] = step[f[k - 1]]
      BY <1>2, <3>1 DEF Goes
    <3> QED BY <1>1, <2>2, <3>1, <3>2
  <2> QED BY <2>1, <2>2
<1>4. f = [k \in Nat |-> IF k = 0 THEN 1 ELSE base * f[k - 1]]
  BY <1>2, <1>3 DEF Goes
<1>5. p = [k \in Nat |-> IF k = 0 THEN 1 ELSE base * p[k - 1]]
  BY <1>4, Zenon
<1>6. \A n : Power(base, n) = p[n]
  BY DEF Power
<1> HIDE DEF p
<1>7. ASSUME NEW k \in Nat PROVE p[k] = IF k = 0 THEN 1 ELSE base * p[k - 1]
  BY <1>5, Zenon
<1>8. ASSUME NEW k \in Nat PROVE p[k] \in Nat
  <2> DEFINE S == {n \in Nat : p[n] \in Nat}
  <2>1. 0 \in S
    BY <1>7
  <2>2. ASSUME NEW n \in S PROVE n + 1 \in S
    <3>1. n + 1 \in Nat /\ n + 1 # 0 /\ n + 1 - 1 = n /\ p[n] \in Nat
      OBVIOUS
    <3>2. p[n + 1] = base * p[n]
      BY <1>7, <3>1
    <3> QED BY <3>1, <3>2
  <2>3. S \in SUBSET Nat
    OBVIOUS
  <2>4. S = Nat
    <3> HIDE DEF S
    <3> QED BY <2>1, <2>2, <2>3, Induction
  <2> QED BY <2>4
<1>9. ASSUME NEW n \in Nat PROVE p[n] \in Nat /\ p[n + 1] = base * p[n]
  <2>1. p[n] \in Nat
    BY <1>8
  <2>2. n + 1 \in Nat /\ n + 1 # 0 /\ n + 1 - 1 = n
    OBVIOUS
  <2> QED BY <1>7, <2>1, <2>2
<1>10. p[0] = 1
  BY <1>7
<1> QED BY <1>6, <1>9, <1>10

-----------------------------------------------------------------------------
(* Quotients and powers.                                                   *)

(* Multiplication keeps the order. *)
LEMMA Times ==
  ASSUME NEW a \in Nat, NEW b \in Nat, NEW c \in Nat, a <= b
  PROVE  c * a \in Nat /\ c * b \in Nat /\ c * a <= c * b
<1>1. PICK d \in Nat : b = a + d
  <2>1. b - a \in Nat /\ b = a + (b - a)
    OBVIOUS
  <2> QED BY <2>1
<1>2. c * b = c * a + c * d /\ c * d \in Nat /\ c * a \in Nat
  BY <1>1
<1> QED BY <1>2

(* The quotient, by its remainder. *)
LEMMA Quotient ==
  ASSUME NEW a \in Nat, NEW b \in Nat \ {0}
  PROVE  \E r \in 0..(b - 1) : a \div b \in Nat /\ b * (a \div b) \in Nat /\ a = b * (a \div b) + r
<1> DEFINE d == a \div b
           e == a % b
<1>1. d \in Int /\ e \in Nat /\ e < b /\ a = b * d + e
  OBVIOUS
<1>2. ASSUME NEW q \in Int, NEW r \in 0..(b - 1), a = b * q + r
      PROVE  q \in Nat
  <2>1. SUFFICES ASSUME q < 0 PROVE FALSE
    OBVIOUS
  <2>2. PICK p \in Nat : q = -(p + 1)
    <3>1. -(q + 1) \in Nat /\ q = -(-(q + 1) + 1)
      BY <2>1
    <3> QED BY <3>1
  <2>3. b * p \in Nat /\ b * q = -(b * p) - b
    BY <2>2
  <2>4. a = -(b * p) - b + r
    BY <1>2, <2>3
  <2> QED BY <2>3, <2>4
<1>3. a \div b \in Nat
  BY <1>1, <1>2
<1>4. b * (a \div b) \in Nat
  BY <1>3
<1> QED BY <1>1, <1>3, <1>4

(* A quotient is below c when the number is below b * c. *)
LEMMA QuotientBelow ==
  ASSUME NEW a \in Nat, NEW b \in Nat \ {0}, NEW c \in Nat
  PROVE  a \div b < c <=> a < b * c
<1>1. PICK r \in 0..(b - 1) : a \div b \in Nat /\ b * (a \div b) \in Nat /\ a = b * (a \div b) + r
  BY Quotient
<1>2. ASSUME NEW q \in Nat, q < c
      PROVE  b * q + b <= b * c /\ b * c \in Nat
  <2>1. q + 1 \in Nat /\ q + 1 <= c /\ b * (q + 1) = b * q + b
    BY <1>2
  <2> QED BY <2>1, Times
<1>3. ASSUME NEW q \in Nat, c <= q
      PROVE  b * c <= b * q
  BY <1>3, Times
<1>4. CASE a \div b < c
  <2>1. b * (a \div b) + b <= b * c /\ b * c \in Nat
    BY <1>1, <1>2, <1>4
  <2> QED BY <1>1, <1>4, <2>1
<1>5. CASE c <= a \div b
  <2>1. b * c <= b * (a \div b) /\ b * c \in Nat
    BY <1>1, <1>3, <1>5
  <2> QED BY <1>1, <1>5, <2>1
<1> QED BY <1>1, <1>4, <1>5

(* Dividing by b and then by c is dividing by their product. *)
LEMMA QuotientTwice ==
  ASSUME NEW a \in Nat, NEW b \in Nat \ {0}, NEW c \in Nat \ {0}
  PROVE  (a \div b) \div c = a \div (b * c)
<1>1. b * c \in Nat \ {0} /\ a \div b \in Nat
  <2>1. b * c >= b * 1
    BY Times
  <2>2. \E r \in 0..(b - 1) : a \div b \in Nat /\ b * (a \div b) \in Nat /\ a = b * (a \div b) + r
    BY Quotient
  <2> QED BY <2>1, <2>2
<1>2. (a \div b) \div c \in Nat /\ a \div (b * c) \in Nat
  BY <1>1, Quotient
<1>3. ASSUME NEW x \in Nat
      PROVE  (a \div b) \div c < x <=> a \div (b * c) < x
  <2>1. (a \div b) \div c < x <=> a \div b < c * x
    BY <1>1, QuotientBelow
  <2>2. a \div b < c * x <=> a < b * (c * x)
    BY QuotientBelow
  <2>3. a \div (b * c) < x <=> a < (b * c) * x
    BY <1>1, QuotientBelow
  <2>4. b * (c * x) = (b * c) * x
    OBVIOUS
  <2> QED BY <2>1, <2>2, <2>3, <2>4
<1> QED BY <1>2, <1>3

(* Powers grow, and faster than their exponents. *)
LEMMA PowerGrows ==
  ASSUME NEW base \in Nat, base >= 2, NEW n \in Nat
  PROVE  Power(base, n) \in Nat \ {0} /\ n < Power(base, n) /\ Power(base, n) <= Power(base, n + 1)
<1> DEFINE S == {k \in Nat : k < Power(base, k)}
<1>1. ASSUME NEW k \in Nat PROVE Power(base, k) \in Nat /\ 2 * Power(base, k) <= Power(base, k + 1)
  <2>1. Power(base, k) \in Nat /\ Power(base, k + 1) = base * Power(base, k)
    BY PowerSteps
  <2>2. \A x \in Nat : 2 * x <= base * x
    <3>1. ASSUME NEW x \in Nat PROVE 2 * x <= base * x
      <4>1. x * 2 <= x * base
        BY Times
      <4> QED BY <4>1
    <3> QED BY <3>1
  <2> QED BY <2>1, <2>2
<1>2. 0 \in S
  BY PowerSteps
<1>3. ASSUME NEW k \in S PROVE k + 1 \in S
  <2>1. k \in Nat /\ k < Power(base, k) /\ k + 1 \in Nat
    OBVIOUS
  <2>2. Power(base, k) \in Nat /\ 2 * Power(base, k) <= Power(base, k + 1) /\ Power(base, k + 1) \in Nat
    BY <1>1, <2>1
  <2> QED BY <2>1, <2>2
<1>4. S \in SUBSET Nat
  OBVIOUS
<1>5. S = Nat
  <2> HIDE DEF S
  <2> QED BY <1>2, <1>3, <1>4, Induction
<1>6. n < Power(base, n)
  BY <1>5
<1> QED BY <1>1, <1>6

(* A higher power is not smaller. *)
LEMMA PowerOrder ==
  ASSUME NEW base \in Nat, base >= 2, NEW n \in Nat, NEW m \in Nat, n <= m
  PROVE  Power(base, n) <= Power(base, m)
<1> DEFINE S == {k \in Nat : Power(base, n) <= Power(base, n + k)}
<1>1. 0 \in S
  BY PowerSteps
<1>2. ASSUME NEW k \in S PROVE k + 1 \in S
  <2>1. k \in Nat /\ k + 1 \in Nat /\ n + k \in Nat /\ n + (k + 1) = (n + k) + 1 /\ n + k + 1 \in Nat
    OBVIOUS
  <2>2. Power(base, n + k) <= Power(base, (n + k) + 1) /\ Power(base, n) <= Power(base, n + k)
    BY <2>1, PowerGrows
  <2>3. Power(base, n + k) \in Nat /\ Power(base, n) \in Nat /\ Power(base, (n + k) + 1) \in Nat
    BY <2>1, PowerSteps
  <2> QED BY <2>1, <2>2, <2>3
<1>3. S \in SUBSET Nat
  OBVIOUS
<1>4. S = Nat
  <2> HIDE DEF S
  <2> QED BY <1>1, <1>2, <1>3, Induction
<1>5. m - n \in Nat /\ n + (m - n) = m
  OBVIOUS
<1>6. m - n \in S
  BY <1>4, <1>5
<1> QED BY <1>5, <1>6

-----------------------------------------------------------------------------
(* How many digits a number has.                                           *)

(* n is the number of digits of value. *)
IsLength(value, base, n) ==
  /\ n \in Nat \ {0} /\ value < Power(base, n)
  /\ n = 1 \/ value >= Power(base, n - 1)

(* Every number has one number of digits. *)
LEMMA LengthExists ==
  ASSUME NEW base \in Nat, base >= 2, NEW value \in Nat
  PROVE  \E n \in Nat : IsLength(value, base, n)
<1> DEFINE S == {n \in Nat \ {0} : value < Power(base, n)}
<1>1. value + 1 \in S
  <2>1. value + 1 \in Nat \ {0} /\ value + 1 < Power(base, value + 1) /\ Power(base, value + 1) \in Nat
    BY PowerGrows
  <2> QED BY <2>1
<1>2. S \in SUBSET Nat
  OBVIOUS
<1>3. PICK n \in S : \A m \in S : n <= m
  <2> HIDE DEF S
  <2>1. S # {}
    BY <1>1
  <2> QED BY <1>2, <2>1, LeastElement
<1>4. n \in Nat \ {0} /\ value < Power(base, n)
  OBVIOUS
<1>5. ASSUME n # 1 PROVE value >= Power(base, n - 1)
  <2>1. n - 1 \in Nat \ {0} /\ n - 1 < n
    BY <1>4, <1>5
  <2>2. n - 1 \notin S
    BY <1>3, <1>4, <2>1
  <2>3. ~(value < Power(base, n - 1)) /\ Power(base, n - 1) \in Nat
    BY <2>1, <2>2, PowerSteps
  <2> QED BY <2>3
<1> QED BY <1>4, <1>5 DEF IsLength

(* And only one. *)
LEMMA LengthUnique ==
  ASSUME NEW base \in Nat, base >= 2, NEW value \in Nat, NEW n, NEW m,
         IsLength(value, base, n), IsLength(value, base, m)
  PROVE  n = m
<1>1. ASSUME NEW i, NEW j, IsLength(value, base, i), IsLength(value, base, j), i < j
      PROVE  FALSE
  <2>1. i \in Nat /\ j \in Nat /\ j - 1 \in Nat /\ i <= j - 1 /\ j # 1
    BY <1>1 DEF IsLength
  <2>2. value < Power(base, i) /\ Power(base, j - 1) <= value
    <3>1. value >= Power(base, j - 1) /\ Power(base, j - 1) \in Nat
      BY <1>1, <2>1, PowerSteps DEF IsLength
    <3> QED BY <1>1, <3>1 DEF IsLength
  <2>3. Power(base, i) <= Power(base, j - 1)
    BY <2>1, PowerOrder
  <2>4. Power(base, i) \in Nat /\ Power(base, j - 1) \in Nat
    BY <2>1, PowerSteps
  <2> QED BY <2>2, <2>3, <2>4
<1>2. n \in Nat /\ m \in Nat
  BY DEF IsLength
<1> QED BY <1>1, <1>2

(* A number that has a second digit has one more than its quotient by the base. *)
LEMMA LengthStep ==
  ASSUME NEW base \in Nat, base >= 2, NEW value \in Nat, base <= value,
         NEW n \in Nat, IsLength(value \div base, base, n)
  PROVE  IsLength(value, base, 1 + n)
<1>1. n \in Nat \ {0} /\ 1 + n \in Nat \ {0} /\ (1 + n) - 1 = n /\ 1 + n # 1
  BY DEF IsLength
<1>2. value < Power(base, n + 1)
  <2>1. Power(base, n) \in Nat /\ Power(base, n + 1) = base * Power(base, n)
    BY PowerSteps
  <2>2. value \div base < Power(base, n)
    BY DEF IsLength
  <2> QED BY <2>1, <2>2, QuotientBelow
<1>3. value >= Power(base, n)
  <2>1. CASE n = 1
    <3>1. Power(base, 1) = base * Power(base, 0) /\ Power(base, 0) = 1
      <4>1. Power(base, 0 + 1) = base * Power(base, 0) /\ Power(base, 0) = 1
        BY PowerSteps
      <4> QED BY <4>1
    <3> QED BY <2>1, <3>1
  <2>2. CASE n # 1
    <3>1. n - 1 \in Nat /\ (n - 1) + 1 = n
      BY <1>1
    <3>2. Power(base, n - 1) \in Nat /\ Power(base, n) = base * Power(base, n - 1)
      <4>1. Power(base, (n - 1) + 1) = base * Power(base, n - 1) /\ Power(base, n - 1) \in Nat
        BY <3>1, PowerSteps
      <4> QED BY <3>1, <4>1
    <3>3. value \div base \in Nat /\ value \div base >= Power(base, n - 1)
      <4>1. value \div base >= Power(base, n - 1)
        BY <2>2 DEF IsLength
      <4>2. value \div base \in Nat
        BY Quotient
      <4> QED BY <4>1, <4>2
    <3>4. ~(value \div base < Power(base, n - 1))
      BY <3>2, <3>3
    <3>5. ~(value < base * Power(base, n - 1)) /\ base * Power(base, n - 1) \in Nat
      BY <3>2, <3>4, QuotientBelow
    <3> QED BY <3>2, <3>5
  <2> QED BY <2>1, <2>2
<1>4. 1 + n = n + 1
  OBVIOUS
<1> QED BY <1>1, <1>2, <1>3, <1>4 DEF IsLength

(* DigitCount counts the digits. *)
LEMMA CountRight ==
  ASSUME NEW base \in Nat, base >= 2, NEW value \in Nat
  PROVE  IsLength(value, base, DigitCount(value, base))
<1> DEFINE g == [v \in Nat |-> CHOOSE n \in Nat : IsLength(v, base, n)]
           Count(f) == f = [v \in Nat |-> IF base <= v THEN 1 + f[v \div base] ELSE 1]
           count == CHOOSE f : Count(f)
<1>1. ASSUME NEW v \in Nat PROVE g[v] \in Nat /\ IsLength(v, base, g[v])
  <2>1. \E n \in Nat : IsLength(v, base, n)
    BY LengthExists
  <2> QED BY <2>1
<1>2. ASSUME NEW v \in Nat PROVE v \div base \in Nat /\ (base <= v => v \div base < v)
  <2>1. base \in Nat \ {0}
    OBVIOUS
  <2>2. v \div base \in Nat
    BY <2>1, Quotient
  <2>3. ASSUME base <= v PROVE v < base * v
    <3>1. v * 2 <= v * base
      BY Times
    <3> QED BY <2>3, <3>1
  <2> QED BY <2>1, <2>2, <2>3, QuotientBelow
<1>3. ASSUME NEW v \in Nat, v < base PROVE IsLength(v, base, 1)
  <2>1. Power(base, 0 + 1) = base * Power(base, 0) /\ Power(base, 0) = 1
    BY PowerSteps
  <2>2. Power(base, 1) = base
    BY <2>1
  <2> QED BY <1>3, <2>2 DEF IsLength
<1> HIDE DEF g
<1>4. ASSUME NEW v \in Nat PROVE g[v] = IF base <= v THEN 1 + g[v \div base] ELSE 1
  <2>1. CASE base <= v
    <3>1. IsLength(v, base, 1 + g[v \div base])
      BY <1>1, <1>2, <2>1, LengthStep
    <3> QED BY <1>1, <2>1, <3>1, LengthUnique
  <2>2. CASE ~(base <= v)
    <3>1. IsLength(v, base, 1)
      BY <1>3, <2>2
    <3> QED BY <1>1, <2>2, <3>1, LengthUnique
  <2> QED BY <2>1, <2>2
<1>5. Count(g)
  <2>1. g = [v \in Nat |-> g[v]]
    BY DEF g
  <2> QED BY <1>4, <2>1
<1>6. Count(count)
  BY <1>5, Zenon
<1>7. DigitCount(value, base) = count[value]
  BY DEF DigitCount
<1> HIDE DEF count
<1>8. ASSUME NEW v \in Nat PROVE count[v] = IF base <= v THEN 1 + count[v \div base] ELSE 1
  BY <1>6, Zenon
<1> DEFINE S == {v \in Nat : ~ IsLength(v, base, count[v])}
<1>9. S = {}
  <2>1. SUFFICES ASSUME S # {} PROVE FALSE
    OBVIOUS
  <2>2. PICK v \in S : \A w \in S : v <= w
    BY <2>1, LeastElement
  <2>3. v \in Nat /\ ~ IsLength(v, base, count[v])
    OBVIOUS
  <2>4. CASE base <= v
    <3>1. v \div base \in Nat /\ v \div base \notin S
      BY <1>2, <2>2, <2>3, <2>4
    <3>2. IsLength(v \div base, base, count[v \div base])
      BY <3>1
    <3>3. count[v \div base] \in Nat
      BY <3>2 DEF IsLength
    <3>4. IsLength(v, base, 1 + count[v \div base])
      BY <2>3, <2>4, <3>2, <3>3, LengthStep
    <3> QED BY <1>8, <2>3, <2>4, <3>4
  <2>5. CASE ~(base <= v)
    BY <1>3, <1>8, <2>3, <2>5
  <2> QED BY <2>4, <2>5
<1> QED BY <1>7, <1>9

-----------------------------------------------------------------------------
(* The digits of a number, as convert_integer and Numeral give them.       *)

(* A remainder is at most the number, and the number if that is small. *)
LEMMA Remainder ==
  ASSUME NEW a \in Nat, NEW b \in Nat \ {0}
  PROVE  a % b \in Nat /\ a % b < b /\ a % b <= a /\ (a < b => a % b = a)
<1> DEFINE d == a \div b
           e == a % b
<1>1. e \in Nat /\ e < b /\ a = b * d + e
  OBVIOUS
<1>2. d \in Nat /\ b * d \in Nat
  BY Quotient
<1>3. a < b => d = 0
  <2>1. a \div b < 1 <=> a < b * 1
    BY QuotientBelow
  <2> QED BY <1>2, <2>1
<1> HIDE DEF d
<1>4. a < b => a % b = a
  <2>1. b * 0 = 0
    OBVIOUS
  <2> QED BY <1>1, <1>3, <2>1
<1> QED BY <1>1, <1>2, <1>4

(* The digit of value that has k digits behind it. *)
DigitAt(value, base, k) == Digit[((value \div Power(base, k)) % base) + 1]

(* Digits fills in the last n digits. *)
LEMMA DigitsRight ==
  ASSUME NEW base \in Nat, base >= 2, NEW value \in Nat, NEW n \in Nat
  PROVE  Digits(value, base, n) = [k \in 1..n |-> DigitAt(value, base, n - k)]
<1> DEFINE step == [x \in Nat |-> x \div base]
           Rest(f) == f = [k \in Nat |-> IF k = 0 THEN value ELSE f[k - 1] \div base]
           rest == CHOOSE f : Rest(f)
<1>1. step \in [Nat -> Nat] /\ \A x \in Nat : step[x] = x \div base
  <2>1. ASSUME NEW x \in Nat PROVE x \div base \in Nat
    <3>1. base \in Nat \ {0}
      OBVIOUS
    <3> QED BY <3>1, Quotient
  <2> QED BY <2>1
<1> HIDE DEF step
<1>2. PICK f : Goes(Nat, value, step, f)
  BY <1>1, Iteration
<1>3. ASSUME NEW k \in Nat PROVE f[k] = IF k = 0 THEN value ELSE f[k - 1] \div base
  <2>1. CASE k = 0
    BY <1>2, <2>1 DEF Goes
  <2>2. CASE k # 0
    <3>1. k - 1 \in Nat /\ (k - 1) + 1 = k
      BY <2>2
    <3>2. f[k - 1] \in Nat /\ f[(k - 1) + 1] = step[f[k - 1]]
      BY <1>2, <3>1 DEF Goes
    <3> QED BY <1>1, <2>2, <3>1, <3>2
  <2> QED BY <2>1, <2>2
<1>4. Rest(f)
  BY <1>2, <1>3 DEF Goes
<1>5. Rest(rest)
  BY <1>4, Zenon
<1>6. Digits(value, base, n) = [k \in 1..n |-> Digit[(rest[n - k] % base) + 1]]
  BY DEF Digits
<1> HIDE DEF rest
<1>7. ASSUME NEW k \in Nat PROVE rest[k] = IF k = 0 THEN value ELSE rest[k - 1] \div base
  BY <1>5, Zenon
<1> DEFINE S == {k \in Nat : rest[k] = value \div Power(base, k)}
<1>8. 0 \in S
  <2>1. Power(base, 0) = 1 /\ value \div 1 = value
    BY PowerSteps
  <2> QED BY <1>7, <2>1
<1>9. ASSUME NEW k \in S PROVE k + 1 \in S
  <2>1. k \in Nat /\ k + 1 \in Nat /\ k + 1 # 0 /\ (k + 1) - 1 = k /\ base \in Nat \ {0}
    OBVIOUS
  <2>2. Power(base, k) \in Nat \ {0} /\ Power(base, k + 1) = base * Power(base, k)
    BY <2>1, PowerGrows, PowerSteps
  <2>3. rest[k + 1] = rest[k] \div base /\ rest[k] = value \div Power(base, k)
    BY <1>7, <2>1
  <2>4. (value \div Power(base, k)) \div base = value \div (Power(base, k) * base)
    BY <2>1, <2>2, QuotientTwice
  <2>5. Power(base, k) * base = Power(base, k + 1)
    BY <2>2
  <2> QED BY <2>1, <2>3, <2>4, <2>5
<1>10. S \in SUBSET Nat
  OBVIOUS
<1>11. S = Nat
  <2> HIDE DEF S
  <2> QED BY <1>8, <1>9, <1>10, Induction
<1>12. ASSUME NEW k \in Nat PROVE rest[k] = value \div Power(base, k)
  BY <1>11
<1>13. ASSUME NEW k \in 1..n PROVE Digit[(rest[n - k] % base) + 1] = DigitAt(value, base, n - k)
  <2>1. n - k \in Nat
    OBVIOUS
  <2> QED BY <1>12, <2>1 DEF DigitAt
<1> QED BY <1>6, <1>13

(* The length that Numeral looks for. *)
LEMMA NumeralRight ==
  ASSUME NEW base \in Nat, base >= 2, NEW value \in Nat, value < WORD,
         NEW n, IsLength(value, base, n)
  PROVE  /\ n \in 1..WORD /\ n \in Nat
         /\ Numeral(value, base) = [k \in 1..n |-> DigitAt(value, base, n - k)]
<1>1. n \in 1..WORD
  <2>1. n \in Nat \ {0} /\ WORD \in Nat /\ WORD > 9
    BY PrintfAssumption DEF IsLength
  <2>2. CASE n = 1
    BY <2>1, <2>2
  <2>3. CASE n # 1
    <3>1. n - 1 \in Nat
      BY <2>1
    <3>2. n - 1 < Power(base, n - 1) /\ Power(base, n - 1) \in Nat
      BY <3>1, PowerGrows
    <3>3. Power(base, n - 1) <= value
      BY <2>3, <3>2 DEF IsLength
    <3> QED BY <2>1, <3>2, <3>3
  <2> QED BY <2>2, <2>3
<1> DEFINE L(m) == value < Power(base, m) /\ (m = 1 \/ value >= Power(base, m - 1))
           c == CHOOSE m \in 1..WORD : L(m)
<1>2. ASSUME NEW m \in 1..WORD PROVE L(m) <=> IsLength(value, base, m)
  BY PrintfAssumption DEF IsLength
<1>3. Numeral(value, base) = [k \in 1..c |-> Digit[((value \div Power(base, c - k)) % base) + 1]]
  BY DEF Numeral
<1>4. c = n
  <2>1. L(n)
    BY <1>1, <1>2
  <2> HIDE DEF L
  <2>2. c \in 1..WORD /\ L(c)
    BY <1>1, <2>1
  <2> HIDE DEF c
  <2>3. IsLength(value, base, c)
    BY <1>2, <2>2
  <2> QED BY <2>3, LengthUnique
<1> HIDE DEF c
<1> QED BY <1>1, <1>3, <1>4 DEF DigitAt, IsLength

(* What texts consist of. *)
Character ==
  STRING \cup {Digit[d] : d \in 1..16} \cup {"%", "-"}
    \cup {"h", "l", "L", "j", "z", "t"} \cup {"d", "i", "o", "u", "x", "X", "p", "c", "s"}

(* Digits are characters. *)
LEMMA DigitCharacter ==
  ASSUME NEW base \in Nat, base >= 2, base <= 16, NEW value \in Nat, NEW k \in Nat
  PROVE  DigitAt(value, base, k) \in Character
<1>1. Power(base, k) \in Nat \ {0} /\ base \in Nat \ {0}
  BY PowerGrows
<1>2. value \div Power(base, k) \in Nat
  BY <1>1, Quotient
<1>3. ASSUME NEW x \in Nat PROVE (x % base) + 1 \in 1..16
  <2>1. x % base \in Nat /\ x % base < base
    BY <1>1, Remainder
  <2> QED BY <2>1
<1>4. \A d \in 1..16 : Digit[d] \in Character
  BY DEF Character
<1> QED BY <1>2, <1>3, <1>4 DEF DigitAt

(* convert_integer yields the numeral, and it is a text. *)
LEMMA ConvertRight ==
  ASSUME NEW base \in Nat, base >= 2, base <= 16, NEW value \in Nat, value < WORD
  PROVE  /\ convert_integer(value, base) = Numeral(value, base)
         /\ Numeral(value, base) \in Seq(Character)
<1> DEFINE n == DigitCount(value, base)
<1>1. IsLength(value, base, n)
  BY CountRight
<1> HIDE DEF n
<1>2. n \in Nat /\ Numeral(value, base) = [k \in 1..n |-> DigitAt(value, base, n - k)]
  BY <1>1, NumeralRight
<1>3. convert_integer(value, base) = [k \in 1..n |-> DigitAt(value, base, n - k)]
  BY <1>2, DigitsRight DEF convert_integer, n
<1>4. [k \in 1..n |-> DigitAt(value, base, n - k)] \in Seq(Character)
  <2>1. ASSUME NEW k \in 1..n PROVE DigitAt(value, base, n - k) \in Character
    <3>1. n - k \in Nat
      BY <1>2
    <3> QED BY <3>1, DigitCharacter
  <2> QED BY <1>2, <2>1
<1> QED BY <1>2, <1>3, <1>4

-----------------------------------------------------------------------------
(* The decimal numbers of log_print.                                       *)

(* The recursion of Nines has a solution. *)
LEMMA NinesStep ==
  /\ Nines[0] = 0
  /\ \A k \in Nat : Nines[k] \in 0..(WORD - 1) /\ Nines[k + 1] = (Nines[k] * 10 + 9) % WORD
<1> DEFINE W == 0..(WORD - 1)
           step == [x \in W |-> (x * 10 + 9) % WORD]
           N(f) == f = [k \in Nat |-> IF k = 0 THEN 0 ELSE (f[k - 1] * 10 + 9) % WORD]
<1>1. WORD \in Nat \ {0} /\ 0 \in W
  BY PrintfAssumption
<1>2. step \in [W -> W] /\ \A x \in W : step[x] = (x * 10 + 9) % WORD
  <2>1. ASSUME NEW y \in Nat PROVE y % WORD \in W
    BY <1>1
  <2>2. ASSUME NEW x \in W PROVE x * 10 + 9 \in Nat
    OBVIOUS
  <2> QED BY <2>1, <2>2
<1> HIDE DEF step, W
<1>3. PICK f : Goes(W, 0, step, f)
  BY <1>1, <1>2, Iteration
<1>4. ASSUME NEW k \in Nat PROVE f[k] = IF k = 0 THEN 0 ELSE (f[k - 1] * 10 + 9) % WORD
  <2>1. CASE k = 0
    BY <1>3, <2>1 DEF Goes
  <2>2. CASE k # 0
    <3>1. k - 1 \in Nat /\ (k - 1) + 1 = k
      BY <2>2
    <3>2. f[k - 1] \in W /\ f[(k - 1) + 1] = step[f[k - 1]]
      BY <1>3, <3>1 DEF Goes
    <3> QED BY <1>2, <2>2, <3>1, <3>2
  <2> QED BY <2>1, <2>2
<1>5. N(f)
  BY <1>3, <1>4 DEF Goes
<1>6. Nines = CHOOSE g : N(g)
  BY DEF Nines
<1>7. N(Nines)
  BY <1>5, <1>6, Zenon
<1>8. ASSUME NEW k \in Nat PROVE Nines[k] = IF k = 0 THEN 0 ELSE (Nines[k - 1] * 10 + 9) % WORD
  BY <1>7, Zenon
<1> DEFINE S == {k \in Nat : Nines[k] \in W}
<1>9. 0 \in S
  BY <1>1, <1>8
<1>10. ASSUME NEW k \in Nat PROVE Nines[k + 1] = (Nines[k] * 10 + 9) % WORD
  <2>1. k + 1 \in Nat /\ k + 1 # 0 /\ (k + 1) - 1 = k
    OBVIOUS
  <2> QED BY <1>8, <2>1
<1>11. ASSUME NEW k \in S PROVE k + 1 \in S
  <2>1. k \in Nat /\ k + 1 \in Nat /\ Nines[k] \in W
    OBVIOUS
  <2>2. step[Nines[k]] \in W /\ step[Nines[k]] = (Nines[k] * 10 + 9) % WORD
    BY <1>2, <2>1
  <2> QED BY <1>10, <2>1, <2>2
<1>12. S \in SUBSET Nat
  OBVIOUS
<1>13. S = Nat
  <2> HIDE DEF S
  <2> QED BY <1>9, <1>11, <1>12, Induction
<1>14. ASSUME NEW k \in Nat PROVE Nines[k] \in W
  BY <1>13
<1>15. Nines[0] = 0
  BY <1>8
<1> QED BY <1>10, <1>14, <1>15 DEF W

(* The k-th is at most the number of k nines, and that number as long as it is a word. *)
LEMMA NinesRight ==
  ASSUME NEW k \in Nat
  PROVE  /\ Nines[k] \in 0..(WORD - 1) /\ Nines[k] < Power(10, k)
         /\ Power(10, k) <= WORD => Nines[k] = Power(10, k) - 1
<1> DEFINE Good(n) == Nines[n] < Power(10, n) /\ (Power(10, n) <= WORD => Nines[n] = Power(10, n) - 1)
           S == {n \in Nat : Good(n)}
<1>1. 0 \in S
  <2>1. Power(10, 0) = 1
    BY PowerSteps
  <2>2. Nines[0] = 0
    BY NinesStep
  <2> QED BY <2>1, <2>2
<1>2. ASSUME NEW n \in S PROVE n + 1 \in S
  <2>1. n \in Nat /\ n + 1 \in Nat /\ Good(n) /\ WORD \in Nat /\ WORD > 9
    BY PrintfAssumption
  <2>2. Power(10, n) \in Nat /\ Power(10, n + 1) = 10 * Power(10, n)
    BY <2>1, PowerSteps
  <2>3. Nines[n] \in 0..(WORD - 1) /\ Nines[n + 1] = (Nines[n] * 10 + 9) % WORD
    BY <2>1, NinesStep
  <2>4. ASSUME NEW y \in Nat
        PROVE  y % WORD <= y /\ y % WORD \in Nat /\ (y < WORD => y % WORD = y)
    <3>1. WORD \in Nat \ {0}
      BY <2>1
    <3> QED BY <3>1, Remainder
  <2>5. Nines[n] * 10 + 9 \in Nat /\ Nines[n] * 10 + 9 < 10 * Power(10, n)
    BY <2>1, <2>2, <2>3
  <2>6. Nines[n + 1] < Power(10, n + 1)
    BY <2>2, <2>3, <2>4, <2>5
  <2>7. ASSUME Power(10, n + 1) <= WORD PROVE Nines[n + 1] = Power(10, n + 1) - 1
    <3>1. Nines[n] = Power(10, n) - 1
      BY <2>1, <2>2, <2>7
    <3>2. Nines[n] * 10 + 9 = Power(10, n + 1) - 1 /\ Nines[n] * 10 + 9 < WORD
      BY <2>1, <2>2, <2>7, <3>1
    <3> QED BY <2>3, <2>4, <2>5, <3>2
  <2> QED BY <2>1, <2>6, <2>7
<1>3. S \in SUBSET Nat
  OBVIOUS
<1>4. S = Nat
  <2> HIDE DEF S
  <2> QED BY <1>1, <1>2, <1>3, Induction
<1>5. Good(k)
  BY <1>4
<1> QED BY <1>5, NinesStep

(* How many digits print_dec takes: enough, and no more as long as the number of so
   many nines is a word. *)
LEMMA DecWidthRight ==
  ASSUME NEW value \in 0..(WORD - 1), NEW n, IsLength(value, 10, n)
  PROVE  /\ DecWidth(value) \in Nat /\ n \in Nat /\ n <= DecWidth(value)
         /\ Power(10, n) <= WORD => DecWidth(value) = n
<1> DEFINE Ends(m) == value <= Nines[m] \/ Nines[m] = WORD - 1
           First(w) == Ends(w) /\ \A m \in 1..(w - 1) : value > Nines[m] /\ Nines[m] # WORD - 1
           w == CHOOSE i \in 1..64 : First(i)
           S == {m \in 1..64 : Ends(m)}
<1>1. \E i \in 1..64 : First(i)
  <2>1. S \in SUBSET Nat /\ S # {}
    BY PrintfAssumption
  <2>2. PICK i \in S : \A m \in S : i <= m
    <3> HIDE DEF S
    <3> QED BY <2>1, LeastElement
  <2>3. i \in 1..64 /\ Ends(i)
    OBVIOUS
  <2>4. ASSUME NEW m \in 1..(i - 1) PROVE value > Nines[m] /\ Nines[m] # WORD - 1
    <3>1. m \in 1..64 /\ m < i
      BY <2>3
    <3>2. ~ Ends(m)
      BY <2>2, <3>1
    <3>3. Nines[m] \in 0..(WORD - 1) /\ WORD \in Nat
      BY <3>1, NinesRight, PrintfAssumption
    <3> QED BY <3>2, <3>3
  <2> QED BY <2>3, <2>4
<1>2. DecWidth(value) = w
  BY DEF DecWidth
<1> HIDE DEF S
<1>3. w \in 1..64 /\ First(w)
  <2> HIDE DEF First
  <2> QED BY <1>1
<1> HIDE DEF w
<1>4. n \in Nat \ {0} /\ value < Power(10, n) /\ WORD \in Nat /\ Power(10, n) \in Nat
  BY PrintfAssumption, PowerSteps DEF IsLength
<1>5. Nines[w] \in 0..(WORD - 1) /\ Nines[w] < Power(10, w) /\ Power(10, w) \in Nat /\ w \in Nat
  <2>1. w \in Nat
    BY <1>3
  <2> QED BY <2>1, NinesRight, PowerSteps
<1>6. value < Power(10, w)
  BY <1>3, <1>4, <1>5
<1>7. n <= w
  <2>1. SUFFICES ASSUME w < n PROVE FALSE
    BY <1>4, <1>5
  <2>2. n # 1 /\ n - 1 \in Nat /\ w <= n - 1
    BY <1>3, <1>4, <2>1
  <2>3. Power(10, w) <= Power(10, n - 1) /\ Power(10, n - 1) \in Nat
    BY <1>5, <2>2, PowerOrder, PowerSteps
  <2>4. value >= Power(10, n - 1)
    BY <2>2 DEF IsLength
  <2> QED BY <1>5, <1>6, <2>3, <2>4
<1>8. ASSUME Power(10, n) <= WORD PROVE w <= n
  <2>1. SUFFICES ASSUME n < w PROVE FALSE
    BY <1>4, <1>5
  <2>2. n \in 1..(w - 1)
    BY <1>4, <1>5, <2>1
  <2>3. value > Nines[n]
    BY <1>3, <2>2
  <2>4. Nines[n] = Power(10, n) - 1
    BY <1>4, <1>8, NinesRight
  <2> QED BY <1>4, <2>3, <2>4
<1> QED BY <1>2, <1>4, <1>5, <1>7, <1>8

(* The digits in front of a number's own are zeros. *)
LEMMA LeadingZero ==
  ASSUME NEW base \in Nat, base >= 2, NEW value \in Nat, NEW n, IsLength(value, base, n),
         NEW k \in Nat, n <= k
  PROVE  DigitAt(value, base, k) = "0"
<1>1. n \in Nat /\ value < Power(base, n) /\ Power(base, n) \in Nat
  BY PowerSteps DEF IsLength
<1>2. Power(base, n) <= Power(base, k) /\ Power(base, k) \in Nat \ {0}
  BY <1>1, PowerOrder, PowerGrows
<1>3. value \div Power(base, k) = 0
  <2>1. value < Power(base, k) * 1
    BY <1>1, <1>2
  <2>2. value \div Power(base, k) < 1
    BY <1>2, <2>1, QuotientBelow
  <2>3. value \div Power(base, k) \in Nat
    BY <1>2, Quotient
  <2> QED BY <2>2, <2>3
<1>4. 0 % base = 0
  BY Remainder
<1>5. Digit[0 + 1] = "0"
  BY DEF Digit
<1> QED BY <1>3, <1>4, <1>5 DEF DigitAt

(* What print_dec prints of d, as LogNumbers says it. *)
DecimalRight(d) ==
  LET s == print_dec(d.arg, d.width)
      n == Len(Numeral(d.arg, 10))
      longest == IF n < d.width THEN d.width ELSE n IN
  /\ Len(s) >= longest /\ (Power(10, n) <= WORD => Len(s) = longest)
  /\ \A j \in 1..Len(s) :
       s[j] = IF j <= Len(s) - n THEN "0" ELSE Numeral(d.arg, 10)[j - (Len(s) - n)]

(* print_dec prints a number that can be read back, with zeros up to its width. *)
LEMMA PrintDecRight ==
  ASSUME NEW d, d.arg \in 0..(WORD - 1), d.width \in Nat
  PROVE  DecimalRight(d)
<1> DEFINE value == d.arg
           width == d.width
           w == DecWidth(value)
           z == IF width - w > 0 THEN width - w ELSE 0
           s == print_dec(value, width)
<1>1. PICK n : IsLength(value, 10, n)
  <2>1. value \in Nat
    BY PrintfAssumption
  <2> QED BY <2>1, LengthExists
<1>2. value \in Nat /\ value < WORD
  BY PrintfAssumption
<1>3. n \in Nat /\ Numeral(value, 10) = [k \in 1..n |-> DigitAt(value, 10, n - k)]
  BY <1>1, <1>2, NumeralRight
<1>4. Len(Numeral(value, 10)) = n
  BY <1>3
<1>5. w \in Nat /\ n <= w /\ (Power(10, n) <= WORD => w = n)
  BY <1>1, DecWidthRight
<1> HIDE DEF w, value
<1>6. Digits(value, 10, w) = [k \in 1..w |-> DigitAt(value, 10, w - k)]
  BY <1>2, <1>5, DigitsRight
<1>7. s = Zeros(width - w) \o Digits(value, 10, w)
  BY DEF print_dec, w, value
<1>8. Zeros(width - w) = [k \in 1..z |-> "0"] /\ z \in Nat
  BY <1>5 DEF Zeros
<1> HIDE DEF z, s
<1>9. Len(s) = z + w /\ \A j \in 1..(z + w) : s[j] = IF j <= z THEN "0" ELSE DigitAt(value, 10, w - (j - z))
  <2> DEFINE S == {"0"} \cup {DigitAt(value, 10, k) : k \in Nat}
             a == Zeros(width - w)
             b == Digits(value, 10, w)
  <2>1. a \in Seq(S) /\ Len(a) = z /\ \A j \in 1..z : a[j] = "0"
    BY <1>8
  <2>2. b \in Seq(S) /\ Len(b) = w /\ \A j \in 1..w : b[j] = DigitAt(value, 10, w - j)
    <3>1. ASSUME NEW j \in 1..w PROVE DigitAt(value, 10, w - j) \in S
      <4>1. w - j \in Nat
        BY <1>5
      <4> QED BY <4>1
    <3>2. b = [j \in 1..w |-> DigitAt(value, 10, w - j)]
      BY <1>6
    <3> HIDE DEF S, b
    <3>3. \A j \in 1..w : b[j] = DigitAt(value, 10, w - j)
      BY <3>2
    <3>4. b \in [1..w -> S]
      BY <3>1, <3>2
    <3> QED BY <1>5, <3>3, <3>4
  <2> HIDE DEF S, a, b
  <2>3. s = a \o b
    BY <1>7 DEF a, b
  <2>4. Len(s) = Len(a) + Len(b) /\ \A j \in 1..(Len(a) + Len(b)) :
                                      s[j] = IF j <= Len(a) THEN a[j] ELSE b[j - Len(a)]
    BY <2>1, <2>2, <2>3, ConcatProperties
  <2>5. ASSUME NEW j \in 1..(z + w)
        PROVE  s[j] = IF j <= z THEN "0" ELSE DigitAt(value, 10, w - (j - z))
    <3>1. s[j] = IF j <= z THEN a[j] ELSE b[j - z]
      BY <2>1, <2>2, <2>4
    <3>2. CASE j <= z
      BY <1>8, <2>1, <3>1, <3>2
    <3>3. CASE ~(j <= z)
      <4>1. j - z \in 1..w
        BY <1>5, <1>8, <3>3
      <4> QED BY <2>2, <3>1, <3>3, <4>1
    <3> QED BY <3>2, <3>3
  <2> QED BY <2>1, <2>2, <2>4, <2>5
<1>10. z + w = IF w < width THEN width ELSE w
  BY <1>5 DEF z
<1>11. ASSUME NEW j \in 1..Len(s)
       PROVE  s[j] = IF j <= Len(s) - n THEN "0" ELSE Numeral(value, 10)[j - (Len(s) - n)]
  <2>1. j \in 1..(z + w) /\ j \in Nat
    BY <1>5, <1>8, <1>9
  <2>2. CASE j <= z
    BY <1>3, <1>5, <1>8, <1>9, <2>1, <2>2
  <2>3. CASE j > z /\ j <= z + w - n
    <3>1. w - (j - z) \in Nat /\ n <= w - (j - z)
      BY <1>3, <1>5, <1>8, <2>1, <2>3
    <3>2. DigitAt(value, 10, w - (j - z)) = "0"
      BY <1>1, <1>2, <3>1, LeadingZero
    <3>3. s[j] = "0"
      BY <1>8, <1>9, <2>1, <2>3, <3>2
    <3>4. j <= Len(s) - n
      BY <1>3, <1>5, <1>8, <1>9, <2>3
    <3> QED BY <3>3, <3>4
  <2>4. CASE j > z + w - n
    <3>1. j - (z + w - n) \in 1..n /\ n - (j - (z + w - n)) = w - (j - z) /\ ~(j <= z)
      BY <1>3, <1>5, <1>8, <2>1, <2>4
    <3>2. Numeral(value, 10)[j - (z + w - n)] = DigitAt(value, 10, w - (j - z))
      BY <1>3, <3>1
    <3>3. s[j] = DigitAt(value, 10, w - (j - z))
      BY <1>9, <2>1, <3>1
    <3>4. ~(j <= Len(s) - n) /\ Len(s) = z + w
      BY <1>3, <1>5, <1>8, <1>9, <2>1, <2>4
    <3>5. Numeral(value, 10)[j - (Len(s) - n)] = DigitAt(value, 10, w - (j - z))
      BY <1>3, <1>5, <1>8, <1>9, <3>2, <3>4
    <3> QED BY <3>3, <3>4, <3>5, Zenon
  <2> QED BY <1>3, <1>5, <1>8, <2>1, <2>2, <2>3, <2>4
<1>12. DecimalRight(d) <=>
         LET longest == IF n < width THEN width ELSE n IN
         /\ Len(s) >= longest /\ (Power(10, n) <= WORD => Len(s) = longest)
         /\ \A j \in 1..Len(s) :
              s[j] = IF j <= Len(s) - n THEN "0" ELSE Numeral(value, 10)[j - (Len(s) - n)]
  BY <1>4, Zenon DEF DecimalRight, s, value
<1> QED BY <1>3, <1>5, <1>9, <1>10, <1>11, <1>12

-----------------------------------------------------------------------------
(* Texts joined from parts.                                                *)

(* F has the parts joined, up to each of them. *)
Joins(S, parts, F) ==
  /\ F \in [0..Len(parts) -> Seq(S)] /\ F[0] = <<>>
  /\ \A k \in 1..Len(parts) : F[k] = F[k - 1] \o parts[k]

(* Such a function exists, and Joined takes its last value. *)
LEMMA JoinedRight ==
  ASSUME NEW S, NEW parts \in Seq(Seq(S))
  PROVE  \E F : Joins(S, parts, F) /\ Joined(parts) = F[Len(parts)]
<1> DEFINE n == Len(parts)
           UpTo(i, F) == /\ F \in [0..i -> Seq(S)] /\ F[0] = <<>>
                         /\ \A k \in 1..i : F[k] = F[k - 1] \o parts[k]
           T == {i \in Nat : i <= n => \E F : UpTo(i, F)}
           Eq(F) == F = [k \in 0..n |-> IF k = 0 THEN <<>> ELSE F[k - 1] \o parts[k]]
           f == CHOOSE F : Eq(F)
<1>1. n \in Nat /\ \A k \in 1..n : parts[k] \in Seq(S)
  OBVIOUS
<1>2. 0 \in T
  <2>1. UpTo(0, [k \in 0..0 |-> <<>>])
    OBVIOUS
  <2> QED BY <2>1
<1>3. ASSUME NEW i \in T PROVE i + 1 \in T
  <2>1. i \in Nat /\ i + 1 \in Nat
    OBVIOUS
  <2>2. SUFFICES ASSUME i + 1 <= n PROVE \E F : UpTo(i + 1, F)
    BY <2>1
  <2>3. PICK F : UpTo(i, F)
    <3>1. i <= n
      BY <1>1, <2>1, <2>2
    <3> HIDE DEF UpTo
    <3> QED BY <3>1
  <2> DEFINE G == [k \in 0..(i + 1) |-> IF k = i + 1 THEN F[i] \o parts[i + 1] ELSE F[k]]
  <2>4. F[i] \in Seq(S) /\ parts[i + 1] \in Seq(S)
    BY <1>1, <2>1, <2>2, <2>3
  <2>5. F[i] \o parts[i + 1] \in Seq(S)
    BY <2>4, ConcatProperties
  <2>6. \A k \in 0..i : G[k] = F[k] /\ F[k] \in Seq(S)
    <3>1. \A k \in 0..i : k \in 0..(i + 1) /\ k # i + 1
      BY <2>1
    <3> QED BY <2>3, <3>1
  <2>7. G[i + 1] = F[i] \o parts[i + 1]
    <3>1. i + 1 \in 0..(i + 1)
      BY <2>1
    <3> QED BY <3>1
  <2>8. G \in [0..(i + 1) -> Seq(S)] /\ G[0] = <<>>
    BY <2>1, <2>3, <2>5, <2>6
  <2>9. ASSUME NEW k \in 1..(i + 1) PROVE G[k] = G[k - 1] \o parts[k]
    <3>1. CASE k = i + 1
      <4>1. k - 1 = i /\ i \in 0..i
        BY <2>1, <3>1
      <4> QED BY <2>6, <2>7, <3>1, <4>1
    <3>2. CASE k # i + 1
      <4>1. k \in 1..i /\ k \in 0..i /\ k - 1 \in 0..i
        BY <2>1, <3>2
      <4> QED BY <2>3, <2>6, <4>1
    <3> QED BY <3>1, <3>2
  <2> HIDE DEF G
  <2>10. UpTo(i + 1, G)
    BY <2>8, <2>9
  <2> QED BY <2>10
<1>4. T \in SUBSET Nat
  OBVIOUS
<1>5. T = Nat
  <2> HIDE DEF T
  <2> QED BY <1>2, <1>3, <1>4, Induction
<1>6. PICK F : UpTo(n, F)
  <2> HIDE DEF UpTo
  <2>1. n \in T /\ n <= n
    <3> HIDE DEF T
    <3> QED BY <1>1, <1>5
  <2> QED BY <2>1
<1>7. Eq(F)
  <2>1. ASSUME NEW k \in 0..n PROVE F[k] = IF k = 0 THEN <<>> ELSE F[k - 1] \o parts[k]
    <3>1. CASE k = 0
      BY <1>6, <3>1
    <3>2. CASE k # 0
      <4>1. k \in 1..n
        BY <1>1, <3>2
      <4> QED BY <1>6, <3>2, <4>1
    <3> QED BY <3>1, <3>2
  <2>2. F = [k \in 0..n |-> F[k]]
    BY <1>6
  <2> QED BY <2>1, <2>2
<1>8. Eq(f)
  BY <1>7, Zenon
<1>9. Joined(parts) = f[n]
  BY DEF Joined
<1> HIDE DEF f
<1>10. ASSUME NEW k \in 0..n PROVE f[k] = IF k = 0 THEN <<>> ELSE f[k - 1] \o parts[k]
  BY <1>8, Zenon
<1> DEFINE U == {k \in Nat : k <= n => f[k] \in Seq(S)}
<1>11. 0 \in U
  <2>1. 0 \in 0..n /\ <<>> \in Seq(S)
    BY <1>1
  <2> QED BY <1>10, <2>1
<1>12. ASSUME NEW k \in U PROVE k + 1 \in U
  <2>1. k \in Nat /\ k + 1 \in Nat
    OBVIOUS
  <2>2. SUFFICES ASSUME k + 1 <= n PROVE f[k + 1] \in Seq(S)
    BY <2>1
  <2>3. k + 1 \in 0..n /\ k + 1 # 0 /\ (k + 1) - 1 = k /\ k + 1 \in 1..n /\ k <= n
    BY <1>1, <2>1, <2>2
  <2>4. f[k] \in Seq(S) /\ parts[k + 1] \in Seq(S)
    BY <1>1, <2>3
  <2>5. f[k + 1] = f[k] \o parts[k + 1]
    BY <1>10, <2>3
  <2> QED BY <2>4, <2>5, ConcatProperties
<1>13. U \in SUBSET Nat
  OBVIOUS
<1>14. U = Nat
  <2> HIDE DEF U
  <2> QED BY <1>11, <1>12, <1>13, Induction
<1>15. ASSUME NEW k \in 0..n PROVE f[k] \in Seq(S)
  <2>1. k \in U /\ k <= n
    BY <1>1, <1>14
  <2> QED BY <2>1
<1>16. ASSUME NEW k \in 1..n PROVE f[k] = f[k - 1] \o parts[k]
  <2>1. k \in 0..n /\ k # 0
    BY <1>1
  <2> QED BY <1>10, <2>1
<1>17. f = [k \in 0..n |-> f[k]]
  <2>1. f = [k \in 0..n |-> IF k = 0 THEN <<>> ELSE f[k - 1] \o parts[k]]
    BY <1>8
  <2> QED BY <1>10, <2>1
<1>18. f[0] = <<>>
  <2>1. 0 \in 0..n
    BY <1>1
  <2> QED BY <1>10, <2>1
<1>19. Joins(S, parts, f)
  BY <1>15, <1>16, <1>17, <1>18 DEF Joins
<1> QED BY <1>9, <1>19

(* What is joined first stays in front. *)
LEMMA JoinFront ==
  ASSUME NEW S, NEW parts \in Seq(Seq(S)), NEW F, Joins(S, parts, F),
         NEW i \in 0..Len(parts), NEW m \in i..Len(parts)
  PROVE  /\ F[i] \in Seq(S) /\ F[m] \in Seq(S) /\ Len(F[i]) <= Len(F[m])
         /\ \A j \in 1..Len(F[i]) : F[m][j] = F[i][j]
<1> DEFINE Front(k) == Len(F[i]) <= Len(F[k]) /\ \A j \in 1..Len(F[i]) : F[k][j] = F[i][j]
           T == {d \in Nat : i + d <= Len(parts) => Front(i + d)}
<1>1. Len(parts) \in Nat /\ i \in Nat /\ m \in Nat
  OBVIOUS
<1>2. \A k \in 0..Len(parts) : F[k] \in Seq(S)
  BY DEF Joins
<1>3. 0 \in T
  <2>1. i + 0 = i
    BY <1>1
  <2>2. Len(F[i]) \in Nat
    BY <1>2
  <2> QED BY <2>1, <2>2
<1>4. ASSUME NEW d \in T PROVE d + 1 \in T
  <2>1. d \in Nat /\ d + 1 \in Nat
    OBVIOUS
  <2>2. SUFFICES ASSUME i + (d + 1) <= Len(parts) PROVE Front(i + (d + 1))
    BY <2>1
  <2> DEFINE k == i + (d + 1)
  <2>3. k \in 1..Len(parts) /\ k - 1 = i + d /\ k - 1 \in 0..Len(parts) /\ k \in 0..Len(parts)
    BY <1>1, <2>1, <2>2
  <2>4. Front(k - 1)
    BY <1>1, <2>1, <2>3
  <2> HIDE DEF k
  <2>5. F[k] = F[k - 1] \o parts[k] /\ parts[k] \in Seq(S)
    <3>1. F[k] = F[k - 1] \o parts[k]
      BY <2>3 DEF Joins
    <3>2. parts[k] \in Seq(S)
      BY <2>3
    <3> QED BY <3>1, <3>2
  <2> DEFINE a == F[k - 1]
             b == parts[k]
             c == F[k]
  <2>6. a \in Seq(S) /\ b \in Seq(S) /\ c = a \o b
    BY <1>2, <2>3, <2>5
  <2>7. Len(F[i]) <= Len(a) /\ \A j \in 1..Len(F[i]) : a[j] = F[i][j]
    BY <2>4
  <2>8. Len(F[i]) \in Nat
    BY <1>1, <1>2
  <2> HIDE DEF a, b, c
  <2>9. Len(c) = Len(a) + Len(b)
        /\ \A j \in 1..(Len(a) + Len(b)) : c[j] = IF j <= Len(a) THEN a[j] ELSE b[j - Len(a)]
    BY <2>6, ConcatProperties
  <2>10. Len(a) \in Nat /\ Len(b) \in Nat
    BY <2>6
  <2>11. Len(F[i]) <= Len(c)
    BY <2>7, <2>8, <2>9, <2>10
  <2>12. ASSUME NEW j \in 1..Len(F[i]) PROVE c[j] = F[i][j]
    <3>1. j \in 1..(Len(a) + Len(b)) /\ j <= Len(a) /\ j \in 1..Len(a)
      BY <2>7, <2>8, <2>10
    <3> QED BY <2>7, <2>9, <3>1
  <2>13. Front(k)
    BY <2>11, <2>12 DEF c
  <2> QED BY <2>13 DEF k
<1>5. T \in SUBSET Nat
  OBVIOUS
<1>6. T = Nat
  <2> HIDE DEF T
  <2> QED BY <1>3, <1>4, <1>5, Induction
<1>7. m - i \in Nat /\ i + (m - i) = m /\ m <= Len(parts) /\ m \in 0..Len(parts)
  BY <1>1
<1>8. m - i \in T
  BY <1>6, <1>7
<1>9. Front(m)
  <2>1. Front(i + (m - i))
    BY <1>7, <1>8
  <2> QED BY <1>7, <2>1
<1> QED BY <1>2, <1>7, <1>9

(* Where the characters of a part stand in what is joined. *)
PlacedIn(S, parts, F, i) ==
  /\ F[i] = F[i - 1] \o parts[i] /\ parts[i] \in Seq(S)
  /\ F[i - 1] \in Seq(S) /\ F[i] \in Seq(S) /\ F[Len(parts)] \in Seq(S)
  /\ Len(F[i]) = Len(F[i - 1]) + Len(parts[i]) /\ Len(F[i]) <= Len(F[Len(parts)])
  /\ \A j \in 1..Len(parts[i]) : F[Len(parts)][Len(F[i - 1]) + j] = parts[i][j]

(* Every part stands in what is joined, behind the parts before it. *)
LEMMA JoinPlace ==
  ASSUME NEW S, NEW parts \in Seq(Seq(S)), NEW F, Joins(S, parts, F), NEW i \in 1..Len(parts)
  PROVE  PlacedIn(S, parts, F, i)
<1>1. Len(parts) \in Nat /\ i \in 0..Len(parts) /\ i - 1 \in 0..Len(parts) /\ Len(parts) \in i..Len(parts)
  OBVIOUS
<1>2. F[i] = F[i - 1] \o parts[i] /\ parts[i] \in Seq(S) /\ F[i - 1] \in Seq(S)
  <2>1. F[i] = F[i - 1] \o parts[i] /\ F[i - 1] \in Seq(S)
    BY <1>1 DEF Joins
  <2>2. parts[i] \in Seq(S)
    OBVIOUS
  <2> QED BY <2>1, <2>2
<1>3. /\ F[i] \in Seq(S) /\ F[Len(parts)] \in Seq(S) /\ Len(F[i]) <= Len(F[Len(parts)])
      /\ \A j \in 1..Len(F[i]) : F[Len(parts)][j] = F[i][j]
  BY <1>1, JoinFront
<1>4. Len(F[i]) = Len(F[i - 1]) + Len(parts[i])
      /\ \A j \in 1..(Len(F[i - 1]) + Len(parts[i])) :
           F[i][j] = IF j <= Len(F[i - 1]) THEN F[i - 1][j] ELSE parts[i][j - Len(F[i - 1])]
  <2> DEFINE a == F[i - 1]
             b == parts[i]
  <2>1. a \in Seq(S) /\ b \in Seq(S) /\ F[i] = a \o b
    BY <1>2
  <2> HIDE DEF a, b
  <2>2. Len(F[i]) = Len(a) + Len(b)
        /\ \A j \in 1..(Len(a) + Len(b)) : F[i][j] = IF j <= Len(a) THEN a[j] ELSE b[j - Len(a)]
    BY <2>1, ConcatProperties
  <2> QED BY <2>2 DEF a, b
<1>5. ASSUME NEW j \in 1..Len(parts[i])
      PROVE  F[Len(parts)][Len(F[i - 1]) + j] = parts[i][j]
  <2>1. Len(F[i - 1]) \in Nat /\ Len(parts[i]) \in Nat
    BY <1>2
  <2> DEFINE x == Len(F[i - 1])
             y == Len(parts[i])
  <2>2. x \in Nat /\ y \in Nat /\ j \in 1..y
    BY <2>1
  <2>3. \A k \in 1..(x + y) : F[i][k] = IF k <= x THEN F[i - 1][k] ELSE parts[i][k - x]
    BY <1>4
  <2>4. \A k \in 1..(x + y) : F[Len(parts)][k] = F[i][k]
    BY <1>3, <1>4
  <2> HIDE DEF x, y
  <2>5. x + j \in 1..(x + y) /\ ~(x + j <= x) /\ (x + j) - x = j
    BY <2>2
  <2>6. F[Len(parts)][x + j] = parts[i][j]
    BY <2>3, <2>4, <2>5
  <2> QED BY <2>6 DEF x
<1> QED BY <1>2, <1>3, <1>4, <1>5 DEF PlacedIn

-----------------------------------------------------------------------------
(* The end of what print_c prints.                                         *)

(* A format: characters without the one that ends a string. *)
FormatOK(format) == format \in Seq(Character) /\ \A k \in 1..Len(format) : format[k] # NUL

(* RawEnd is the next '%', or the end of the format. *)
IsEnd(format, k, n) ==
  /\ n \in (k + 1)..(Len(format) + 1)
  /\ n = Len(format) + 1 \/ format[n] = "%"
  /\ \A m \in (k + 1)..(n - 1) : format[m] # "%"

(* print_c goes on up to there. *)
LEMMA RawEndRight ==
  ASSUME NEW format, FormatOK(format), NEW k \in 0..Len(format)
  PROVE  IsEnd(format, k, RawEnd(format, k))
<1> DEFINE L == Len(format)
           E(n) == /\ CharAt(format, n) \in {"%", NUL}
                   /\ \A m \in (k + 1)..(n - 1) : CharAt(format, m) # "%"
           T == {n \in (k + 1)..(L + 1) : CharAt(format, n) \in {"%", NUL}}
           e == CHOOSE n \in (k + 1)..(L + 1) : E(n)
<1>1. L \in Nat
  BY DEF FormatOK
<1>2. CharAt(format, L + 1) = NUL /\ \A n \in 1..L : CharAt(format, n) = format[n]
  BY <1>1 DEF CharAt
<1>3. L + 1 \in T /\ T \in SUBSET Nat
  BY <1>1, <1>2
<1>4. PICK n \in T : \A m \in T : n <= m
  <2> HIDE DEF T
  <2> QED BY <1>3, LeastElement
<1>5. n \in (k + 1)..(L + 1) /\ CharAt(format, n) \in {"%", NUL}
  BY <1>4
<1>6. ASSUME NEW m \in (k + 1)..(n - 1) PROVE CharAt(format, m) # "%"
  <2>1. m \in (k + 1)..(L + 1) /\ m < n
    BY <1>1, <1>5
  <2>2. m \notin T
    BY <1>4, <2>1
  <2> QED BY <2>1, <2>2
<1>7. E(n)
  BY <1>5, <1>6
<1>8. RawEnd(format, k) = e
  BY DEF RawEnd
<1>9. e \in (k + 1)..(L + 1) /\ E(e)
  <2> HIDE DEF E
  <2> QED BY <1>5, <1>7
<1> HIDE DEF e
<1>10. e = L + 1 \/ format[e] = "%"
  <2>1. CASE e # L + 1
    <3>1. e \in 1..L
      BY <1>1, <1>9, <2>1
    <3> QED BY <1>2, <1>9, <3>1 DEF FormatOK
  <2> QED BY <2>1
<1>11. ASSUME NEW m \in (k + 1)..(e - 1) PROVE format[m] # "%"
  <2>1. m \in 1..L
    BY <1>1, <1>9
  <2> QED BY <1>2, <1>9, <2>1
<1> QED BY <1>8, <1>9, <1>10, <1>11 DEF IsEnd

(* There is one next '%'. *)
LEMMA EndUnique ==
  ASSUME NEW format, FormatOK(format), NEW k \in 0..Len(format), NEW m, NEW n,
         IsEnd(format, k, m), IsEnd(format, k, n)
  PROVE  m = n
<1>1. Len(format) \in Nat
  BY DEF FormatOK
<1>2. ASSUME NEW i, NEW j, IsEnd(format, k, i), IsEnd(format, k, j), i < j
      PROVE  FALSE
  <2>1. i \in (k + 1)..(j - 1) /\ i # Len(format) + 1
    BY <1>1, <1>2 DEF IsEnd
  <2> QED BY <1>2, <2>1 DEF IsEnd
<1>3. m \in Int /\ n \in Int
  BY <1>1 DEF IsEnd
<1>4. ~(m < n)
  BY <1>2
<1>5. ~(n < m)
  BY <1>2
<1> QED BY <1>3, <1>4, <1>5

(* An ordinary character in between does not change it. *)
LEMMA RawEndNext ==
  ASSUME NEW format, FormatOK(format), NEW k \in 0..Len(format), k + 1 <= Len(format),
         format[k + 1] # "%"
  PROVE  RawEnd(format, k) = RawEnd(format, k + 1) /\ RawEnd(format, k) > k + 1
<1> DEFINE e == RawEnd(format, k + 1)
<1>1. Len(format) \in Nat /\ k + 1 \in 0..Len(format)
  BY DEF FormatOK
<1>2. IsEnd(format, k + 1, e)
  BY <1>1, RawEndRight
<1> HIDE DEF e
<1>3. e \in (k + 1 + 1)..(Len(format) + 1) /\ (e = Len(format) + 1 \/ format[e] = "%")
      /\ \A m \in (k + 1 + 1)..(e - 1) : format[m] # "%"
  BY <1>2 DEF IsEnd
<1>4. ASSUME NEW m \in (k + 1)..(e - 1) PROVE format[m] # "%"
  <2>1. m = k + 1 \/ m \in (k + 1 + 1)..(e - 1)
    BY <1>1, <1>3
  <2> QED BY <1>3, <2>1
<1>5. e \in (k + 1)..(Len(format) + 1) /\ e > k + 1
  BY <1>1, <1>3
<1>6. IsEnd(format, k, e)
  BY <1>3, <1>4, <1>5 DEF IsEnd
<1>7. RawEnd(format, k) = e
  BY <1>6, RawEndRight, EndUnique
<1> QED BY <1>5, <1>7 DEF e

-----------------------------------------------------------------------------
(* The recursion of printf: what f has, given what it has further on.      *)

States == Nat \X Nat \X BOOLEAN

Raw(format, f, j, a, r) ==
  SubSeq(format, j, RawEnd(format, j) - 1) \o f[<<RawEnd(format, j), a, r>>]

Body(format, args, f, k, a, r) ==
  LET m == ModifierAt(format, k + 1)
      c == CharAt(format, k + 1 + Len(m))
  IN IF k > Len(format) THEN <<>>
     ELSE IF format[k] # "%" THEN Raw(format, f, k, a, r)
     ELSE IF CharAt(format, k + 1) = "%" THEN Raw(format, f, k + 1, a, r)
     ELSE IF r \/ ~ Known(c, m) THEN Raw(format, f, k, a, TRUE)
     ELSE Converted(c, args[a]) \o f[<<k + 2 + Len(m), a + 1, FALSE>>]

Prints(format, args, f) ==
  \A k \in Nat, a \in Nat, r \in BOOLEAN :
    f[<<k, a, r>>] = Body(format, args, f, k, a, r)

(* A modifier has at most two letters. *)
LEMMA ModifierLength ==
  ASSUME NEW format, NEW k
  PROVE  Len(ModifierAt(format, k)) \in Nat
<1> DEFINE here == {m \in LengthModifiers : \A n \in 1..Len(m) : CharAt(format, k + n - 1) = m[n]}
           T == {n \in 0..2 : \A o \in here : Len(o) <= n}
           best(m) == \A o \in here : Len(o) <= Len(m)
<1>1. \A m \in LengthModifiers : Len(m) \in 0..2
  BY DEF LengthModifiers
<1>2. <<>> \in here /\ Len(<<>>) = 0
  BY DEF LengthModifiers
<1>3. \E m \in here : best(m)
  <2>1. CASE \E m \in here : Len(m) = 2
    BY <1>1, <2>1
  <2>2. CASE ~(\E m \in here : Len(m) = 2) /\ \E m \in here : Len(m) = 1
    BY <1>1, <2>2
  <2>3. CASE ~(\E m \in here : Len(m) = 2) /\ ~(\E m \in here : Len(m) = 1)
    BY <1>1, <1>2, <2>3
  <2> QED BY <2>1, <2>2, <2>3
<1>4. ModifierAt(format, k) = CHOOSE m \in here : best(m)
  BY DEF ModifierAt
<1>5. ModifierAt(format, k) \in here
  <2> HIDE DEF here, best
  <2> QED BY <1>3, <1>4
<1> QED BY <1>1, <1>5

(* The recursion looks further on only. *)
LEMMA BodyOnward ==
  ASSUME NEW format, FormatOK(format), NEW args, NEW f, NEW g, NEW k \in Nat,
         NEW a \in Nat, NEW r \in BOOLEAN,
         \A j \in Nat, b \in Nat, q \in BOOLEAN : j > k => f[<<j, b, q>>] = g[<<j, b, q>>]
  PROVE  Body(format, args, f, k, a, r) = Body(format, args, g, k, a, r)
<1> DEFINE m == ModifierAt(format, k + 1)
           c == CharAt(format, k + 1 + Len(m))
<1>1. Len(format) \in Nat
  BY DEF FormatOK
<1>2. ASSUME NEW j \in 0..Len(format), k <= j, NEW q \in BOOLEAN
      PROVE  Raw(format, f, j, a, q) = Raw(format, g, j, a, q)
  <2>1. IsEnd(format, j, RawEnd(format, j))
    BY RawEndRight
  <2>2. RawEnd(format, j) \in Nat /\ RawEnd(format, j) > k
    BY <1>1, <1>2, <2>1 DEF IsEnd
  <2>3. f[<<RawEnd(format, j), a, q>>] = g[<<RawEnd(format, j), a, q>>]
    BY <2>2
  <2> QED BY <2>3 DEF Raw
<1>3. k <= Len(format) => Raw(format, f, k, a, r) = Raw(format, g, k, a, r)
                          /\ Raw(format, f, k, a, TRUE) = Raw(format, g, k, a, TRUE)
  <2>1. ASSUME k <= Len(format) PROVE k \in 0..Len(format) /\ k <= k
    BY <1>1, <2>1
  <2> QED BY <1>2, <2>1
<1>4. CharAt(format, k + 1) = "%" => Raw(format, f, k + 1, a, r) = Raw(format, g, k + 1, a, r)
  <2>1. SUFFICES ASSUME CharAt(format, k + 1) = "%"
                 PROVE  Raw(format, f, k + 1, a, r) = Raw(format, g, k + 1, a, r)
    OBVIOUS
  <2>2. k + 1 \in 1..Len(format)
    BY <2>1 DEF CharAt, NUL
  <2>3. k + 1 \in 0..Len(format) /\ k <= k + 1
    BY <1>1, <2>2
  <2> QED BY <1>2, <2>3
<1>5. Len(m) \in Nat
  BY ModifierLength
<1>6. f[<<k + 2 + Len(m), a + 1, FALSE>>] = g[<<k + 2 + Len(m), a + 1, FALSE>>]
  <2>1. k + 2 + Len(m) \in Nat /\ k + 2 + Len(m) > k /\ a + 1 \in Nat /\ FALSE \in BOOLEAN
    BY <1>5
  <2> HIDE DEF m
  <2> QED BY <2>1
<1>7. ~(k > Len(format)) => k <= Len(format)
  BY <1>1
<1>8. ASSUME NEW h
      PROVE  Body(format, args, h, k, a, r) =
               IF k > Len(format) THEN <<>>
               ELSE IF format[k] # "%" THEN Raw(format, h, k, a, r)
               ELSE IF CharAt(format, k + 1) = "%" THEN Raw(format, h, k + 1, a, r)
               ELSE IF r \/ ~ Known(c, m) THEN Raw(format, h, k, a, TRUE)
               ELSE Converted(c, args[a]) \o h[<<k + 2 + Len(m), a + 1, FALSE>>]
  BY DEF Body
<1> HIDE DEF m, c
<1> QED BY <1>3, <1>4, <1>6, <1>7, <1>8, Zenon

(* The recursion has a solution, built from the end of the format, and printf takes
   one. *)
LEMMA PrintfRecursion ==
  ASSUME NEW format, FormatOK(format), NEW args
  PROVE  \E f : Prints(format, args, f) /\ printf(format, args) = f[<<1, 1, FALSE>>]
<1> DEFINE L == Len(format)
           B(f, s) == Body(format, args, f, s[1], s[2], s[3])
           From(d, f) == \A s \in States : s[1] + d > L => f[s] = B(f, s)
           T == {d \in Nat : \E f : From(d, f)}
           Eq(f) == f = [s \in States |-> B(f, s)]
           from == CHOOSE f : Eq(f)
<1>1. L \in Nat
  BY DEF FormatOK
<1>2. \A s \in States : s[1] \in Nat /\ s[2] \in Nat /\ s[3] \in BOOLEAN /\ s = <<s[1], s[2], s[3]>>
  BY DEF States
<1>3. ASSUME NEW f, NEW g, NEW s \in States, \A u \in States : u[1] > s[1] => f[u] = g[u]
      PROVE  B(f, s) = B(g, s)
  <2>1. ASSUME NEW j \in Nat, NEW b \in Nat, NEW q \in BOOLEAN, j > s[1]
        PROVE  f[<<j, b, q>>] = g[<<j, b, q>>]
    <3>1. <<j, b, q>> \in States /\ <<j, b, q>>[1] = j
      BY DEF States
    <3> QED BY <1>3, <2>1, <3>1
  <2> QED BY <1>2, <2>1, BodyOnward
<1>4. 0 \in T
  <2> DEFINE f == [s \in States |-> <<>>]
  <2>1. ASSUME NEW s \in States, s[1] + 0 > L PROVE f[s] = B(f, s)
    <3>1. s[1] > L
      BY <1>2, <2>1
    <3>2. f[s] = <<>>
      OBVIOUS
    <3> HIDE DEF f
    <3> QED BY <3>1, <3>2 DEF Body
  <2> HIDE DEF f
  <2> QED BY <2>1
<1>5. ASSUME NEW d \in T PROVE d + 1 \in T
  <2>1. d \in Nat
    OBVIOUS
  <2> HIDE DEF B
  <2>2. PICK f : From(d, f)
    OBVIOUS
  <2> DEFINE g == [s \in States |-> IF s[1] + d > L THEN f[s] ELSE B(f, s)]
  <2>3. \A s \in States : g[s] = IF s[1] + d > L THEN f[s] ELSE B(f, s)
    OBVIOUS
  <2> HIDE DEF g
  <2>4. ASSUME NEW s \in States, s[1] + (d + 1) > L PROVE g[s] = B(g, s)
    <3>1. \A u \in States : u[1] > s[1] => f[u] = g[u]
      <4>1. ASSUME NEW u \in States, u[1] > s[1] PROVE u[1] + d > L
        BY <1>1, <1>2, <2>1, <2>4, <4>1
      <4> QED BY <2>3, <4>1
    <3>2. B(f, s) = B(g, s)
      BY <1>3, <3>1
    <3> QED BY <2>2, <2>3, <3>2
  <2>5. d + 1 \in Nat
    BY <2>1
  <2> QED BY <2>4, <2>5
<1>6. T \in SUBSET Nat
  OBVIOUS
<1>7. T = Nat
  <2> HIDE DEF T
  <2> QED BY <1>4, <1>5, <1>6, Induction
<1>8. PICK h : From(L + 1, h)
  <2>1. L + 1 \in Nat
    BY <1>1
  <2>2. L + 1 \in T
    <3> HIDE DEF T
    <3> QED BY <1>7, <2>1
  <2> HIDE DEF From
  <2> QED BY <2>2
<1> DEFINE f == [s \in States |-> h[s]]
<1>9. \A s \in States : f[s] = h[s]
  OBVIOUS
<1>10. f = [s \in States |-> f[s]]
  OBVIOUS
<1> HIDE DEF f
<1>11. ASSUME NEW s \in States PROVE f[s] = B(f, s)
  <2>1. s[1] + (L + 1) > L
    BY <1>1, <1>2
  <2>2. h[s] = B(h, s)
    BY <1>8, <2>1
  <2>3. \A u \in States : u[1] > s[1] => h[u] = f[u]
    BY <1>9
  <2>4. B(h, s) = B(f, s)
    BY <1>3, <2>3
  <2> QED BY <1>9, <2>2, <2>4
<1>12. Eq(f)
  <2> HIDE DEF B
  <2> QED BY <1>10, <1>11
<1>13. Eq(from)
  BY <1>12, Zenon
<1>14. printf(format, args) = from[<<1, 1, FALSE>>]
  BY DEF printf, Body, Raw, States
<1> HIDE DEF from
<1>15. ASSUME NEW k \in Nat, NEW a \in Nat, NEW r \in BOOLEAN
       PROVE  from[<<k, a, r>>] = Body(format, args, from, k, a, r)
  <2>1. <<k, a, r>> \in States
    BY DEF States
  <2>2. \A s \in States : from[s] = B(from, s)
    <3> HIDE DEF B
    <3> QED BY <1>13
  <2>3. from[<<k, a, r>>] = B(from, <<k, a, r>>)
    BY <2>1, <2>2
  <2>4. <<k, a, r>>[1] = k /\ <<k, a, r>>[2] = a /\ <<k, a, r>>[3] = r
    OBVIOUS
  <2> QED BY <2>3, <2>4
<1>16. Prints(format, args, from)
  BY <1>15 DEF Prints
<1> QED BY <1>14, <1>16

-----------------------------------------------------------------------------
(* The steps of printf.                                                    *)

(* What f has from k on is a text, and so is what it has from the next '%' on. *)
Text(format, f, k, a, r) ==
  /\ f[<<k, a, r>>] \in Seq(Character)
  /\ k <= Len(format) /\ format[k] # "%" => f[<<RawEnd(format, k), a, r>>] \in Seq(Character)

RawGoesOn(format, f, k, a, r) ==
  /\ Raw(format, f, k, a, r) = <<format[k]>> \o f[<<k + 1, a, r>>]
  /\ Raw(format, f, k, a, r) \in Seq(Character)
  /\ f[<<RawEnd(format, k), a, r>>] \in Seq(Character)

(* print_c prints the character at k, and goes on. *)
LEMMA RawStep ==
  ASSUME NEW format, FormatOK(format), NEW args, NEW f, Prints(format, args, f),
         NEW k \in 1..Len(format), NEW a \in Nat, NEW r \in BOOLEAN, Text(format, f, k + 1, a, r)
  PROVE  RawGoesOn(format, f, k, a, r)
<1> DEFINE e == RawEnd(format, k)
           L == Len(format)
           rest == f[<<e, a, r>>]
           next == f[<<k + 1, a, r>>]
           c == format[k]
<1>1. format \in Seq(Character) /\ L \in Nat /\ k \in Nat /\ k \in 0..L /\ c \in Character
  BY DEF FormatOK
<1>2. e \in (k + 1)..(L + 1) /\ (e = L + 1 \/ format[e] = "%") /\ \A m \in (k + 1)..(e - 1) : format[m] # "%"
  BY <1>1, RawEndRight DEF IsEnd
<1>3. Raw(format, f, k, a, r) = SubSeq(format, k, e - 1) \o rest
  BY DEF Raw
<1>4. next \in Seq(Character) /\ <<c>> \in Seq(Character)
  BY <1>1 DEF Text
<1>5. CASE e = k + 1
  <2>1. SubSeq(format, k, k) = <<c>>
    <3>1. SubSeq(format, k, k) = <<format[k]>> \o SubSeq(format, k + 1, k)
      BY <1>1, SubSeqRecursiveFirst
    <3>2. SubSeq(format, k + 1, k) = <<>>
      BY <1>1, SubSeqEmpty
    <3>3. <<c>> \o <<>> = <<c>>
      BY <1>4, ConcatEmptySeq
    <3> QED BY <3>1, <3>2, <3>3
  <2>2. e - 1 = k /\ rest = next
    BY <1>1, <1>5
  <2>3. Raw(format, f, k, a, r) = <<c>> \o next
    BY <1>3, <2>1, <2>2
  <2> QED BY <1>4, <2>2, <2>3, ConcatProperties DEF RawGoesOn
<1>6. CASE e # k + 1
  <2>1. k + 1 <= L /\ format[k + 1] # "%" /\ k + 1 \in Nat /\ k + 1 \in 0..L
    BY <1>1, <1>2, <1>6
  <2>2. RawEnd(format, k + 1) = e
    BY <1>1, <2>1, RawEndNext
  <2>3. rest \in Seq(Character)
    BY <2>1, <2>2 DEF Text
  <2>4. next = Body(format, args, f, k + 1, a, r)
    BY <2>1 DEF Prints
  <2>5. ~(k + 1 > L)
    BY <1>1, <2>1
  <2>6. next = Raw(format, f, k + 1, a, r)
    <3> HIDE DEF next
    <3> QED BY <2>1, <2>4, <2>5 DEF Body
  <2> DEFINE s == SubSeq(format, k + 1, e - 1)
  <2>7. next = s \o rest
    BY <2>2, <2>6 DEF Raw
  <2>8. SubSeq(format, k, e - 1) = <<c>> \o s
    <3>1. k \in 1..Len(format) /\ e - 1 \in k..Len(format)
      BY <1>1, <1>2
    <3> QED BY <1>1, <3>1, SubSeqRecursiveFirst
  <2>9. s \in Seq(Character)
    <3>1. k + 1 \in Int /\ e - 1 \in Int /\ \A i \in (k + 1)..(e - 1) : format[i] \in Character
      BY <1>1, <1>2
    <3> QED BY <3>1, SubSeqProperties
  <2> HIDE DEF s, rest, next, c
  <2>10. (<<c>> \o s) \o rest = <<c>> \o (s \o rest)
    BY <1>4, <2>3, <2>9, ConcatAssociative
  <2>11. Raw(format, f, k, a, r) = <<c>> \o next
    BY <1>3, <2>7, <2>8, <2>10
  <2>12. <<c>> \o next \in Seq(Character)
    BY <1>4, ConcatProperties
  <2> QED BY <2>3, <2>11, <2>12 DEF rest, next, c, RawGoesOn
<1> QED BY <1>5, <1>6

PlainGoesOn(format, f, k, a, r) ==
  Text(format, f, k, a, r) /\ f[<<k, a, r>>] = <<format[k]>> \o f[<<k + 1, a, r>>]

(* An ordinary character. *)
LEMMA PlainStep ==
  ASSUME NEW format, FormatOK(format), NEW args, NEW f, Prints(format, args, f),
         NEW k \in 1..Len(format), NEW a \in Nat, NEW r \in BOOLEAN, Text(format, f, k + 1, a, r),
         format[k] # "%"
  PROVE  PlainGoesOn(format, f, k, a, r)
<1>1. f[<<k, a, r>>] = Body(format, args, f, k, a, r)
  BY DEF Prints
<1>2. ~(k > Len(format))
  BY DEF FormatOK
<1>3. Body(format, args, f, k, a, r) = Raw(format, f, k, a, r)
  BY <1>2 DEF Body
<1>4. RawGoesOn(format, f, k, a, r)
  BY RawStep
<1> QED BY <1>1, <1>3, <1>4, Zenon DEF Text, RawGoesOn, PlainGoesOn

PercentGoesOn(format, f, k, a, r) ==
  Text(format, f, k, a, r) /\ f[<<k, a, r>>] = <<"%">> \o f[<<k + 2, a, r>>]

(* '%%'. *)
LEMMA PercentStep ==
  ASSUME NEW format, FormatOK(format), NEW args, NEW f, Prints(format, args, f),
         NEW k \in 1..Len(format), NEW a \in Nat, NEW r \in BOOLEAN, Text(format, f, k + 2, a, r),
         k + 1 <= Len(format), format[k] = "%", format[k + 1] = "%"
  PROVE  PercentGoesOn(format, f, k, a, r)
<1>1. f[<<k, a, r>>] = Body(format, args, f, k, a, r)
  BY DEF Prints
<1>2. ~(k > Len(format)) /\ k + 1 \in 1..Len(format) /\ (k + 1) + 1 = k + 2
  BY DEF FormatOK
<1>3. CharAt(format, k + 1) = "%"
  BY <1>2 DEF CharAt
<1>4. Body(format, args, f, k, a, r) = Raw(format, f, k + 1, a, r)
  BY <1>2, <1>3 DEF Body
<1>5. /\ Raw(format, f, k + 1, a, r) = <<format[k + 1]>> \o f[<<(k + 1) + 1, a, r>>]
      /\ Raw(format, f, k + 1, a, r) \in Seq(Character)
  <2> DEFINE j == k + 1
  <2>1. j \in 1..Len(format) /\ j + 1 = k + 2
    BY <1>2
  <2> HIDE DEF j
  <2>2. Text(format, f, j + 1, a, r)
    BY <2>1
  <2>3. RawGoesOn(format, f, j, a, r)
    BY <2>1, <2>2, RawStep
  <2> QED BY <2>3 DEF j, RawGoesOn
<1> QED BY <1>1, <1>2, <1>4, <1>5 DEF Text, PercentGoesOn

NotKnown(format, k) ==
  LET m == ModifierAt(format, k + 1)
      c == CharAt(format, k + 1 + Len(m)) IN ~ Known(c, m)
RejectGoesOn(format, f, k, a, r) ==
  Text(format, f, k, a, r) /\ f[<<k, a, r>>] = <<"%">> \o f[<<k + 1, a, TRUE>>]

(* A '%' that is printed as it stands. *)
LEMMA RejectStep ==
  ASSUME NEW format, FormatOK(format), NEW args, NEW f, Prints(format, args, f),
         NEW k \in 1..Len(format), NEW a \in Nat, NEW r \in BOOLEAN, Text(format, f, k + 1, a, TRUE),
         format[k] = "%", CharAt(format, k + 1) # "%",
         r \/ NotKnown(format, k)
  PROVE  RejectGoesOn(format, f, k, a, r)
<1>1. f[<<k, a, r>>] = Body(format, args, f, k, a, r)
  BY DEF Prints
<1>2. ~(k > Len(format))
  BY DEF FormatOK
<1>3. Body(format, args, f, k, a, r) = Raw(format, f, k, a, TRUE)
  BY <1>2, Zenon DEF Body, NotKnown
<1>4. /\ Raw(format, f, k, a, TRUE) = <<format[k]>> \o f[<<k + 1, a, TRUE>>]
      /\ Raw(format, f, k, a, TRUE) \in Seq(Character)
  <2> DEFINE q == TRUE
  <2>1. q \in BOOLEAN /\ Text(format, f, k + 1, a, q)
    OBVIOUS
  <2> HIDE DEF q
  <2>2. RawGoesOn(format, f, k, a, q)
    BY <2>1, RawStep
  <2> QED BY <2>2 DEF q, RawGoesOn
<1> QED BY <1>1, <1>3, <1>4 DEF Text, RejectGoesOn

KnownGoesOn(format, args, f, k, a, c, m) ==
  /\ Text(format, f, k, a, FALSE)
  /\ f[<<k, a, FALSE>>] = Converted(c, args[a]) \o f[<<k + 2 + Len(m), a + 1, FALSE>>]

(* A conversion that printf knows. *)
LEMMA KnownStep ==
  ASSUME NEW format, FormatOK(format), NEW args, NEW f, Prints(format, args, f),
         NEW k \in 1..Len(format), NEW a \in Nat, NEW m, NEW c,
         ModifierAt(format, k + 1) = m, CharAt(format, k + 1 + Len(m)) = c,
         Text(format, f, k + 2 + Len(m), a + 1, FALSE),
         format[k] = "%", CharAt(format, k + 1) # "%", Known(c, m),
         Converted(c, args[a]) \in Seq(Character)
  PROVE  KnownGoesOn(format, args, f, k, a, c, m)
<1>1. f[<<k, a, FALSE>>] = Body(format, args, f, k, a, FALSE)
  <2>1. k \in Nat /\ FALSE \in BOOLEAN
    OBVIOUS
  <2> QED BY <2>1, Zenon DEF Prints
<1>2. ~(k > Len(format))
  BY DEF FormatOK
<1>3. Body(format, args, f, k, a, FALSE) = Converted(c, args[a]) \o f[<<k + 2 + Len(m), a + 1, FALSE>>]
  BY <1>2, Zenon DEF Body
<1>4. f[<<k + 2 + Len(m), a + 1, FALSE>>] \in Seq(Character)
  BY DEF Text
<1>5. Converted(c, args[a]) \o f[<<k + 2 + Len(m), a + 1, FALSE>>] \in Seq(Character)
  BY <1>4, ConcatProperties
<1> QED BY <1>1, <1>3, <1>5 DEF Text, KnownGoesOn

-----------------------------------------------------------------------------
(* Plain characters, modifiers and conversions.                            *)

(* The characters before e are printed as they stand. *)
Runs(format, f, k, e, a, r) ==
  Text(format, f, k, a, r) /\ f[<<k, a, r>>] = SubSeq(format, k, e - 1) \o f[<<e, a, r>>]

(* A run of ordinary characters. *)
LEMMA RunStep ==
  ASSUME NEW format, FormatOK(format), NEW args, NEW f, Prints(format, args, f),
         NEW k \in 1..(Len(format) + 1), NEW e \in k..(Len(format) + 1), NEW a \in Nat,
         NEW r \in BOOLEAN, Text(format, f, e, a, r), \A j \in k..(e - 1) : format[j] # "%"
  PROVE  Runs(format, f, k, e, a, r)
<1> DEFINE T == {d \in Nat : e - d >= k => Runs(format, f, e - d, e, a, r)}
           last == f[<<e, a, r>>]
<1>1. format \in Seq(Character) /\ Len(format) \in Nat /\ k \in Nat /\ e \in Nat
  BY DEF FormatOK
<1>2. last \in Seq(Character)
  BY DEF Text
<1> HIDE DEF last
<1>3. 0 \in T
  <2>1. e - 0 = e
    BY <1>1
  <2>2. SubSeq(format, e, e - 1) = <<>>
    BY <1>1, SubSeqEmpty
  <2>3. <<>> \o last = last
    BY <1>2, ConcatEmptySeq
  <2> QED BY <2>1, <2>2, <2>3 DEF Runs, last
<1>4. ASSUME NEW d \in T PROVE d + 1 \in T
  <2>1. d \in Nat /\ d + 1 \in Nat
    OBVIOUS
  <2>2. SUFFICES ASSUME e - (d + 1) >= k PROVE Runs(format, f, e - (d + 1), e, a, r)
    BY <2>1
  <2> DEFINE i == e - (d + 1)
  <2>3. i \in 1..Len(format) /\ i \in k..(e - 1) /\ i + 1 = e - d /\ e - d >= k /\ i \in Nat
    BY <1>1, <2>1, <2>2
  <2>4. Runs(format, f, i + 1, e, a, r)
    BY <2>1, <2>3
  <2> HIDE DEF i
  <2>5. Text(format, f, i + 1, a, r) /\ format[i] # "%"
    BY <2>3, <2>4 DEF Runs
  <2>6. PlainGoesOn(format, f, i, a, r)
    BY <2>3, <2>5, PlainStep
  <2> DEFINE s == SubSeq(format, i + 1, e - 1)
             c == <<format[i]>>
  <2>7. f[<<i + 1, a, r>>] = s \o last
    BY <2>4 DEF Runs, last
  <2>8. s \in Seq(Character)
    <3>1. i + 1 \in Int /\ e - 1 \in Int /\ \A j \in (i + 1)..(e - 1) : format[j] \in Character
      BY <1>1, <2>3
    <3> QED BY <3>1, SubSeqProperties
  <2>9. c \in Seq(Character)
    BY <1>1, <2>3
  <2>10. SubSeq(format, i, e - 1) = c \o s
    <3>1. e - 1 \in i..Len(format)
      BY <1>1, <2>3
    <3> QED BY <1>1, <2>3, <3>1, SubSeqRecursiveFirst
  <2>11. f[<<i, a, r>>] = c \o (s \o last)
    BY <2>6, <2>7 DEF PlainGoesOn
  <2> HIDE DEF s, c
  <2>12. (c \o s) \o last = c \o (s \o last)
    BY <1>2, <2>8, <2>9, ConcatAssociative
  <2>13. f[<<i, a, r>>] = SubSeq(format, i, e - 1) \o last
    BY <2>10, <2>11, <2>12
  <2>14. Runs(format, f, i, e, a, r)
    BY <2>6, <2>13 DEF Runs, last, PlainGoesOn
  <2> QED BY <2>14 DEF i
<1>5. T \in SUBSET Nat
  OBVIOUS
<1>6. T = Nat
  <2> HIDE DEF T
  <2> QED BY <1>3, <1>4, <1>5, Induction
<1>7. e - k \in Nat /\ e - (e - k) = k /\ e - (e - k) >= k
  BY <1>1
<1>8. e - k \in T
  BY <1>6, <1>7
<1>9. Runs(format, f, e - (e - k), e, a, r)
  BY <1>7, <1>8
<1> QED BY <1>7, <1>9

(* No length modifier contains c. *)
NotModifier(c) == \A o \in LengthModifiers : \A n \in 1..Len(o) : c # o[n]

(* The length modifiers are texts of at most two letters. *)
LEMMA Modifiers ==
  ASSUME NEW m \in LengthModifiers
  PROVE  /\ m \in Seq(Character) /\ Len(m) \in 0..2
         /\ \A n \in 1..Len(m) : m[n] # "%" /\ m[n] # NUL
<1> DEFINE Letters == {"h", "l", "L", "j", "z", "t"}
<1>1. m = <<>> \/ \E x \in Letters : m = <<x>> \/ m = <<x, x>>
  BY DEF LengthModifiers
<1>2. \A x \in Letters : x \in Character /\ x # "%" /\ x # NUL
  BY DEF Character, NUL
<1> HIDE DEF Letters
<1>3. CASE m = <<>>
  BY <1>3
<1>4. ASSUME NEW x \in Letters, m = <<x>> \/ m = <<x, x>>
      PROVE  /\ m \in Seq(Character) /\ Len(m) \in 0..2
             /\ \A n \in 1..Len(m) : m[n] # "%" /\ m[n] # NUL
  <2>1. x \in Character /\ x # "%" /\ x # NUL
    BY <1>2
  <2>2. CASE m = <<x>>
    BY <2>1, <2>2
  <2>3. CASE m = <<x, x>>
    <3>1. Len(m) = 2 /\ m[1] = x /\ m[2] = x
      BY <2>3
    <3>2. m \in Seq(Character)
      BY <2>1, <2>3
    <3> QED BY <2>1, <3>1, <3>2
  <2> QED BY <1>4, <2>2, <2>3
<1> QED BY <1>1, <1>3, <1>4

(* A modifier followed by a conversion is found as such. *)
LEMMA ModifierFound ==
  ASSUME NEW format, NEW k \in Nat, NEW m \in LengthModifiers,
         \A n \in 1..Len(m) : CharAt(format, k + n - 1) = m[n],
         NotModifier(CharAt(format, k + Len(m)))
  PROVE  ModifierAt(format, k) = m
<1> DEFINE here == {o \in LengthModifiers : \A n \in 1..Len(o) : CharAt(format, k + n - 1) = o[n]}
           best(x) == \A o \in here : Len(o) <= Len(x)
           x == CHOOSE o \in here : best(o)
<1>1. ModifierAt(format, k) = x
  BY DEF ModifierAt
<1>2. m \in here
  OBVIOUS
<1>3. Len(m) \in Nat
  BY Modifiers
<1>4. ASSUME NEW o \in here PROVE Len(o) <= Len(m)
  <2>1. Len(o) \in Nat /\ o \in LengthModifiers
    BY Modifiers
  <2>2. SUFFICES ASSUME Len(m) < Len(o) PROVE FALSE
    BY <1>3, <2>1
  <2>3. Len(m) + 1 \in 1..Len(o) /\ k + (Len(m) + 1) - 1 = k + Len(m)
    BY <1>3, <2>1, <2>2
  <2>4. CharAt(format, k + (Len(m) + 1) - 1) = o[Len(m) + 1]
    BY <2>3
  <2> QED BY <2>1, <2>3, <2>4 DEF NotModifier
<1>5. best(m)
  BY <1>4
<1>6. x \in here /\ best(x)
  <2> HIDE DEF here, best
  <2> QED BY <1>2, <1>5
<1> HIDE DEF x
<1>7. Len(x) = Len(m) /\ x \in Seq(Character) /\ m \in Seq(Character)
  <2>1. x \in LengthModifiers /\ Len(x) <= Len(m) /\ Len(m) <= Len(x)
    BY <1>2, <1>4, <1>6
  <2>2. Len(x) \in Nat
    BY <2>1, Modifiers
  <2> QED BY <1>3, <2>1, <2>2, Modifiers
<1>8. \A n \in 1..Len(m) : x[n] = m[n]
  BY <1>6, <1>7
<1>9. x = m
  BY <1>7, <1>8
<1> QED BY <1>1, <1>9

(* s stands in the format from k on. *)
Stands(format, k, s) ==
  /\ s \in Seq(Character) /\ k \in 1..(Len(format) + 1) /\ k + Len(s) <= Len(format) + 1
  /\ \A j \in 1..Len(s) : format[k + j - 1] = s[j]

(* What stands in the format can be cut out of it. *)
LEMMA StandsThere ==
  ASSUME NEW format, FormatOK(format), NEW k, NEW s, Stands(format, k, s),
         NEW n, n = k + Len(s)
  PROVE  SubSeq(format, k, n - 1) = s
<1> DEFINE e == n - 1
           u == SubSeq(format, k, e)
<1>1. k \in Nat /\ Len(s) \in Nat /\ Len(format) \in Nat /\ s \in Seq(Character)
      /\ k + Len(s) <= Len(format) + 1 /\ 1 <= k /\ format \in Seq(Character)
  BY DEF Stands, FormatOK
<1>2. k \in Int /\ e \in Int /\ \A i \in k..e : format[i] \in Character
  BY <1>1
<1>3. u \in Seq(Character) /\ Len(u) = (IF k <= e THEN e - k + 1 ELSE 0)
      /\ \A i \in 1..(e - k + 1) : u[i] = format[k + i - 1]
  <2> HIDE DEF e
  <2> QED BY <1>2, SubSeqProperties
<1>4. Len(u) = Len(s)
  BY <1>1, <1>3
<1>5. \A i \in 1..Len(s) : u[i] = s[i]
  <2>1. e - k + 1 = Len(s)
    BY <1>1
  <2> QED BY <1>3, <2>1 DEF Stands
<1> HIDE DEF u, e
<1>6. u = s
  BY <1>1, <1>3, <1>4, <1>5, SeqEqual
<1> QED BY <1>6 DEF u, e

(* Where '%', the modifier and the conversion stand. *)
ConversionAt(format, k, c, m) ==
  /\ k \in 1..Len(format) /\ k + 1 + Len(m) <= Len(format) /\ Len(m) \in Nat
  /\ format[k] = "%" /\ format[k + 1 + Len(m)] = c
  /\ \A n \in 1..Len(m) : format[k + n] = m[n]

(* Where a directive with a conversion stands, its parts stand. *)
LEMMA ConversionStands ==
  ASSUME NEW format, FormatOK(format), NEW k, NEW d, NEW c, NEW m \in LengthModifiers,
         Conversion(d, c, m), Stands(format, k, d.spelled), c \in Character
  PROVE  ConversionAt(format, k, c, m) /\ Len(d.spelled) = Len(m) + 2
<1> DEFINE p == <<"%">>
           q == <<c>>
           s == d.spelled
<1>1. p \in Seq(Character) /\ Len(p) = 1 /\ p[1] = "%" /\ q \in Seq(Character) /\ Len(q) = 1 /\ q[1] = c
  BY DEF Character
<1>2. m \in Seq(Character) /\ Len(m) \in Nat
  BY Modifiers
<1>3. s = (p \o m) \o q
  BY DEF Conversion
<1> HIDE DEF p, q
<1> DEFINE u == p \o m
<1>4. s = u \o q /\ u = p \o m
  BY <1>3
<1> HIDE DEF u, s
<1>5. u \in Seq(Character) /\ Len(u) = 1 + Len(m)
      /\ \A i \in 1..(1 + Len(m)) : u[i] = IF i <= 1 THEN p[i] ELSE m[i - 1]
  <2>1. u \in Seq(Character) /\ Len(u) = Len(p) + Len(m)
        /\ \A i \in 1..(Len(p) + Len(m)) : u[i] = IF i <= Len(p) THEN p[i] ELSE m[i - Len(p)]
    BY <1>1, <1>2, <1>4, ConcatProperties
  <2> QED BY <1>1, <2>1
<1>6. Len(s) = Len(u) + Len(q)
      /\ \A i \in 1..(Len(u) + Len(q)) : s[i] = IF i <= Len(u) THEN u[i] ELSE q[i - Len(u)]
  BY <1>1, <1>5, <1>4, ConcatProperties
<1>7. Len(s) = Len(m) + 2
  BY <1>1, <1>2, <1>5, <1>6
<1>8. s[1] = "%" /\ s[Len(m) + 2] = c /\ \A n \in 1..Len(m) : s[n + 1] = m[n]
  <2>1. s[1] = "%"
    <3>1. 1 \in 1..(Len(u) + Len(q)) /\ 1 <= Len(u) /\ 1 \in 1..(1 + Len(m))
      BY <1>1, <1>2, <1>5
    <3> QED BY <1>1, <1>5, <1>6, <3>1
  <2>2. s[Len(m) + 2] = c
    <3>1. Len(m) + 2 \in 1..(Len(u) + Len(q)) /\ ~(Len(m) + 2 <= Len(u)) /\ (Len(m) + 2) - Len(u) = 1
      BY <1>1, <1>2, <1>5
    <3> QED BY <1>1, <1>6, <3>1
  <2>3. ASSUME NEW n \in 1..Len(m) PROVE s[n + 1] = m[n]
    <3>1. n + 1 \in 1..(Len(u) + Len(q)) /\ n + 1 <= Len(u) /\ n + 1 \in 1..(1 + Len(m))
          /\ ~(n + 1 <= 1) /\ (n + 1) - 1 = n
      BY <1>1, <1>2, <1>5
    <3>2. s[n + 1] = u[n + 1]
      BY <1>6, <3>1
    <3>3. u[n + 1] = m[n]
      BY <1>5, <3>1
    <3> QED BY <3>2, <3>3
  <2> QED BY <2>1, <2>2, <2>3
<1>9. k \in Nat /\ 1 <= k /\ k + Len(s) <= Len(format) + 1 /\ Len(format) \in Nat
      /\ \A j \in 1..Len(s) : format[k + j - 1] = s[j]
  BY DEF Stands, FormatOK, s
<1>10. k \in 1..Len(format) /\ k + 1 + Len(m) <= Len(format)
  BY <1>2, <1>7, <1>9
<1>11. format[k] = "%"
  <2>1. 1 \in 1..Len(s) /\ k + 1 - 1 = k
    BY <1>2, <1>7, <1>9
  <2> QED BY <1>8, <1>9, <2>1
<1>12. format[k + 1 + Len(m)] = c
  <2>1. Len(m) + 2 \in 1..Len(s) /\ k + (Len(m) + 2) - 1 = k + 1 + Len(m)
    BY <1>2, <1>7, <1>9
  <2> QED BY <1>8, <1>9, <2>1
<1>13. ASSUME NEW n \in 1..Len(m) PROVE format[k + n] = m[n]
  <2>1. n + 1 \in 1..Len(s) /\ k + (n + 1) - 1 = k + n
    BY <1>2, <1>7, <1>9
  <2> QED BY <1>8, <1>9, <2>1
<1> QED BY <1>2, <1>7, <1>10, <1>11, <1>12, <1>13 DEF ConversionAt, s

(* What printf finds there. *)
LEMMA ConversionFound ==
  ASSUME NEW format, FormatOK(format), NEW k, NEW c, NEW m \in LengthModifiers,
         ConversionAt(format, k, c, m), NotModifier(c), c # "%"
  PROVE  /\ ModifierAt(format, k + 1) = m /\ CharAt(format, k + 1 + Len(m)) = c
         /\ CharAt(format, k + 1) # "%"
         /\ \A j \in (k + 1)..(k + 1 + Len(m)) : format[j] # "%"
<1>1. k \in Nat /\ 1 <= k /\ Len(m) \in Nat /\ Len(format) \in Nat /\ k + 1 + Len(m) <= Len(format)
  BY DEF ConversionAt, FormatOK
<1>2. \A j \in (k + 1)..(k + 1 + Len(m)) : j \in 1..Len(format) /\ CharAt(format, j) = format[j]
  BY <1>1 DEF CharAt
<1>3. CharAt(format, k + 1 + Len(m)) = c
  <2>1. k + 1 + Len(m) \in (k + 1)..(k + 1 + Len(m))
    BY <1>1
  <2> QED BY <1>2, <2>1 DEF ConversionAt
<1>4. ASSUME NEW j \in (k + 1)..(k + 1 + Len(m)) PROVE format[j] # "%"
  <2>1. CASE j = k + 1 + Len(m)
    BY <2>1 DEF ConversionAt
  <2>2. CASE j # k + 1 + Len(m)
    <3>1. j - k \in 1..Len(m) /\ k + (j - k) = j
      BY <1>1, <2>2
    <3>2. format[k + (j - k)] = m[j - k] /\ m[j - k] # "%"
      BY <3>1, Modifiers DEF ConversionAt
    <3> QED BY <3>1, <3>2
  <2> QED BY <2>1, <2>2
<1>5. CharAt(format, k + 1) # "%"
  <2>1. k + 1 \in (k + 1)..(k + 1 + Len(m))
    BY <1>1
  <2> QED BY <1>2, <1>4, <2>1
<1>6. ModifierAt(format, k + 1) = m
  <2>1. k + 1 \in Nat
    BY <1>1
  <2>2. ASSUME NEW n \in 1..Len(m) PROVE CharAt(format, (k + 1) + n - 1) = m[n]
    <3>1. (k + 1) + n - 1 = k + n /\ k + n \in (k + 1)..(k + 1 + Len(m))
      BY <1>1
    <3> QED BY <1>2, <3>1 DEF ConversionAt
  <2>3. NotModifier(CharAt(format, (k + 1) + Len(m)))
    BY <1>3
  <2> QED BY <2>1, <2>2, <2>3, ModifierFound
<1> QED BY <1>3, <1>4, <1>5, <1>6

-----------------------------------------------------------------------------
(* The directives, kind by kind.                                           *)

(* What a directive prints when printf has rejected, the argument that comes next, and
   what comes after it. *)
Piece(d, rejected) == IF rejected /\ d.kind # "percent" THEN d.spelled ELSE Shown(d)
NextArg(d, a, r) == IF d.takes /\ ~r THEN a + 1 ELSE a
Rejects(d, r) == r \/ d.kind = "unknown"

PrintsPiece(format, f, d, k, a, r) ==
  LET q == Rejects(d, r) IN
  /\ Text(format, f, k, a, r) /\ Piece(d, q) \in Seq(Character)
  /\ f[<<k, a, r>>] = Piece(d, q) \o f[<<k + Len(d.spelled), NextArg(d, a, r), q>>]

(* It prints s, and goes on behind it, at argument b, having rejected a conversion iff q. *)
GoesOnAt(format, f, s, n, k, a, r, b, q) ==
  Text(format, f, k, a, r) /\ f[<<k, a, r>>] = s \o f[<<k + n, b, q>>]

(* The conversions that printf knows are characters of their own. *)
Conversions == {"d", "i", "o", "u", "x", "X", "p", "c", "s"}

(* The letters of conversions are no modifiers and no '%'. *)
LEMMA ConversionLetters ==
  ASSUME NEW c \in Conversions
  PROVE  c \in Character /\ c # "%" /\ NotModifier(c)
<1> DEFINE Letters == {"h", "l", "L", "j", "z", "t"}
<1>1. ASSUME NEW m \in LengthModifiers, NEW n \in 1..Len(m) PROVE m[n] \in Letters
  <2>1. m = <<>> \/ \E x \in Letters : m = <<x>> \/ m = <<x, x>>
    BY DEF LengthModifiers
  <2> HIDE DEF Letters
  <2>2. CASE m = <<>>
    BY <2>2
  <2>3. ASSUME NEW x \in Letters, m = <<x>> PROVE m[n] \in Letters
    BY <2>3
  <2>4. ASSUME NEW x \in Letters, m = <<x, x>> PROVE m[n] \in Letters
    <3>1. Len(m) = 2 /\ m[1] = x /\ m[2] = x
      BY <2>4
    <3>2. n = 1 \/ n = 2
      BY <3>1
    <3> QED BY <3>1, <3>2
  <2> QED BY <2>1, <2>2, <2>3, <2>4
<1>2. c \notin Letters /\ c # "%"
  BY DEF Conversions
<1>3. c \in Character
  BY DEF Conversions, Character
<1> HIDE DEF Letters
<1> QED BY <1>1, <1>2, <1>3 DEF NotModifier

(* Plain characters. *)
LEMMA RawDirective ==
  ASSUME NEW format, FormatOK(format), NEW args, NEW f, Prints(format, args, f),
         NEW k, NEW a \in Nat, NEW r \in BOOLEAN, NEW s, Stands(format, k, s),
         \A j \in 1..Len(s) : s[j] # "%", Text(format, f, k + Len(s), a, r)
  PROVE  GoesOnAt(format, f, s, Len(s), k, a, r, a, r)
<1> DEFINE e == k + Len(s)
<1>1. k \in 1..(Len(format) + 1) /\ Len(s) \in Nat /\ Len(format) \in Nat /\ k \in Nat
  BY DEF Stands, FormatOK
<1>2. e \in k..(Len(format) + 1)
  BY <1>1 DEF Stands
<1>3. ASSUME NEW j \in k..(e - 1) PROVE format[j] # "%"
  <2>1. j - k + 1 \in 1..Len(s) /\ k + (j - k + 1) - 1 = j
    BY <1>1
  <2> QED BY <2>1 DEF Stands
<1>4. Text(format, f, e, a, r) /\ e = k + Len(s)
  OBVIOUS
<1> HIDE DEF e
<1>5. SubSeq(format, k, e - 1) = s
  BY <1>4, StandsThere
<1>6. Runs(format, f, k, e, a, r)
  BY <1>1, <1>2, <1>3, <1>4, RunStep
<1> QED BY <1>5, <1>6 DEF Runs, e, GoesOnAt

(* A conversion that is printed as it stands. *)
LEMMA RejectedConversion ==
  ASSUME NEW format, FormatOK(format), NEW args, NEW f, Prints(format, args, f),
         NEW k, NEW a \in Nat, NEW r \in BOOLEAN, NEW d, NEW c \in Character, NEW m \in LengthModifiers,
         Conversion(d, c, m), Stands(format, k, d.spelled), NotModifier(c), c # "%",
         r \/ ~ Known(c, m), Text(format, f, k + Len(d.spelled), a, TRUE)
  PROVE  GoesOnAt(format, f, d.spelled, Len(d.spelled), k, a, r, a, TRUE)
<1> DEFINE e == k + Len(d.spelled)
           q == TRUE
           p == <<"%">>
           last == f[<<e, a, q>>]
           s == SubSeq(format, k + 1, e - 1)
<1>1. ConversionAt(format, k, c, m) /\ Len(d.spelled) = Len(m) + 2
  BY ConversionStands
<1>2. /\ ModifierAt(format, k + 1) = m /\ CharAt(format, k + 1 + Len(m)) = c
      /\ CharAt(format, k + 1) # "%"
      /\ \A j \in (k + 1)..(k + 1 + Len(m)) : format[j] # "%"
  BY <1>1, ConversionFound
<1>3. /\ k \in 1..Len(format) /\ Len(m) \in Nat /\ Len(format) \in Nat /\ format[k] = "%"
      /\ k + 1 + Len(m) <= Len(format) /\ format \in Seq(Character)
  BY <1>1 DEF ConversionAt, FormatOK
<1>4. e = k + Len(m) + 2 /\ e - 1 = k + 1 + Len(m)
  BY <1>1, <1>3
<1>5. k + 1 \in 1..(Len(format) + 1) /\ e \in (k + 1)..(Len(format) + 1)
      /\ \A j \in (k + 1)..(e - 1) : format[j] # "%"
  BY <1>2, <1>3, <1>4
<1>6. Text(format, f, e, a, q) /\ q \in BOOLEAN
  OBVIOUS
<1>7. SubSeq(format, k, e - 1) = d.spelled
  <2>1. e = k + Len(d.spelled)
    OBVIOUS
  <2> HIDE DEF e
  <2> QED BY <2>1, StandsThere
<1>8. last \in Seq(Character)
  BY <1>6 DEF Text
<1> HIDE DEF e, last
<1>9. Runs(format, f, k + 1, e, a, q)
  <2> DEFINE i == k + 1
  <2>1. i \in 1..(Len(format) + 1) /\ e \in i..(Len(format) + 1) /\ \A j \in i..(e - 1) : format[j] # "%"
    BY <1>5
  <2> HIDE DEF i, q
  <2>2. Runs(format, f, i, e, a, q)
    BY <1>6, <2>1, RunStep
  <2> QED BY <2>2 DEF i
<1>10. Text(format, f, k, a, r) /\ f[<<k, a, r>>] = p \o f[<<k + 1, a, q>>]
  <2>1. Text(format, f, k + 1, a, TRUE)
    BY <1>9 DEF Runs
  <2>2. r \/ NotKnown(format, k)
    BY <1>2 DEF NotKnown
  <2>3. k \in 1..Len(format) /\ format[k] = "%" /\ CharAt(format, k + 1) # "%"
    BY <1>2, <1>3
  <2>4. RejectGoesOn(format, f, k, a, r)
    BY <2>1, <2>2, <2>3, RejectStep
  <2> QED BY <2>4 DEF RejectGoesOn
<1>11. f[<<k + 1, a, q>>] = s \o last
  BY <1>9 DEF Runs, last
<1>12. s \in Seq(Character)
  <2>1. k + 1 \in Int /\ e - 1 \in Int /\ \A j \in (k + 1)..(e - 1) : format[j] \in Character
    BY <1>3, <1>4
  <2> QED BY <2>1, SubSeqProperties
<1>13. d.spelled = p \o s
  <2>1. e - 1 \in k..Len(format)
    BY <1>3, <1>4
  <2>2. SubSeq(format, k, e - 1) = <<format[k]>> \o SubSeq(format, k + 1, e - 1)
    BY <1>3, <2>1, SubSeqRecursiveFirst
  <2> QED BY <1>3, <1>7, <2>2
<1>14. p \in Seq(Character)
  BY DEF Character
<1> HIDE DEF p, s
<1>15. (p \o s) \o last = p \o (s \o last)
  BY <1>8, <1>12, <1>14, ConcatAssociative
<1>16. f[<<k, a, r>>] = d.spelled \o last
  BY <1>10, <1>11, <1>13, <1>15
<1> QED BY <1>10, <1>16 DEF last, e, GoesOnAt

(* A conversion that is done. *)
LEMMA DoneConversion ==
  ASSUME NEW format, FormatOK(format), NEW args, NEW f, Prints(format, args, f),
         NEW k, NEW a \in Nat, NEW d, NEW c \in Conversions, NEW m \in LengthModifiers,
         Conversion(d, c, m), Stands(format, k, d.spelled), Known(c, m),
         Converted(c, args[a]) \in Seq(Character),
         Text(format, f, k + Len(d.spelled), a + 1, FALSE)
  PROVE  GoesOnAt(format, f, Converted(c, args[a]), Len(d.spelled), k, a, FALSE, a + 1, FALSE)
<1>1. c \in Character /\ c # "%" /\ NotModifier(c)
  BY ConversionLetters
<1>2. ConversionAt(format, k, c, m) /\ Len(d.spelled) = Len(m) + 2
  BY <1>1, ConversionStands
<1>3. /\ ModifierAt(format, k + 1) = m /\ CharAt(format, k + 1 + Len(m)) = c
      /\ CharAt(format, k + 1) # "%"
  BY <1>1, <1>2, ConversionFound
<1>4. k \in 1..Len(format) /\ Len(m) \in Nat /\ format[k] = "%"
  BY <1>2 DEF ConversionAt
<1>5. k + Len(d.spelled) = k + 2 + Len(m)
  BY <1>2, <1>4
<1>6. Text(format, f, k + 2 + Len(m), a + 1, FALSE)
  BY <1>5
<1>7. KnownGoesOn(format, args, f, k, a, c, m)
  BY <1>3, <1>4, <1>6, KnownStep
<1> QED BY <1>5, <1>7 DEF KnownGoesOn, GoesOnAt

(* A signed number. *)
LEMMA ConvertedInt ==
  ASSUME NEW c \in Signed, NEW v \in 0..(WORD - 1)
  PROVE  /\ Converted(c, v) = IF 2 * v < WORD THEN Numeral(v, 10) ELSE <<"-">> \o Numeral(WORD - v, 10)
         /\ Converted(c, v) \in Seq(Character)
<1>1. WORD \in Nat /\ WORD > 9 /\ v \in Nat /\ v < WORD
  BY PrintfAssumption
<1>2. c \in {"d", "i"} /\ Base(c) = 10
  BY DEF Signed, Base
<1>3. CASE 2 * v < WORD
  <2>1. convert_integer(v, 10) = Numeral(v, 10) /\ Numeral(v, 10) \in Seq(Character)
    BY <1>1, ConvertRight
  <2>2. ~(2 * v >= WORD)
    BY <1>1, <1>3
  <2>3. Converted(c, v) = convert_integer(v, Base(c))
    BY <1>2, <1>3, <2>2 DEF Converted, Signed
  <2> QED BY <1>2, <1>3, <2>1, <2>3
<1>4. CASE 2 * v >= WORD
  <2>1. WORD - v \in Nat /\ WORD - v < WORD
    BY <1>1, <1>4
  <2>2. convert_integer(WORD - v, 10) = Numeral(WORD - v, 10) /\ Numeral(WORD - v, 10) \in Seq(Character)
    BY <2>1, ConvertRight
  <2>3. Converted(c, v) = <<"-">> \o convert_integer(WORD - v, 10)
    <3>1. c \in Signed /\ c \notin {"o", "u", "x", "X", "p"} /\ c # "c" /\ c # "s" /\ ~(2 * v < WORD)
      BY <1>1, <1>2, <1>4
    <3> HIDE DEF Signed
    <3> QED BY <1>4, <3>1, Zenon DEF Converted
  <2>4. <<"-">> \in Seq(Character)
    BY DEF Character
  <2>5. <<"-">> \o Numeral(WORD - v, 10) \in Seq(Character)
    BY <2>2, <2>4, ConcatProperties
  <2>6. ~(2 * v < WORD)
    BY <1>1, <1>4
  <2> QED BY <2>2, <2>3, <2>5, <2>6
<1> QED BY <1>1, <1>3, <1>4

(* An unsigned one. *)
LEMMA ConvertedUint ==
  ASSUME NEW c \in {"o", "u", "x", "X", "p"}, NEW v \in 0..(WORD - 1)
  PROVE  Converted(c, v) = Numeral(v, Base(c)) /\ Converted(c, v) \in Seq(Character)
<1>1. WORD \in Nat /\ v \in Nat /\ v < WORD
  BY PrintfAssumption
<1>2. Base(c) \in Nat /\ Base(c) >= 2 /\ Base(c) <= 16
  BY DEF Base
<1>3. Converted(c, v) = convert_integer(v, Base(c))
  BY DEF Converted, Signed
<1> QED BY <1>1, <1>2, <1>3, ConvertRight

(* A conversion that is no number. *)
LEMMA ConvertedText ==
  ASSUME NEW arg
  PROVE  Converted("c", arg) = <<arg>> /\ Converted("s", arg) = arg
BY DEF Converted, Signed

(* What a directive with an argument shows is what its conversion yields. *)
LEMMA ShownConverted ==
  ASSUME NEW d, Written(d), d.takes
  PROVE  /\ Shown(d) \in Seq(Character) /\ d.kind \notin {"percent", "unknown"}
         /\ \E m \in LengthModifiers, c \in Conversions :
              Known(c, m) /\ Conversion(d, c, m) /\ Converted(c, d.arg) = Shown(d)
<1>1. d.kind \in {"int", "uint", "char", "text"}
  BY DEF Written
<1>2. CASE d.kind = "int"
  <2>1. PICK m \in LengthModifiers, c \in Signed : Known(c, m) /\ Conversion(d, c, m)
    BY <1>2 DEF Written
  <2>2. d.arg \in 0..(WORD - 1)
    BY <1>2 DEF Written
  <2>3. Shown(d) = IF 2 * d.arg < WORD THEN Numeral(d.arg, 10) ELSE <<"-">> \o Numeral(WORD - d.arg, 10)
    BY <1>2 DEF Shown
  <2>4. Converted(c, d.arg) = Shown(d) /\ Shown(d) \in Seq(Character)
    BY <2>2, <2>3, ConvertedInt
  <2>5. c \in Conversions
    BY DEF Conversions, Signed
  <2> QED BY <1>2, <2>1, <2>4, <2>5
<1>3. CASE d.kind = "uint"
  <2>1. PICK m \in LengthModifiers, c \in {"o", "u", "x", "X", "p"} :
               Known(c, m) /\ Conversion(d, c, m) /\ d.base = Base(c)
    BY <1>3 DEF Written
  <2>2. d.arg \in 0..(WORD - 1)
    BY <1>3 DEF Written
  <2>3. Shown(d) = Numeral(d.arg, Base(c))
    BY <1>3, <2>1 DEF Shown
  <2>4. Converted(c, d.arg) = Shown(d) /\ Shown(d) \in Seq(Character)
    BY <2>2, <2>3, ConvertedUint
  <2>5. c \in Conversions
    BY DEF Conversions
  <2> QED BY <1>3, <2>1, <2>4, <2>5
<1>4. CASE d.kind = "char"
  <2>1. PICK m \in LengthModifiers : Conversion(d, "c", m)
    BY <1>4 DEF Written
  <2>2. d.arg \in Character
    BY <1>4 DEF Written, Character
  <2>3. Shown(d) = <<d.arg>>
    BY <1>4 DEF Shown
  <2>4. Known("c", m) /\ "c" \in Conversions
    BY DEF Known, Conversions
  <2> QED BY <1>4, <2>1, <2>2, <2>3, <2>4, ConvertedText
<1>5. CASE d.kind = "text"
  <2>1. PICK m \in LengthModifiers : Conversion(d, "s", m)
    BY <1>5 DEF Written
  <2>2. d.arg \in Seq(STRING \ {NUL})
    BY <1>5 DEF Written
  <2>3. \A x \in Seq(STRING \ {NUL}) : x \in Seq(Character)
    BY DEF Character
  <2>4. Shown(d) = d.arg
    BY <1>5 DEF Shown
  <2>5. Known("s", m) /\ "s" \in Conversions
    BY DEF Known, Conversions
  <2> QED BY <1>5, <2>1, <2>2, <2>3, <2>4, <2>5, ConvertedText
<1> QED BY <1>1, <1>2, <1>3, <1>4, <1>5

(* The directives with an argument. *)
LEMMA TakingDirective ==
  ASSUME NEW format, FormatOK(format), NEW args, NEW f, Prints(format, args, f),
         NEW k, NEW a \in Nat, NEW r \in BOOLEAN, NEW d, Written(d), Stands(format, k, d.spelled),
         d.takes, ~r => args[a] = d.arg,
         Text(format, f, k + Len(d.spelled), NextArg(d, a, r), Rejects(d, r))
  PROVE  PrintsPiece(format, f, d, k, a, r)
<1>1. Shown(d) \in Seq(Character) /\ d.kind \notin {"percent", "unknown"}
  BY ShownConverted
<1>2. PICK m \in LengthModifiers, c \in Conversions :
        Known(c, m) /\ Conversion(d, c, m) /\ Converted(c, d.arg) = Shown(d)
  BY ShownConverted
<1>3. CASE r = TRUE
  <2>1. Rejects(d, r) = TRUE /\ NextArg(d, a, r) = a /\ Piece(d, Rejects(d, r)) = d.spelled
    BY <1>1, <1>3 DEF Rejects, NextArg, Piece
  <2>2. c \in Character /\ c # "%" /\ NotModifier(c)
    BY ConversionLetters
  <2>3. Text(format, f, k + Len(d.spelled), a, TRUE)
    BY <2>1
  <2>4. GoesOnAt(format, f, d.spelled, Len(d.spelled), k, a, r, a, TRUE)
    BY <1>2, <1>3, <2>2, <2>3, RejectedConversion
  <2>5. d.spelled \in Seq(Character)
    BY DEF Stands
  <2> QED BY <2>1, <2>4, <2>5 DEF PrintsPiece, GoesOnAt
<1>4. CASE r = FALSE
  <2>1. Rejects(d, r) = FALSE /\ NextArg(d, a, r) = a + 1 /\ Piece(d, Rejects(d, r)) = Shown(d)
    BY <1>1, <1>4 DEF Rejects, NextArg, Piece
  <2>2. Converted(c, args[a]) = Shown(d)
    BY <1>2, <1>4
  <2>3. Text(format, f, k + Len(d.spelled), a + 1, FALSE)
    BY <2>1
  <2>4. Converted(c, args[a]) \in Seq(Character)
    BY <1>1, <2>2
  <2>5. GoesOnAt(format, f, Converted(c, args[a]), Len(d.spelled), k, a, FALSE, a + 1, FALSE)
    BY <1>2, <2>3, <2>4, DoneConversion
  <2> QED BY <1>1, <1>4, <2>1, <2>2, <2>5 DEF PrintsPiece, GoesOnAt
<1> QED BY <1>3, <1>4

(* A conversion that printf does not know. *)
LEMMA UnknownDirective ==
  ASSUME NEW format, FormatOK(format), NEW args, NEW f, Prints(format, args, f),
         NEW k, NEW a \in Nat, NEW r \in BOOLEAN, NEW d, Written(d), Stands(format, k, d.spelled),
         d.kind = "unknown",
         Text(format, f, k + Len(d.spelled), NextArg(d, a, r), Rejects(d, r))
  PROVE  PrintsPiece(format, f, d, k, a, r)
<1>1. NextArg(d, a, r) = a /\ Rejects(d, r) = TRUE /\ Piece(d, Rejects(d, r)) = d.spelled
  <2>1. ~d.takes
    BY DEF Written
  <2>2. Rejects(d, r) = TRUE
    BY DEF Rejects
  <2>3. d.kind # "percent"
    OBVIOUS
  <2> QED BY <2>1, <2>2, <2>3 DEF NextArg, Piece
<1> DEFINE c == d.spelled[Len(d.spelled)]
<1>2. PICK m \in LengthModifiers : Plain(c) /\ NotModifier(c) /\ ~ Known(c, m) /\ Conversion(d, c, m)
  <2>1. PICK m \in LengthModifiers :
               /\ Plain(c) /\ \A o \in LengthModifiers : \A n \in 1..Len(o) : c # o[n]
               /\ ~ Known(c, m) /\ Conversion(d, c, m)
    BY SMTT(30) DEF Written
  <2>2. NotModifier(c)
    <3> HIDE DEF c
    <3> QED BY <2>1 DEF NotModifier
  <2> QED BY <2>1, <2>2
<1>3. c \in Character /\ c # "%"
  BY <1>2 DEF Plain, Character
<1>4. Text(format, f, k + Len(d.spelled), a, TRUE)
  BY <1>1
<1> HIDE DEF c
<1>5. GoesOnAt(format, f, d.spelled, Len(d.spelled), k, a, r, a, TRUE)
  BY <1>2, <1>3, <1>4, RejectedConversion
<1>6. d.spelled \in Seq(Character)
  BY DEF Stands
<1> QED BY <1>1, <1>5, <1>6 DEF PrintsPiece, GoesOnAt

(* '%%'. *)
LEMMA PercentDirective ==
  ASSUME NEW format, FormatOK(format), NEW args, NEW f, Prints(format, args, f),
         NEW k, NEW a \in Nat, NEW r \in BOOLEAN, NEW d, Written(d), Stands(format, k, d.spelled),
         d.kind = "percent",
         Text(format, f, k + Len(d.spelled), NextArg(d, a, r), Rejects(d, r))
  PROVE  PrintsPiece(format, f, d, k, a, r)
<1>1. /\ d.spelled = <<"%", "%">> /\ NextArg(d, a, r) = a /\ Rejects(d, r) = r
      /\ Piece(d, Rejects(d, r)) = <<"%">>
  <2>1. ~d.takes /\ d.spelled = <<"%", "%">>
    BY DEF Written
  <2>2. d.kind # "unknown" /\ d.kind # "int" /\ d.kind # "uint" /\ d.kind # "text" /\ d.kind # "char"
    OBVIOUS
  <2>3. Rejects(d, r) = r
    BY <2>2, Zenon DEF Rejects
  <2>4. Shown(d) = <<"%">>
    BY <2>2 DEF Shown
  <2>5. Piece(d, Rejects(d, r)) = Shown(d)
    BY Zenon DEF Piece
  <2> QED BY <2>1, <2>3, <2>4, <2>5 DEF NextArg
<1>2. Len(d.spelled) = 2 /\ d.spelled[1] = "%" /\ d.spelled[2] = "%"
  BY <1>1
<1>3. k \in Nat /\ 1 <= k /\ Len(format) \in Nat /\ k + 2 <= Len(format) + 1
  BY <1>2 DEF Stands, FormatOK
<1>4. format[k] = "%" /\ format[k + 1] = "%"
  <2>1. format[k + 1 - 1] = "%" /\ format[k + 2 - 1] = "%"
    BY <1>2 DEF Stands
  <2>2. k + 1 - 1 = k /\ k + 2 - 1 = k + 1
    BY <1>3
  <2> QED BY <2>1, <2>2
<1>5. k \in 1..Len(format) /\ k + 1 <= Len(format) /\ Text(format, f, k + 2, a, r)
  BY <1>1, <1>2, <1>3
<1>6. PercentGoesOn(format, f, k, a, r)
  BY <1>4, <1>5, PercentStep
<1>7. <<"%">> \in Seq(Character)
  BY DEF Character
<1> QED BY <1>1, <1>2, <1>6, <1>7 DEF PrintsPiece, PercentGoesOn

(* Every directive prints its piece. *)
LEMMA DirectiveStep ==
  ASSUME NEW format, FormatOK(format), NEW args, NEW f, Prints(format, args, f),
         NEW k, NEW a \in Nat, NEW r \in BOOLEAN, NEW d, Written(d), Stands(format, k, d.spelled),
         d.takes /\ ~r => args[a] = d.arg,
         Text(format, f, k + Len(d.spelled), NextArg(d, a, r), Rejects(d, r))
  PROVE  PrintsPiece(format, f, d, k, a, r)
<1>1. d.takes \/ d.kind = "unknown" \/ d.kind = "percent" \/ d.kind = "raw"
  BY DEF Written
<1>2. CASE d.takes
  BY <1>2, TakingDirective
<1>3. CASE d.kind = "unknown"
  BY <1>3, UnknownDirective
<1>4. CASE d.kind = "percent"
  BY <1>4, PercentDirective
<1>5. CASE d.kind = "raw"
  <2>1. NextArg(d, a, r) = a /\ Rejects(d, r) = r /\ Piece(d, Rejects(d, r)) = d.spelled
    <3>1. ~d.takes
      BY <1>5 DEF Written
    <3>2. /\ d.kind # "unknown" /\ d.kind # "int" /\ d.kind # "uint" /\ d.kind # "text"
          /\ d.kind # "char" /\ d.kind # "percent"
      BY <1>5
    <3>3. Rejects(d, r) = r
      BY <3>2, Zenon DEF Rejects
    <3>4. Shown(d) = d.spelled
      BY <3>2 DEF Shown
    <3>5. Piece(d, Rejects(d, r)) = d.spelled
      BY <3>4, Zenon DEF Piece
    <3> QED BY <3>1, <3>3, <3>5 DEF NextArg
  <2>2. \A j \in 1..Len(d.spelled) : d.spelled[j] # "%"
    BY <1>5 DEF Written, Plain
  <2>3. Text(format, f, k + Len(d.spelled), a, r)
    BY <2>1
  <2> DEFINE s == d.spelled
  <2>4. GoesOnAt(format, f, s, Len(s), k, a, r, a, r)
    BY <2>2, <2>3, RawDirective
  <2> QED BY <2>1, <2>4 DEF PrintsPiece, GoesOnAt, Stands
<1> QED BY <1>1, <1>2, <1>3, <1>4, <1>5

-----------------------------------------------------------------------------
(* Where directives and arguments stand.                                   *)

(* The characters of a format. *)
FormatCharacter == Character \ {NUL}

(* A conversion consists of characters of a format. *)
LEMMA ConversionText ==
  ASSUME NEW d, NEW m \in LengthModifiers, NEW c \in FormatCharacter, Conversion(d, c, m)
  PROVE  d.spelled \in Seq(FormatCharacter)
<1> DEFINE Letters == {"h", "l", "L", "j", "z", "t"}
<1>1. "%" \in FormatCharacter /\ \A x \in Letters : x \in FormatCharacter
  BY DEF FormatCharacter, Character, NUL
<1>2. m = <<>> \/ \E x \in Letters : m = <<x>> \/ m = <<x, x>>
  BY DEF LengthModifiers
<1> HIDE DEF Letters
<1>3. m \in Seq(FormatCharacter)
  <2> DEFINE S == FormatCharacter
  <2>1. \A x \in Letters : x \in S
    BY <1>1
  <2> HIDE DEF S
  <2>2. CASE m = <<>>
    BY <2>2
  <2>3. ASSUME NEW x \in Letters, m = <<x>> \/ m = <<x, x>> PROVE m \in Seq(S)
    <3>1. x \in S
      BY <2>1
    <3>2. <<x>> \in Seq(S) /\ <<x, x>> \in Seq(S)
      BY <3>1
    <3> QED BY <2>3, <3>2
  <2>4. m \in Seq(S)
    BY <1>2, <2>2, <2>3
  <2> QED BY <2>4 DEF S
<1>4. <<"%">> \in Seq(FormatCharacter) /\ <<c>> \in Seq(FormatCharacter)
  BY <1>1
<1> DEFINE p == <<"%">>
           u == <<c>>
<1>5. p \in Seq(FormatCharacter) /\ u \in Seq(FormatCharacter) /\ d.spelled = p \o m \o u
  BY <1>4 DEF Conversion
<1> HIDE DEF p, u
<1>6. p \o m \in Seq(FormatCharacter)
  BY <1>3, <1>5, ConcatProperties
<1> QED BY <1>5, <1>6, ConcatProperties

(* What a directive stands for. *)
LEMMA WrittenText ==
  ASSUME NEW d, Written(d)
  PROVE  /\ d.spelled \in Seq(FormatCharacter) /\ Shown(d) \in Seq(Character)
         /\ d.takes \in BOOLEAN
<1>1. d.takes \in BOOLEAN
  BY DEF Written
<1>2. ASSUME NEW s \in Seq(FormatCharacter) PROVE s \in Seq(Character)
  BY DEF FormatCharacter
<1>3. CASE d.takes
  <2>1. PICK m \in LengthModifiers, c \in Conversions : Conversion(d, c, m)
    BY <1>3, ShownConverted
  <2>2. c \in FormatCharacter
    <3>1. c # NUL
      BY DEF Conversions, NUL
    <3> QED BY <3>1, ConversionLetters DEF FormatCharacter
  <2> QED BY <1>1, <1>3, <2>1, <2>2, ConversionText, ShownConverted
<1>4. CASE d.kind = "raw"
  <2>1. d.spelled \in Seq(STRING) /\ \A k \in 1..Len(d.spelled) : Plain(d.spelled[k])
    BY <1>4 DEF Written
  <2>2. \A k \in 1..Len(d.spelled) : d.spelled[k] \in FormatCharacter
    BY <2>1 DEF Plain, FormatCharacter, Character
  <2>3. d.spelled \in Seq(FormatCharacter)
    BY <2>1, <2>2
  <2>4. Shown(d) = d.spelled
    BY <1>4 DEF Shown
  <2> QED BY <1>1, <1>2, <2>3, <2>4
<1>5. CASE d.kind = "percent"
  <2>1. d.spelled = <<"%", "%">>
    BY <1>5 DEF Written
  <2>2. "%" \in FormatCharacter
    BY DEF FormatCharacter, Character, NUL
  <2>3. Shown(d) = <<"%">>
    BY <1>5 DEF Shown
  <2>4. d.spelled \in Seq(FormatCharacter) /\ Shown(d) \in Seq(FormatCharacter)
    BY <2>1, <2>2, <2>3
  <2> QED BY <1>1, <1>2, <2>4
<1>6. CASE d.kind = "unknown"
  <2> DEFINE c == d.spelled[Len(d.spelled)]
  <2>1. PICK m \in LengthModifiers : Plain(c) /\ Conversion(d, c, m)
    BY <1>6, SMTT(30) DEF Written
  <2>2. c \in FormatCharacter
    BY <2>1 DEF Plain, FormatCharacter, Character
  <2> HIDE DEF c
  <2>3. d.spelled \in Seq(FormatCharacter)
    BY <2>1, <2>2, ConversionText
  <2>4. Shown(d) = d.spelled
    BY <1>6 DEF Shown
  <2> QED BY <1>1, <1>2, <2>3, <2>4
<1>7. d.takes \/ d.kind = "raw" \/ d.kind = "percent" \/ d.kind = "unknown"
  BY DEF Written
<1> QED BY <1>3, <1>4, <1>5, <1>6, <1>7

(* A list of directives. *)
Directives(ds) == Len(ds) \in Nat /\ \A k \in 1..Len(ds) : Written(ds[k])

(* FP has where the directives begin in the format. *)
Spells(ds, FP) ==
  /\ FP[0] = <<>> /\ FormatOK(FP[Len(ds)])
  /\ \A i \in 0..Len(ds) : Len(FP[i]) \in Nat
  /\ \A i \in 1..Len(ds) : /\ Stands(FP[Len(ds)], Len(FP[i - 1]) + 1, ds[i].spelled)
                           /\ Len(FP[i]) = Len(FP[i - 1]) + Len(ds[i].spelled)

(* Format has every directive at its place. *)
LEMMA FormatRight ==
  ASSUME NEW ds, Directives(ds)
  PROVE  \E FP : Spells(ds, FP) /\ Format(ds) = FP[Len(ds)]
<1> DEFINE n == Len(ds)
           parts == [k \in 1..n |-> ds[k].spelled]
<1>1. n \in Nat /\ \A k \in 1..n : ds[k].spelled \in Seq(FormatCharacter)
  BY WrittenText DEF Directives
<1>2. parts \in Seq(Seq(FormatCharacter)) /\ Len(parts) = n /\ Format(ds) = Joined(parts)
      /\ \A k \in 1..n : parts[k] = ds[k].spelled
  BY <1>1 DEF Format
<1> HIDE DEF parts
<1>3. PICK FP : Joins(FormatCharacter, parts, FP) /\ Joined(parts) = FP[Len(parts)]
  BY <1>2, JoinedRight
<1>4. FP \in [0..n -> Seq(FormatCharacter)] /\ FP[0] = <<>>
  BY <1>2, <1>3 DEF Joins
<1>5. FP[n] \in Seq(FormatCharacter)
  BY <1>1, <1>4
<1>6. FormatOK(FP[n])
  BY <1>5 DEF FormatOK, FormatCharacter
<1>7. \A i \in 0..n : Len(FP[i]) \in Nat
  BY <1>1, <1>4
<1>8. ASSUME NEW i \in 1..n
      PROVE  /\ Stands(FP[n], Len(FP[i - 1]) + 1, ds[i].spelled)
             /\ Len(FP[i]) = Len(FP[i - 1]) + Len(ds[i].spelled)
  <2> DEFINE s == ds[i].spelled
             x == Len(FP[i - 1])
             F == FP[n]
  <2>1. i \in 1..Len(parts) /\ parts[i] = s /\ F = FP[Len(parts)]
    BY <1>2
  <2>2. /\ Len(FP[i]) = x + Len(s) /\ Len(FP[i]) <= Len(F)
        /\ \A j \in 1..Len(s) : F[x + j] = s[j]
    <3>1. PlacedIn(FormatCharacter, parts, FP, i)
      BY <1>2, <1>3, <2>1, JoinPlace
    <3> QED BY <2>1, <3>1 DEF PlacedIn
  <2>3. s \in Seq(Character) /\ Len(s) \in Nat /\ x \in Nat /\ Len(F) \in Nat
    <3>1. s \in Seq(FormatCharacter)
      BY <1>1
    <3>2. s \in Seq(Character) /\ Len(s) \in Nat
      <4> HIDE DEF s
      <4> QED BY <3>1 DEF FormatCharacter
    <3>3. i - 1 \in 0..n
      BY <1>1
    <3>4. x \in Nat
      BY <1>7, <3>3
    <3>5. Len(F) \in Nat
      BY <1>5
    <3> QED BY <3>2, <3>4, <3>5
  <2> HIDE DEF s, x, F
  <2>4. x + 1 \in 1..(Len(F) + 1) /\ (x + 1) + Len(s) <= Len(F) + 1
    BY <2>2, <2>3
  <2>5. ASSUME NEW j \in 1..Len(s) PROVE F[(x + 1) + j - 1] = s[j]
    <3>1. (x + 1) + j - 1 = x + j
      BY <2>3
    <3> QED BY <2>2, <3>1
  <2>6. Stands(F, x + 1, s)
    BY <2>3, <2>4, <2>5 DEF Stands
  <2> QED BY <2>2, <2>6 DEF s, x, F
<1> QED BY <1>2, <1>3, <1>4, <1>6, <1>7, <1>8 DEF Spells

(* AP has how many arguments the directives before take. *)
Gives(ds, args, AP) ==
  /\ AP[0] = 0 /\ \A i \in 0..Len(ds) : AP[i] \in Nat
  /\ \A i \in 1..Len(ds) :
       IF ds[i].takes THEN AP[i] = AP[i - 1] + 1 /\ args[AP[i - 1] + 1] = ds[i].arg
       ELSE AP[i] = AP[i - 1]

(* Args has the argument of every directive at its place. *)
LEMMA ArgsRight ==
  ASSUME NEW ds, Directives(ds)
  PROVE  \E AP : Gives(ds, Args(ds), AP)
<1> DEFINE n == Len(ds)
           S == {ds[k].arg : k \in 1..n}
           parts == [k \in 1..n |-> IF ds[k].takes THEN <<ds[k].arg>> ELSE <<>>]
<1>1. n \in Nat
  BY DEF Directives
<1>2. \A k \in 1..n : ds[k].arg \in S
  OBVIOUS
<1>3. /\ Len(parts) = n /\ Args(ds) = Joined(parts)
      /\ \A k \in 1..n : parts[k] = IF ds[k].takes THEN <<ds[k].arg>> ELSE <<>>
  BY <1>1 DEF Args
<1>4. parts \in Seq(Seq(S))
  <2>1. ASSUME NEW k \in 1..n PROVE parts[k] \in Seq(S)
    <3> HIDE DEF parts, S
    <3>1. ds[k].arg \in S
      BY <1>2
    <3>2. <<ds[k].arg>> \in Seq(S) /\ <<>> \in Seq(S)
      BY <3>1
    <3> QED BY <1>3, <3>2, Zenon
  <2>2. Len(parts) = n /\ parts \in [1..n -> Seq(S)]
    <3>1. parts = [k \in 1..n |-> parts[k]]
      OBVIOUS
    <3>2. \A k \in 1..n : parts[k] \in Seq(S)
      BY <2>1
    <3> HIDE DEF parts, S
    <3> QED BY <1>3, <3>1, <3>2
  <2> HIDE DEF parts, S
  <2> QED BY <1>1, <2>2
<1> HIDE DEF parts, S
<1>5. PICK F : Joins(S, parts, F) /\ Joined(parts) = F[Len(parts)]
  BY <1>4, JoinedRight
<1>6. F \in [0..n -> Seq(S)] /\ F[0] = <<>>
  BY <1>3, <1>5 DEF Joins
<1> DEFINE AP == [i \in 0..n |-> Len(F[i])]
<1>7. \A i \in 0..n : AP[i] = Len(F[i]) /\ AP[i] \in Nat
  BY <1>1, <1>6
<1>8. AP[0] = 0
  BY <1>1, <1>6
<1>9. ASSUME NEW i \in 1..n
      PROVE  IF ds[i].takes THEN AP[i] = AP[i - 1] + 1 /\ Args(ds)[AP[i - 1] + 1] = ds[i].arg
             ELSE AP[i] = AP[i - 1]
  <2>1. i \in 1..Len(parts) /\ i \in 0..n /\ i - 1 \in 0..n
    BY <1>1, <1>3
  <2>2. /\ Len(F[i]) = Len(F[i - 1]) + Len(parts[i])
        /\ \A j \in 1..Len(parts[i]) : F[Len(parts)][Len(F[i - 1]) + j] = parts[i][j]
    <3>1. PlacedIn(S, parts, F, i)
      BY <1>4, <1>5, <2>1, JoinPlace
    <3> QED BY <3>1 DEF PlacedIn
  <2>3. AP[i] = Len(F[i]) /\ AP[i - 1] = Len(F[i - 1]) /\ AP[i - 1] \in Nat
    BY <1>7, <2>1
  <2> HIDE DEF AP
  <2>4. CASE ds[i].takes
    <3>1. parts[i] = <<ds[i].arg>>
      BY <1>3, <2>4
    <3>2. Len(parts[i]) = 1 /\ parts[i][1] = ds[i].arg
      BY <3>1
    <3>3. F[Len(parts)][Len(F[i - 1]) + 1] = ds[i].arg
      BY <2>2, <3>2
    <3> QED BY <1>3, <1>5, <2>2, <2>3, <2>4, <3>2, <3>3
  <2>5. CASE ~ds[i].takes
    <3>1. parts[i] = <<>>
      BY <1>3, <2>5
    <3>2. Len(parts[i]) = 0
      BY <3>1
    <3> QED BY <2>2, <2>3, <2>5, <3>2
  <2> QED BY <2>4, <2>5
<1> HIDE DEF AP
<1> QED BY <1>7, <1>8, <1>9 DEF Gives

-----------------------------------------------------------------------------
(* printf, directive by directive.                                         *)

(* Whether printf has met a conversion it does not know, up to the k-th directive. *)
Rejected(ds, k) == \E j \in 1..k : ds[j].kind = "unknown"
Pieces(ds) == [k \in 1..Len(ds) |-> Piece(ds[k], Rejected(ds, k))]

(* printf rejects from the first conversion on that it does not know. *)
LEMMA RejectedStep ==
  ASSUME NEW ds, NEW i \in Nat \ {0}
  PROVE  /\ Rejected(ds, 0) = FALSE /\ Rejected(ds, i) \in BOOLEAN /\ Rejected(ds, i - 1) \in BOOLEAN
         /\ Rejected(ds, i) = Rejects(ds[i], Rejected(ds, i - 1))
<1>1. Rejected(ds, 0) = FALSE
  BY DEF Rejected
<1>2. \A j \in 1..i : j = i \/ j \in 1..(i - 1)
  OBVIOUS
<1>3. i \in 1..i /\ \A j \in 1..(i - 1) : j \in 1..i
  OBVIOUS
<1>4. Rejected(ds, i) <=> Rejected(ds, i - 1) \/ ds[i].kind = "unknown"
  BY <1>2, <1>3 DEF Rejected
<1>5. Rejected(ds, i) = (Rejected(ds, i - 1) \/ ds[i].kind = "unknown")
  <2>1. Rejected(ds, i) = TRUE \/ Rejected(ds, i) = FALSE
    BY Zenon DEF Rejected
  <2> QED BY <1>4, <2>1
<1>6. Rejected(ds, i) \in BOOLEAN /\ Rejected(ds, i - 1) \in BOOLEAN
  BY Zenon DEF Rejected
<1> QED BY <1>1, <1>5, <1>6, Zenon DEF Rejects

(* Texts can be joined in any order. *)
LEMMA TextsAssociate ==
  \A x \in Seq(Character), y \in Seq(Character), z \in Seq(Character) :
    (x \o y) \o z = x \o (y \o z)
<1>1. ASSUME NEW x \in Seq(Character), NEW y \in Seq(Character), NEW z \in Seq(Character)
      PROVE  (x \o y) \o z = x \o (y \o z)
  BY ConcatAssociative
<1> QED BY <1>1

(* Where printf is before the (i+1)-st directive, and what it prints from there. *)
PrintsFrom(ds, f, FP, AP, OP, i) ==
  LET k == Len(FP[i]) + 1
      r == Rejected(ds, i)
  IN \A a \in Nat : r \/ a = AP[i] + 1 =>
       Text(FP[Len(ds)], f, k, a, r) /\ OP[Len(ds)] = OP[i] \o f[<<k, a, r>>]

(* At the end of the format it prints nothing. *)
LEMMA PrintsAtEnd ==
  ASSUME NEW ds, Directives(ds), NEW args, NEW f, NEW FP, NEW AP, NEW OP,
         Spells(ds, FP), Prints(FP[Len(ds)], args, f), OP[Len(ds)] \in Seq(Character)
  PROVE  PrintsFrom(ds, f, FP, AP, OP, Len(ds))
<1> DEFINE n == Len(ds)
           format == FP[n]
           k == Len(format) + 1
           r == Rejected(ds, n)
<1>1. n \in Nat /\ Len(format) \in Nat
  BY DEF Directives, Spells
<1>2. r \in BOOLEAN
  BY Zenon DEF Rejected
<1>3. k \in Nat /\ k > Len(format) /\ ~(k <= Len(format))
  BY <1>1
<1> HIDE DEF k, r, format
<1>4. ASSUME NEW a \in Nat
      PROVE  Text(format, f, k, a, r) /\ OP[n] = OP[n] \o f[<<k, a, r>>]
  <2>1. f[<<k, a, r>>] = Body(format, args, f, k, a, r)
    BY <1>2, <1>3 DEF Prints, format
  <2>2. f[<<k, a, r>>] = <<>>
    BY <1>3, <2>1 DEF Body
  <2>3. OP[n] \o <<>> = OP[n]
    <3> DEFINE o == OP[n]
    <3>1. o \in Seq(Character)
      OBVIOUS
    <3> HIDE DEF o
    <3>2. o \o <<>> = o
      BY <3>1, ConcatEmptySeq
    <3> QED BY <3>2 DEF o
  <2>4. <<>> \in Seq(Character)
    OBVIOUS
  <2> QED BY <1>3, <2>2, <2>3, <2>4 DEF Text
<1> QED BY <1>4 DEF PrintsFrom, k, r, format

(* From directive to directive. *)
LEMMA PrintsBefore ==
  ASSUME NEW ds, Directives(ds), NEW args, NEW f, NEW FP, NEW AP, NEW OP,
         Spells(ds, FP), Gives(ds, args, AP), Prints(FP[Len(ds)], args, f),
         Joins(Character, Pieces(ds), OP), Pieces(ds) \in Seq(Seq(Character)),
         NEW i \in 1..Len(ds), PrintsFrom(ds, f, FP, AP, OP, i)
  PROVE  PrintsFrom(ds, f, FP, AP, OP, i - 1)
<1> DEFINE n == Len(ds)
           format == FP[n]
           d == ds[i]
           k == Len(FP[i - 1]) + 1
           r == Rejected(ds, i - 1)
           q == Rejected(ds, i)
           e == Len(FP[i]) + 1
<1>1. n \in Nat /\ i \in Nat \ {0} /\ i - 1 \in 0..n /\ i \in 0..n
  BY DEF Directives
<1>2. r \in BOOLEAN /\ q \in BOOLEAN /\ q = Rejects(d, r)
  BY <1>1, RejectedStep
<1>3. FormatOK(format) /\ Stands(format, k, d.spelled) /\ Prints(format, args, f) /\ Written(d)
  BY DEF Spells, Directives
<1>4. Len(FP[i]) = Len(FP[i - 1]) + Len(d.spelled) /\ Len(FP[i - 1]) \in Nat
  BY <1>1 DEF Spells
<1>5. Len(d.spelled) \in Nat
  BY <1>3 DEF Stands
<1>6. e = k + Len(d.spelled)
  <2> DEFINE x == Len(FP[i - 1])
             y == Len(d.spelled)
             z == Len(FP[i])
  <2>1. x \in Nat /\ y \in Nat /\ z = x + y /\ e = z + 1 /\ k = x + 1
    BY <1>4, <1>5
  <2> HIDE DEF x, y, z, e, k
  <2>2. e = k + y
    BY <2>1
  <2> QED BY <2>2 DEF y
<1>7. AP[i] \in Nat /\ AP[i - 1] \in Nat
      /\ IF d.takes THEN AP[i] = AP[i - 1] + 1 /\ args[AP[i - 1] + 1] = d.arg ELSE AP[i] = AP[i - 1]
  BY <1>1 DEF Gives
<1>8. Len(Pieces(ds)) = n /\ Pieces(ds)[i] = Piece(d, q)
  BY <1>1 DEF Pieces
<1>9. OP[i] = OP[i - 1] \o Piece(d, q) /\ OP[i - 1] \in Seq(Character)
  <2>1. i \in 1..Len(Pieces(ds))
    BY <1>8
  <2>2. PlacedIn(Character, Pieces(ds), OP, i)
    BY <2>1, JoinPlace
  <2> QED BY <1>8, <2>2 DEF PlacedIn
<1>10. \A b \in Nat : q \/ b = AP[i] + 1 =>
          Text(format, f, e, b, q) /\ OP[n] = OP[i] \o f[<<e, b, q>>]
  BY DEF PrintsFrom
<1> HIDE DEF d, k, r, q, e, format
<1>11. ASSUME NEW a \in Nat, r \/ a = AP[i - 1] + 1
       PROVE  Text(format, f, k, a, r) /\ OP[n] = OP[i - 1] \o f[<<k, a, r>>]
  <2> DEFINE b == NextArg(d, a, r)
             rest == f[<<e, b, q>>]
             o == OP[i - 1]
             p == Piece(d, q)
  <2>1. b \in Nat
    BY DEF NextArg
  <2>2. q \/ b = AP[i] + 1
    <3>1. CASE ~q
      <4>1. ~r
        BY <1>2, <3>1 DEF Rejects
      <4>2. a = AP[i - 1] + 1
        BY <1>11, <4>1
      <4> QED BY <1>7, <4>1, <4>2 DEF NextArg
    <3> QED BY <3>1
  <2>3. Text(format, f, e, b, q) /\ OP[n] = OP[i] \o rest
    <3> HIDE DEF b
    <3> QED BY <1>10, <2>1, <2>2
  <2>4. d.takes /\ ~r => args[a] = d.arg
    BY <1>7, <1>11
  <2>5. Text(format, f, k + Len(d.spelled), NextArg(d, a, r), Rejects(d, r))
    BY <1>2, <1>6, <2>3
  <2>6. PrintsPiece(format, f, d, k, a, r)
    BY <1>2, <1>3, <2>4, <2>5, DirectiveStep
  <2>7. Text(format, f, k, a, r) /\ p \in Seq(Character) /\ f[<<k, a, r>>] = p \o rest
    BY <1>2, <1>6, <2>6 DEF PrintsPiece
  <2>8. rest \in Seq(Character)
    BY <2>3 DEF Text
  <2>9. o \in Seq(Character) /\ OP[i] = o \o p
    BY <1>9
  <2>10. OP[n] = OP[i] \o rest
    BY <2>3
  <2>11. o = OP[i - 1]
    OBVIOUS
  <2> HIDE DEF rest, o, p
  <2>12. (o \o p) \o rest = o \o (p \o rest)
    <3>1. o \in Seq(Character) /\ p \in Seq(Character) /\ rest \in Seq(Character)
      BY <2>7, <2>8, <2>9
    <3> QED BY <3>1, TextsAssociate
  <2> QED BY <2>7, <2>9, <2>10, <2>11, <2>12
<1> QED BY <1>11 DEF PrintsFrom, k, r, format

(* What printf prints for a list of directives. *)
LEMMA PrintfPrints ==
  ASSUME NEW ds, Directives(ds)
  PROVE  printf(Format(ds), Args(ds)) = Joined(Pieces(ds))
<1> DEFINE n == Len(ds)
           args == Args(ds)
<1>1. n \in Nat /\ \A i \in 1..n : Written(ds[i])
  BY DEF Directives
<1>2. PICK FP : Spells(ds, FP) /\ Format(ds) = FP[n]
  BY FormatRight
<1>3. PICK AP : Gives(ds, args, AP)
  BY ArgsRight
<1>4. FormatOK(Format(ds))
  BY <1>2 DEF Spells
<1>5. PICK f : Prints(Format(ds), args, f) /\ printf(Format(ds), args) = f[<<1, 1, FALSE>>]
  BY <1>4, PrintfRecursion
<1>6. Pieces(ds) \in Seq(Seq(Character)) /\ Len(Pieces(ds)) = n
  <2>1. ASSUME NEW k \in 1..n PROVE Piece(ds[k], Rejected(ds, k)) \in Seq(Character)
    <3>1. ds[k].spelled \in Seq(FormatCharacter) /\ Shown(ds[k]) \in Seq(Character)
      BY <1>1, WrittenText
    <3>2. ds[k].spelled \in Seq(Character)
      BY <3>1 DEF FormatCharacter
    <3> QED BY <3>1, <3>2, Zenon DEF Piece
  <2> QED BY <1>1, <2>1 DEF Pieces
<1>7. PICK OP : Joins(Character, Pieces(ds), OP) /\ Joined(Pieces(ds)) = OP[n]
  BY <1>6, JoinedRight
<1>8. OP[n] \in Seq(Character) /\ OP[0] = <<>>
  BY <1>1, <1>6, <1>7 DEF Joins
<1> DEFINE T == {j \in Nat : j <= n => PrintsFrom(ds, f, FP, AP, OP, n - j)}
<1>9. 0 \in T
  <2>1. PrintsFrom(ds, f, FP, AP, OP, n)
    BY <1>2, <1>5, <1>8, PrintsAtEnd
  <2>2. n - 0 = n
    BY <1>1
  <2> QED BY <2>1, <2>2
<1>10. ASSUME NEW j \in T PROVE j + 1 \in T
  <2>1. j \in Nat /\ j + 1 \in Nat
    OBVIOUS
  <2>2. SUFFICES ASSUME j + 1 <= n PROVE PrintsFrom(ds, f, FP, AP, OP, n - (j + 1))
    BY <2>1
  <2>3. n - j \in 1..n /\ (n - j) - 1 = n - (j + 1) /\ j <= n
    BY <1>1, <2>1, <2>2
  <2>4. PrintsFrom(ds, f, FP, AP, OP, n - j)
    BY <2>3
  <2> DEFINE i == n - j
  <2>5. i \in 1..n /\ PrintsFrom(ds, f, FP, AP, OP, i)
    BY <2>3, <2>4
  <2> HIDE DEF i, T
  <2>6. PrintsFrom(ds, f, FP, AP, OP, i - 1)
    BY <1>2, <1>3, <1>5, <1>6, <1>7, <2>5, PrintsBefore
  <2> QED BY <2>3, <2>6 DEF i
<1>11. T \in SUBSET Nat
  OBVIOUS
<1>12. T = Nat
  <2> HIDE DEF T
  <2> QED BY <1>9, <1>10, <1>11, Induction
<1>13. PrintsFrom(ds, f, FP, AP, OP, 0)
  <2>1. n \in T /\ n - n = 0 /\ n <= n
    BY <1>1, <1>12
  <2> QED BY <2>1
<1>14. Len(FP[0]) + 1 = 1 /\ AP[0] + 1 = 1
  BY <1>2, <1>3 DEF Spells, Gives
<1>15. Rejected(ds, 0) = FALSE
  BY DEF Rejected
<1>16. OP[n] = OP[0] \o f[<<1, 1, FALSE>>] /\ f[<<1, 1, FALSE>>] \in Seq(Character)
  BY <1>13, <1>14, <1>15 DEF PrintsFrom, Text
<1> DEFINE x == f[<<1, 1, FALSE>>]
<1>17. <<>> \o x = x
  <2>1. x \in Seq(Character)
    BY <1>16
  <2> HIDE DEF x
  <2> QED BY <2>1, ConcatEmptySeq
<1> QED BY <1>5, <1>7, <1>8, <1>16, <1>17

-----------------------------------------------------------------------------
(* What is printed is right.                                               *)

(* The call that kernel_main makes stays the same, and so does what it prints. *)
TextInv == source \in Calls \cup {BannerCall} /\ text = Printed(source)

(* Every call prints what its directives ask for. *)
LEMMA TextShows ==
  ASSUME TextInv
  PROVE  TextRight
<1> DEFINE ds == source.call
<1>1. CASE ~source.log
  <2>1. ds \in PrintfCalls \cup {Banner} /\ text = printf(Format(ds), Args(ds))
    <3>1. CASE source = BannerCall
      BY <1>1, <3>1 DEF TextInv, BannerCall, Printed
    <3>2. CASE source \in [log : {FALSE}, call : PrintfCalls]
      BY <1>1, <3>2 DEF TextInv, Printed
    <3>3. CASE source \in [log : {TRUE}, call : LogCalls]
      BY <1>1, <3>3
    <3> QED BY <3>1, <3>2, <3>3 DEF TextInv, Calls
  <2>2. Directives(ds)
    BY <2>1, DirectiveAssumption DEF Directives
  <2>3. text = Joined(Pieces(ds))
    BY <2>1, <2>2, PrintfPrints
  <2>4. PrintfRight
    BY <2>3 DEF PrintfRight, Pieces, Piece, Rejected
  <2> QED BY <1>1, <2>4 DEF TextRight, LogNumbers
<1>2. CASE source.log
  <2>1. ds \in LogCalls
    <3>1. CASE source = BannerCall
      BY <1>2, <3>1 DEF BannerCall
    <3>2. CASE source \in [log : {FALSE}, call : PrintfCalls]
      BY <1>2, <3>2
    <3>3. CASE source \in [log : {TRUE}, call : LogCalls]
      BY <3>3
    <3> QED BY <3>1, <3>2, <3>3 DEF TextInv, Calls
  <2>2. ASSUME NEW k \in DOMAIN ds, ds[k].kind = "dec" PROVE DecimalRight(ds[k])
    <3>1. ds[k].arg \in 0..(WORD - 1) /\ ds[k].width \in Nat
      BY <2>1, <2>2, DirectiveAssumption
    <3> QED BY <3>1, PrintDecRight
  <2>3. LogNumbers
    BY <2>2 DEF LogNumbers, DecimalRight
  <2> QED BY <1>2, <2>3 DEF TextRight, PrintfRight
<1> QED BY <1>1, <1>2

(* What printf and log_print print is what their directives ask for, for every
   list of directives: plain characters, '%%', numbers of either sign in their
   base, characters and texts with any length modifier, and conversions that
   printf rejects; and the decimal numbers of log_print can be read back. *)
THEOREM TextsRight == ConsoleSpec => []TextRight
<1>1. ConsoleInit => TextInv
  BY DEF ConsoleInit, TextInv
<1>2. TextInv /\ [ConsoleNext]_consoleVars => TextInv'
  <2> SUFFICES ASSUME TextInv, [ConsoleNext]_consoleVars PROVE TextInv'
    OBVIOUS
  <2>1. source' = source /\ text' = text
    BY DEF ConsoleNext, Main, MainLoop, Byte, EchoNext, Test, NewlineColumn, NewlineRow, Put,
           AdvanceColumn, mainVars, consoleVars
  <2> QED BY <2>1 DEF TextInv
<1>3. TextInv => TextRight
  BY TextShows
<1> QED BY <1>1, <1>2, <1>3, PTL DEF ConsoleSpec
=============================================================================
