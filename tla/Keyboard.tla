------------------------------ MODULE Keyboard ------------------------------
(***************************************************************************)
(* keyboard_handler (kernel/kb.c): one run of it per byte the keyboard     *)
(* sends, with interrupts off.  The bytes are make and break codes of      *)
(* keys, the bytes that precede the codes of some keys, and the answers of *)
(* the keyboard to the commands for its lights.  The handler takes every   *)
(* byte by itself, whatever came before it.  What the buffers hold is      *)
(* never read; where the handler writes is kept.                           *)
(***************************************************************************)
EXTENDS Integers

CONSTANT KB_MAXBUFFER

ASSUME KeyboardAssumption == KB_MAXBUFFER \in Nat \ {0}

Shifts == {"left_shift", "right_shift"}
Locks  == {"caps", "num", "scroll"}
Chars  == {"char"}     \* any key that is none of these
KeySet == Shifts \cup Locks \cup Chars

None == -1

VARIABLES
  kb_count, kb_count_raw,
  kb_ltmp,         \* the lights that are on
  kb_shift_flag, kb_caps_flag,
  wrote_raw,       \* where the handler wrote into kb_buffer_raw last
  wrote,           \* where it wrote into kb_buffer last, None if it did not
  down,            \* the keys that are held down
  prefix,          \* whether the last byte was 0xE0 or 0xE1
  pretended,       \* whether the last code of a shift with 0xE0 was a make code
  acks             \* answers of the keyboard that are still to come

vars == <<kb_count, kb_count_raw, kb_ltmp, kb_shift_flag, kb_caps_flag,
          wrote_raw, wrote, down, prefix, pretended, acks>>

Init ==
  /\ kb_count = 0 /\ kb_count_raw = 0
  /\ kb_ltmp = {} /\ kb_shift_flag = FALSE /\ kb_caps_flag = FALSE
  /\ wrote_raw = None /\ wrote = None
  /\ down = {} /\ prefix = FALSE /\ pretended = FALSE /\ acks = 0

-----------------------------------------------------------------------------
(* Mutant of AfterRaw: the counter is never reset. *)
AfterRaw_no_reset == kb_count_raw + 1

(* Store the byte: the position, and the counter afterwards. *)
RawPosition == IF kb_count_raw < KB_MAXBUFFER THEN kb_count_raw ELSE 0
AfterRaw    == IF kb_count_raw < KB_MAXBUFFER THEN kb_count_raw + 1 ELSE 0

StoreRawOnly ==
  /\ wrote_raw' = RawPosition /\ kb_count_raw' = AfterRaw
  /\ wrote' = None
  /\ UNCHANGED kb_count

(* Store the byte and the character of the key.  The character goes to the
   position of the raw counter, while kb_count is the one that is tested. *)
StoreRawAndChar ==
  /\ wrote_raw' = RawPosition
  /\ IF kb_count < KB_MAXBUFFER
     THEN /\ wrote' = AfterRaw /\ kb_count_raw' = AfterRaw + 1
          /\ UNCHANGED kb_count
     ELSE /\ wrote' = 0 /\ kb_count_raw' = AfterRaw
          /\ kb_count' = 0

(* Any key may be one with 0xE0 in front, but for the shift keys. *)
PlainOrPrefixed(key) == key \in Shifts => ~prefix

(* A make code, again and again while a key is held down. *)
Press(key) ==
  /\ PlainOrPrefixed(key) /\ prefix' = FALSE
  /\ down' = down \cup {key}
  /\ IF key \in Shifts
     THEN StoreRawOnly /\ kb_shift_flag' = TRUE
     ELSE StoreRawAndChar /\ UNCHANGED kb_shift_flag
  /\ IF key \in Locks
     THEN kb_ltmp' = kb_ltmp \cup {key} /\ acks' = acks + 2
     ELSE UNCHANGED <<kb_ltmp, acks>>
  /\ kb_caps_flag' = IF key = "caps" THEN ~kb_caps_flag ELSE kb_caps_flag
  /\ UNCHANGED pretended

(* Mutant of Break: only the left shift is looked at. *)
Break_left_only(key) ==
  /\ key \in down /\ PlainOrPrefixed(key)
  /\ down' = down \ {key} /\ prefix' = FALSE
  /\ StoreRawOnly
  /\ kb_shift_flag' = IF key = "left_shift" THEN FALSE ELSE kb_shift_flag
  /\ UNCHANGED <<kb_ltmp, kb_caps_flag, pretended, acks>>

(* A break code. *)
Break(key) ==
  /\ key \in down /\ PlainOrPrefixed(key)
  /\ down' = down \ {key} /\ prefix' = FALSE
  /\ StoreRawOnly
  /\ kb_shift_flag' = IF key \in Shifts THEN FALSE ELSE kb_shift_flag
  /\ UNCHANGED <<kb_ltmp, kb_caps_flag, pretended, acks>>

(* 0xE0 or 0xE1: a break code of no key to the handler. *)
Prefix ==
  /\ ~prefix /\ prefix' = TRUE
  /\ StoreRawOnly
  /\ UNCHANGED <<kb_ltmp, kb_shift_flag, kb_caps_flag, down, pretended, acks>>

(* Around Print Screen, and with Num Lock around the keys of the cursor, a keyboard
   sends the codes of a shift key behind 0xE0, though none is pressed or released. *)
FakeShift(on) ==
  /\ prefix /\ prefix' = FALSE
  /\ pretended' = on
  /\ StoreRawOnly
  /\ kb_shift_flag' = on
  /\ UNCHANGED <<kb_ltmp, kb_caps_flag, down, acks>>

(* The keyboard answers each byte of a command with a code that has the bit of
   break codes and belongs to no key, before it sends keys again. *)
Ack ==
  /\ acks > 0
  /\ acks' = acks - 1
  /\ StoreRawOnly
  /\ UNCHANGED <<kb_ltmp, kb_shift_flag, kb_caps_flag, down, prefix, pretended>>

KeyCode ==
  \/ \E key \in KeySet : Press(key) \/ Break(key)
  \/ Prefix \/ FakeShift(TRUE) \/ FakeShift(FALSE)

Next == (acks = 0 /\ KeyCode) \/ Ack

Spec == Init /\ [][Next]_vars

-----------------------------------------------------------------------------
(* Properties.                                                             *)

(* The kinds of values the variables hold.  The raw counter, which two stores
   move on and only the first one resets, gets at most one past the buffer. *)
TypeOK ==
  /\ kb_count \in 0..KB_MAXBUFFER /\ kb_count_raw \in 0..(KB_MAXBUFFER + 1)
  /\ kb_ltmp \subseteq Locks /\ kb_shift_flag \in BOOLEAN /\ kb_caps_flag \in BOOLEAN
  /\ wrote_raw \in {None} \cup 0..(KB_MAXBUFFER - 1)
  /\ wrote \in {None} \cup 0..KB_MAXBUFFER
  /\ down \subseteq KeySet /\ acks \in 0..2
  /\ prefix \in BOOLEAN /\ pretended \in BOOLEAN

(* The shift flag never sticks: while it is on, a shift key is held down, or the
   keyboard has pretended that one is and not taken that back.  The handler cannot
   tell the two apart: it forgets the byte 0xE0 that came before. *)
ShiftHeld == kb_shift_flag => down \cap Shifts # {} \/ pretended
=============================================================================
