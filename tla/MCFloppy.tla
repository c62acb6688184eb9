------------------------------ MODULE MCFloppy ------------------------------
(***************************************************************************)
(* A small instance of Floppy for TLC: the first and the last sector of a  *)
(* side, the first of the other side and one of the next cylinder; a       *)
(* buffer inside a 64 KB page, one at its end and one that crosses it.     *)
(***************************************************************************)
EXTENDS Floppy

Places == {0, 17, 18, 36 + 18}
Addresses == {2^16 + 1000, 2 * 2^16 - 512, 2 * 2^16 - 511}
=============================================================================
