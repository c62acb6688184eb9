------------------------------- MODULE MCRtc -------------------------------
(***************************************************************************)
(* Small instances of Rtc for TLC: times of day around which the registers *)
(* roll over.                                                              *)
(***************************************************************************)
EXTENDS Rtc

At(h, m, s) == 3600 * h + 60 * m + s

AllModes == [binary : BOOLEAN, h24 : BOOLEAN]
Bcd24 == {[binary |-> FALSE, h24 |-> TRUE]}

Rollovers == {At(0, 0, 8), At(9, 9, 58), At(11, 59, 58), At(19, 59, 59), At(23, 59, 58)}
Noon == {At(12, 30, 10)}
=============================================================================
