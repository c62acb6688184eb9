----------------------------- MODULE MCLiballoc -----------------------------
(***************************************************************************)
(* Small instances of Liballoc for TLC.                                    *)
(***************************************************************************)
EXTENDS Liballoc
=============================================================================
