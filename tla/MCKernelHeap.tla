---------------------------- MODULE MCKernelHeap ----------------------------
(***************************************************************************)
(* Small instances of KernelHeap for TLC.                                  *)
(***************************************************************************)
EXTENDS KernelHeap
=============================================================================
