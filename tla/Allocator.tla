----------------------------- MODULE Allocator -----------------------------
(***************************************************************************)
(* What malloc, calloc, realloc and free of liballoc.h promise their       *)
(* callers, with nothing said about tags, free lists or pages: the set of  *)
(* blocks the callers own.  live[p] is the size of the block at p.  A      *)
(* block is handed out only where it overlaps no block that is still       *)
(* owned, it keeps its place and its size while it is owned, and it is     *)
(* given back as a whole.  A failed allocation leaves live unchanged.      *)
(***************************************************************************)
EXTENDS Integers

CONSTANT Sizes      \* the sizes callers ask for

VARIABLE live

(* The bytes p .. p+n-1 and q .. q+m-1 have none in common. *)
Apart(p, n, q, m) == p + n <= q \/ q + m <= p

Init == live = [p \in {} |-> 0]

Malloc ==
  \E p \in DOMAIN live' \ DOMAIN live, n \in Sizes :
     /\ \A q \in DOMAIN live : Apart(p, n, q, live[q])
     /\ live' = [q \in DOMAIN live \cup {p} |-> IF q = p THEN n ELSE live[q]]

Free ==
  \E p \in DOMAIN live :
     live' = [q \in DOMAIN live \ {p} |-> live[q]]

Next == Malloc \/ Free

Spec == Init /\ [][Next]_live
=============================================================================
