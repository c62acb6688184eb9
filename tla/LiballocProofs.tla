--------------------------- MODULE LiballocProofs ---------------------------
(***************************************************************************)
(* Proofs about Liballoc for every value of its constants.                 *)
(*                                                                         *)
(* The invariant IInv is proved inductive, one lemma per action.  The      *)
(* lemmas before them speak of the helper functions: what remove_tag,      *)
(* insert_tag, melt_left and split_tag do to any tag function T and list   *)
(* heads F.  Two predicates carry them: LinkedIn(T, F), the free lists are *)
(* doubly linked, and Layout, the blocks tile the runs.  What the callers  *)
(* rely on (LiveApart, ReleaseExact, CopyInBounds, the refinement of       *)
(* Allocator) follows from IInv at the end.  Two more invariants rest on   *)
(* it: Counted, for l_completePages, and ListsEnd, no list is a circle,    *)
(* from which every free block is in reach of malloc.                      *)
(***************************************************************************)
EXTENDS Liballoc, FiniteSetTheorems, WellFoundedInduction, TLAPS

-----------------------------------------------------------------------------
(* Size classes.                                                           *)

(* A non-empty set of naturals has a least element. *)
LEMMA LeastElement ==
  ASSUME NEW S \in SUBSET Nat, S # {}
  PROVE  \E x \in S : \A y \in S : x <= y
<1>1. IsWellFoundedOn(OpToRel(<, Nat), Nat)
  BY NatLessThanWellFounded
<1>2. PICK x \in S : \A y \in S : ~(<<y, x>> \in OpToRel(<, Nat))
  BY <1>1, WFMin
<1>3. \A y \in S : ~(y < x)
  BY <1>2 DEF OpToRel
<1>4. QED
  BY <1>3

(* The loop of getexp ends with a shift in MINEXP+1 .. MAXEXP when the size is
   not below the quantum. *)
LEMMA FirstShiftRange ==
  ASSUME NEW size \in Int, ~(size < 2^MINEXP)
  PROVE  FirstShift(size) \in (MINEXP + 1)..MAXEXP
<1> DEFINE S == {s \in MINEXP..MAXEXP : s = MAXEXP \/ 2^s > size}
<1>0. MINEXP \in Nat /\ MAXEXP \in Nat /\ MINEXP < MAXEXP /\ 2^MINEXP \in Int
  BY LiballocAssumption
<1>1. MAXEXP \in S /\ S \in SUBSET Nat
  BY <1>0
<1>2. PICK s \in S : \A y \in S : s <= y
  BY <1>1, LeastElement
<1>3. \A r \in MINEXP..(s - 1) : ~(2^r > size)
  BY <1>0, <1>2
<1>4. \E x \in MINEXP..MAXEXP :
        /\ x = MAXEXP \/ 2^x > size
        /\ \A r \in MINEXP..(x - 1) : ~(2^r > size)
  BY <1>0, <1>2, <1>3
<1>5. /\ FirstShift(size) \in MINEXP..MAXEXP
      /\ FirstShift(size) = MAXEXP \/ 2^FirstShift(size) > size
  BY <1>4 DEF FirstShift
<1>6. FirstShift(size) # MINEXP
  BY <1>0, <1>5
<1>7. QED
  BY <1>0, <1>5, <1>6

(* getexp returns -1 or a class, and ListIndex always a class. *)
LEMMA ClassRange ==
  ASSUME NEW size \in Int
  PROVE  /\ getexp(size) \in {-1} \cup Exps
         /\ ListIndex(size) \in Exps
<1>0. MINEXP \in Nat /\ MAXEXP \in Nat /\ MINEXP < MAXEXP
  BY LiballocAssumption
<1>1. getexp(size) \in {-1} \cup Exps
  BY <1>0, FirstShiftRange DEF getexp, Exps
<1>2. QED
  BY <1>0, <1>1 DEF ListIndex, Exps

-----------------------------------------------------------------------------
(* What the helper functions do to a tag table T and the list heads F.     *)

Tags(T) == DOMAIN T \subseteq Nat \ {0} /\ T \in [DOMAIN T -> TagRecord]

(* SplitChain, ListsLinked and Coalesced of T and F instead of the variables *)
ChainIn(T) ==
  \A t \in DOMAIN T :
    /\ T[t].split_right # NULL =>
         /\ T[t].split_right \in DOMAIN T
         /\ T[t].split_right = t + T[t].real_size
         /\ T[T[t].split_right].split_left = t
    /\ T[t].split_left # NULL =>
         /\ T[t].split_left \in DOMAIN T
         /\ T[T[t].split_left].split_right = t

LinkedIn(T, F) ==
  /\ \A i \in Exps : F[i] # NULL =>
       /\ F[i] \in DOMAIN T
       /\ T[F[i]].index = i
       /\ T[F[i]].prev = NULL
  /\ \A t \in DOMAIN T :
       /\ ~(T[t].index >= 0) => T[t].next = NULL /\ T[t].prev = NULL
       /\ T[t].index >= 0 => (T[t].prev = NULL <=> F[T[t].index] = t)
       /\ T[t].next # NULL =>
            /\ T[t].next \in DOMAIN T
            /\ T[T[t].next].prev = t
            /\ T[T[t].next].index = T[t].index
       /\ T[t].prev # NULL =>
            /\ T[t].prev \in DOMAIN T
            /\ T[T[t].prev].next = t
            /\ T[T[t].prev].index = T[t].index

(* What remove_tag writes: the list fields of t and of its list neighbours. *)
LEMMA RemoveFields ==
  ASSUME NEW T, Tags(T), NEW t \in DOMAIN T
  PROVE  /\ DOMAIN remove_tag(T, t) = DOMAIN T
         /\ Tags(remove_tag(T, t))
         /\ \A u \in DOMAIN T :
              /\ remove_tag(T, t)[u].size = T[u].size
              /\ remove_tag(T, t)[u].real_size = T[u].real_size
              /\ remove_tag(T, t)[u].split_left = T[u].split_left
              /\ remove_tag(T, t)[u].split_right = T[u].split_right
              /\ remove_tag(T, t)[u].index = IF u = t THEN -1 ELSE T[u].index
              /\ remove_tag(T, t)[u].next =
                   IF u = t THEN NULL
                   ELSE IF u = T[t].prev THEN T[t].next ELSE T[u].next
              /\ remove_tag(T, t)[u].prev =
                   IF u = t THEN NULL
                   ELSE IF u = T[t].next THEN T[t].prev ELSE T[u].prev
  BY ZenonT(60) DEF remove_tag, Tags, TagRecord, NULL

(* What insert_tag writes: the list fields of t and of the old head. *)
LEMMA InsertFields ==
  ASSUME NEW T, Tags(T), NEW F \in [Exps -> Nat], NEW i \in Exps, NEW t \in DOMAIN T
  PROVE  /\ DOMAIN insert_tag(T, F, t, i) = DOMAIN T
         /\ Tags(insert_tag(T, F, t, i))
         /\ \A u \in DOMAIN T :
              /\ insert_tag(T, F, t, i)[u].size = T[u].size
              /\ insert_tag(T, F, t, i)[u].real_size = T[u].real_size
              /\ insert_tag(T, F, t, i)[u].split_left = T[u].split_left
              /\ insert_tag(T, F, t, i)[u].split_right = T[u].split_right
              /\ insert_tag(T, F, t, i)[u].index = IF u = t THEN i ELSE T[u].index
              /\ insert_tag(T, F, t, i)[u].next =
                   IF u = t /\ F[i] # NULL THEN F[i] ELSE T[u].next
              /\ insert_tag(T, F, t, i)[u].prev = IF u = F[i] THEN t ELSE T[u].prev
  BY ZenonT(60) DEF insert_tag, Tags, TagRecord, NULL

(* melt_left adds the size of t to its left neighbour and to no other. *)
LEMMA MeltSizes ==
  ASSUME NEW T, Tags(T), NEW t \in DOMAIN T
  PROVE  \A u \in DOMAIN T : u # t =>
           melt_left(T, t)[u].real_size =
             IF u = T[t].split_left
             THEN T[u].real_size + T[t].real_size ELSE T[u].real_size
  BY DEF melt_left, Tags, TagRecord

(* melt_left takes t out of the split chain. *)
LEMMA MeltSplits ==
  ASSUME NEW T, Tags(T), NEW t \in DOMAIN T
  PROVE  \A u \in DOMAIN T : u # t =>
           /\ melt_left(T, t)[u].split_right =
                IF u = T[t].split_left THEN T[t].split_right ELSE T[u].split_right
           /\ melt_left(T, t)[u].split_left =
                IF u = T[t].split_right THEN T[t].split_left ELSE T[u].split_left
  BY DEF melt_left, Tags, TagRecord

(* melt_left leaves sizes of payloads and list fields alone. *)
LEMMA MeltFields ==
  ASSUME NEW T, Tags(T), NEW t \in DOMAIN T
  PROVE  /\ DOMAIN melt_left(T, t) = DOMAIN T \ {t}
         /\ Tags(melt_left(T, t))
         /\ \A u \in DOMAIN T : u # t =>
              /\ melt_left(T, t)[u].size = T[u].size
              /\ melt_left(T, t)[u].index = T[u].index
              /\ melt_left(T, t)[u].next = T[u].next
              /\ melt_left(T, t)[u].prev = T[u].prev
<1>1. /\ T[t].real_size \in Nat /\ T[t].split_left \in Nat /\ T[t].split_right \in Nat
      /\ \A u \in DOMAIN T : T[u] \in TagRecord /\ T[u].real_size \in Nat
  BY DEF Tags, TagRecord
<1>2. DOMAIN melt_left(T, t) = DOMAIN T \ {t}
  BY DEF melt_left
<1>3. ASSUME NEW u \in DOMAIN T, u # t
      PROVE  /\ melt_left(T, t)[u] \in TagRecord
             /\ melt_left(T, t)[u].size = T[u].size
             /\ melt_left(T, t)[u].index = T[u].index
             /\ melt_left(T, t)[u].next = T[u].next
             /\ melt_left(T, t)[u].prev = T[u].prev
  <2>1. T[u] \in TagRecord
    BY <1>1
  <2>2. IF u = T[t].split_left
        THEN T[u].real_size + T[t].real_size \in Nat ELSE T[u].real_size \in Nat
    BY <1>1
  <2>3. QED
    BY <1>1, <1>3, <2>1, <2>2 DEF melt_left, TagRecord
<1>4. melt_left(T, t) = [u \in DOMAIN melt_left(T, t) |-> melt_left(T, t)[u]]
  BY DEF melt_left
<1>5. Tags(melt_left(T, t))
  BY <1>2, <1>3, <1>4 DEF Tags
<1>6. QED
  BY <1>2, <1>3, <1>5

(* remove_tag takes a tag off its list and keeps every list linked. *)
LEMMA RemoveLinked ==
  ASSUME NEW T, Tags(T), NEW F \in [Exps -> Nat], LinkedIn(T, F),
         NEW t \in DOMAIN T, T[t].index >= 0
  PROVE  /\ LinkedIn(remove_tag(T, t), Unlisted(T, F, t))
         /\ Unlisted(T, F, t) \in [Exps -> Nat]
<1> DEFINE R == remove_tag(T, t)
           G == Unlisted(T, F, t)
<1>1. /\ T[t].index \in Exps /\ T[t].next \in Nat /\ T[t].prev \in Nat
      /\ DOMAIN T \subseteq Nat \ {0}
      /\ \A u \in DOMAIN T : T[u].index \in {-1} \cup Exps
      /\ Exps \subseteq Nat
  <2>1. Exps \subseteq Nat
    BY LiballocAssumption DEF Exps
  <2>2. /\ DOMAIN T \subseteq Nat \ {0}
        /\ \A u \in DOMAIN T : T[u] \in TagRecord
    BY DEF Tags
  <2>3. \A u \in DOMAIN T :
          T[u].index \in {-1} \cup Exps /\ T[u].next \in Nat /\ T[u].prev \in Nat
    BY <2>2 DEF TagRecord
  <2>4. QED
    BY <2>1, <2>2, <2>3
<1>2. /\ G \in [Exps -> Nat]
      /\ \A i \in Exps : G[i] = IF i = T[t].index /\ F[i] = t THEN T[t].next ELSE F[i]
  BY <1>1 DEF Unlisted
<1>3. /\ DOMAIN R = DOMAIN T
      /\ \A u \in DOMAIN T :
           /\ R[u].index = IF u = t THEN -1 ELSE T[u].index
           /\ R[u].next = IF u = t THEN NULL
                          ELSE IF u = T[t].prev THEN T[t].next ELSE T[u].next
           /\ R[u].prev = IF u = t THEN NULL
                          ELSE IF u = T[t].next THEN T[t].prev ELSE T[u].prev
  BY RemoveFields
<1> HIDE DEF R, G
<1>4. LinkedIn(R, G)
  <2>1. ASSUME NEW i \in Exps, G[i] # NULL
        PROVE  G[i] \in DOMAIN R /\ R[G[i]].index = i /\ R[G[i]].prev = NULL
    BY <1>1, <1>2, <1>3, <2>1 DEF LinkedIn, NULL
  <2>2. ASSUME NEW u \in DOMAIN R
        PROVE  /\ ~(R[u].index >= 0) => R[u].next = NULL /\ R[u].prev = NULL
               /\ R[u].index >= 0 => (R[u].prev = NULL <=> G[R[u].index] = u)
    <3>1. CASE u = t
      BY <1>3, <3>1
    <3>2. CASE u # t /\ ~(T[u].index >= 0)
      BY <1>1, <1>3, <3>2 DEF LinkedIn, NULL
    <3>3. CASE u # t /\ T[u].index >= 0
      <4>1. T[u].prev = NULL <=> F[T[u].index] = u
        BY <1>3, <3>3 DEF LinkedIn
      <4>2. T[t].prev = NULL <=> F[T[t].index] = t
        BY DEF LinkedIn
      <4>3. T[u].index \in Exps /\ R[u].index = T[u].index
        BY <1>1, <1>3, <3>3
      <4>4. u = T[t].next => T[u].prev = t /\ T[u].index = T[t].index
        BY <1>1, <1>3 DEF LinkedIn, NULL
      <4>5. T[u].index = T[t].index /\ T[t].prev = NULL /\ T[u].prev = t => u = T[t].next
        BY <1>1, <1>3 DEF LinkedIn, NULL
      <4>6. G[T[u].index] = IF T[u].index = T[t].index /\ F[T[u].index] = t
                            THEN T[t].next ELSE F[T[u].index]
        BY <1>2, <4>3
      <4>7. R[u].prev = IF u = T[t].next THEN T[t].prev ELSE T[u].prev
        BY <1>3, <3>3
      <4>8. u \in Nat \ {0} /\ t \in Nat \ {0}
        BY <1>1, <1>3
      <4>9. QED
        BY <3>3, <4>1, <4>2, <4>3, <4>4, <4>5, <4>6, <4>7, <4>8 DEF NULL
    <3>4. QED
      BY <1>3, <3>1, <3>2, <3>3
  <2>3. ASSUME NEW u \in DOMAIN R, R[u].next # NULL
        PROVE  /\ R[u].next \in DOMAIN R
               /\ R[R[u].next].prev = u
               /\ R[R[u].next].index = R[u].index
    BY <1>1, <1>3, <2>3 DEF LinkedIn, NULL
  <2>4. ASSUME NEW u \in DOMAIN R, R[u].prev # NULL
        PROVE  /\ R[u].prev \in DOMAIN R
               /\ R[R[u].prev].next = u
               /\ R[R[u].prev].index = R[u].index
    BY <1>1, <1>3, <2>4 DEF LinkedIn, NULL
  <2>5. QED
    BY <2>1, <2>2, <2>3, <2>4 DEF LinkedIn
<1>5. QED
  BY <1>2, <1>4 DEF R, G

(* Where tags are, and the classes they are listed in. *)
LEMMA Addresses ==
  /\ Exps \subseteq Nat
  /\ \A T : Tags(T) => /\ DOMAIN T \subseteq Nat \ {0}
                       /\ \A u \in DOMAIN T : T[u].index \in {-1} \cup Exps
<1>1. Exps \subseteq Nat
  BY LiballocAssumption DEF Exps
<1>2. ASSUME NEW T, Tags(T)
      PROVE  /\ DOMAIN T \subseteq Nat \ {0}
             /\ \A u \in DOMAIN T : T[u].index \in {-1} \cup Exps
  BY <1>2 DEF Tags, TagRecord
<1> QED BY <1>1, <1>2

(* insert_tag puts an unlisted tag at the head of a list and keeps every list
   linked. *)
LEMMA InsertLinked ==
  ASSUME NEW T, Tags(T), NEW F \in [Exps -> Nat], LinkedIn(T, F),
         NEW t \in DOMAIN T, ~(T[t].index >= 0), NEW i \in Exps
  PROVE  LinkedIn(insert_tag(T, F, t, i), [F EXCEPT ![i] = t])
<1> DEFINE R == insert_tag(T, F, t, i)
           G == [F EXCEPT ![i] = t]
<1>1. /\ DOMAIN T \subseteq Nat \ {0}
      /\ \A u \in DOMAIN T : T[u].index \in {-1} \cup Exps
      /\ Exps \subseteq Nat
  BY Addresses
<1>2. \A j \in Exps : G[j] = IF j = i THEN t ELSE F[j]
  OBVIOUS
<1>3. /\ DOMAIN R = DOMAIN T
      /\ \A u \in DOMAIN T :
           /\ R[u].index = IF u = t THEN i ELSE T[u].index
           /\ R[u].next = IF u = t /\ F[i] # NULL THEN F[i] ELSE T[u].next
           /\ R[u].prev = IF u = F[i] THEN t ELSE T[u].prev
  BY InsertFields
<1> HIDE DEF R, G
<1>4. ASSUME NEW j \in Exps, G[j] # NULL
      PROVE  G[j] \in DOMAIN R /\ R[G[j]].index = j /\ R[G[j]].prev = NULL
  BY <1>1, <1>2, <1>3, <1>4 DEF LinkedIn, NULL
<1>5. ASSUME NEW u \in DOMAIN R
      PROVE  /\ ~(R[u].index >= 0) => R[u].next = NULL /\ R[u].prev = NULL
             /\ R[u].index >= 0 => (R[u].prev = NULL <=> G[R[u].index] = u)
  <2>1. CASE u = t
    BY <1>1, <1>2, <1>3, <2>1 DEF LinkedIn, NULL
  <2>2. CASE u # t /\ ~(T[u].index >= 0)
    BY <1>1, <1>3, <2>2 DEF LinkedIn, NULL
  <2>3. CASE u # t /\ T[u].index >= 0
    <3>1. T[u].prev = NULL <=> F[T[u].index] = u
      BY <1>3, <2>3 DEF LinkedIn
    <3>2. /\ R[u].index = T[u].index /\ T[u].index \in Exps
          /\ R[u].prev = IF u = F[i] THEN t ELSE T[u].prev
      BY <1>1, <1>3, <2>3
    <3>3. G[T[u].index] = IF T[u].index = i THEN t ELSE F[T[u].index]
      BY <1>2, <3>2
    <3>4. u = F[i] => T[u].index = i
      BY <1>1, <1>3 DEF LinkedIn, NULL
    <3>5. u \in Nat \ {0} /\ t \in Nat \ {0}
      BY <1>1, <1>3
    <3>6. QED
      BY <2>3, <3>1, <3>2, <3>3, <3>4, <3>5 DEF NULL
  <2>4. QED
    BY <1>3, <2>1, <2>2, <2>3
<1>6. ASSUME NEW u \in DOMAIN R, R[u].next # NULL
      PROVE  /\ R[u].next \in DOMAIN R
             /\ R[R[u].next].prev = u
             /\ R[R[u].next].index = R[u].index
  BY <1>1, <1>3, <1>6 DEF LinkedIn, NULL
<1>7. ASSUME NEW u \in DOMAIN R, R[u].prev # NULL
      PROVE  /\ R[u].prev \in DOMAIN R
             /\ R[R[u].prev].next = u
             /\ R[R[u].prev].index = R[u].index
  BY <1>1, <1>3, <1>7 DEF LinkedIn, NULL
<1>8. LinkedIn(R, G)
  BY <1>4, <1>5, <1>6, <1>7 DEF LinkedIn
<1>9. QED
  BY <1>8 DEF R, G

(* Melting an unlisted tag away keeps every list linked. *)
LEMMA MeltLinked ==
  ASSUME NEW T, Tags(T), NEW F \in [Exps -> Nat], LinkedIn(T, F),
         NEW t \in DOMAIN T, ~(T[t].index >= 0)
  PROVE  LinkedIn(melt_left(T, t), F)
<1> DEFINE R == melt_left(T, t)
<1>1. /\ DOMAIN T \subseteq Nat \ {0}
      /\ \A u \in DOMAIN T : T[u].index \in {-1} \cup Exps
      /\ Exps \subseteq Nat
  BY Addresses
<1>2. /\ DOMAIN R = DOMAIN T \ {t}
      /\ \A u \in DOMAIN T : u # t =>
           /\ R[u].index = T[u].index
           /\ R[u].next = T[u].next
           /\ R[u].prev = T[u].prev
  <2>1. /\ DOMAIN R = DOMAIN T \ {t} /\ Tags(R)
        /\ \A u \in DOMAIN T : u # t =>
             /\ R[u].size = T[u].size
             /\ R[u].index = T[u].index
             /\ R[u].next = T[u].next
             /\ R[u].prev = T[u].prev
    BY MeltFields
  <2> HIDE DEF R
  <2> QED BY <2>1
<1>3. \A u \in DOMAIN R :
        /\ R[u].index = T[u].index
        /\ R[u].next = T[u].next
        /\ R[u].prev = T[u].prev
  BY <1>2
<1> HIDE DEF R
<1>4. \A u \in DOMAIN T : T[u].next # t /\ T[u].prev # t
  BY <1>1 DEF LinkedIn, NULL
<1>5. LinkedIn(R, F)
  BY <1>1, <1>2, <1>3, <1>4 DEF LinkedIn, NULL
<1>6. QED
  BY <1>5 DEF R

-----------------------------------------------------------------------------
(* Blocks in their runs.  R is a `runs' function.                          *)

EndOf(R, b) == b + R[b] * PageSize

Runs(R) ==
  /\ DOMAIN R \subseteq Nat \ {0} /\ R \in [DOMAIN R -> Nat \ {0}]
  /\ \A b \in DOMAIN R : R[b] >= PageCount
  /\ \A b, c \in DOMAIN R : b # c => EndOf(R, b) <= c \/ EndOf(R, c) <= b

InsideIn(T, R, t, b) ==
  /\ b <= t /\ t + T[t].real_size <= EndOf(R, b)
  /\ T[t].split_left = NULL <=> t = b
  /\ T[t].split_right = NULL <=> t + T[t].real_size = EndOf(R, b)

BlocksIn(T, R) ==
  /\ \A t \in DOMAIN T :
       /\ T[t].real_size >= HDR
       /\ \E b \in DOMAIN R : InsideIn(T, R, t, b)
  /\ \A t, u \in DOMAIN T :
       t # u => t + T[t].real_size <= u \/ u + T[u].real_size <= t

(* The layout: what is said of addresses and sizes only. *)
Layout(T, R) == ChainIn(T) /\ BlocksIn(T, R)

(* The end of a run is an integer: multiplication kept out of the provers' way. *)
LEMMA EndOfInt ==
  ASSUME NEW R, Runs(R), NEW b \in DOMAIN R
  PROVE  EndOf(R, b) \in Nat /\ EndOf(R, b) > b
<1>1. b \in Nat /\ R[b] \in Nat \ {0} /\ PageSize \in Nat \ {0}
  BY LiballocAssumption DEF Runs
<1>2. R[b] * PageSize \in Nat \ {0}
  BY <1>1
<1>3. QED
  BY <1>1, <1>2 DEF EndOf

(* The fields of a tag have their types. *)
LEMMA TagTypes ==
  ASSUME NEW T, Tags(T), NEW t \in DOMAIN T
  PROVE  /\ t \in Nat \ {0}
         /\ T[t].size \in Nat /\ T[t].real_size \in Nat
         /\ T[t].split_left \in Nat /\ T[t].split_right \in Nat
         /\ T[t].next \in Nat /\ T[t].prev \in Nat
         /\ T[t].index \in {-1} \cup Exps /\ T[t].index \in Int
  BY LiballocAssumption DEF Tags, TagRecord, Exps

(* Only the addresses, sizes and split links matter for the layout. *)
LEMMA SameLayout ==
  ASSUME NEW T, NEW R, Layout(T, R), NEW S, DOMAIN S = DOMAIN T,
         \A u \in DOMAIN T : /\ S[u].real_size = T[u].real_size
                             /\ S[u].split_left = T[u].split_left
                             /\ S[u].split_right = T[u].split_right
  PROVE  Layout(S, R)
<1>1. ChainIn(S)
  BY DEF Layout, ChainIn
<1>2. \A u \in DOMAIN T, b \in DOMAIN R : InsideIn(T, R, u, b) => InsideIn(S, R, u, b)
  BY DEF InsideIn
<1>3. BlocksIn(S, R)
  BY <1>2 DEF Layout, BlocksIn
<1>4. QED
  BY <1>1, <1>3 DEF Layout

(* Melting a block into its left neighbour keeps the layout. *)
LEMMA MeltLayout ==
  ASSUME NEW T, Tags(T), NEW R, Runs(R), Layout(T, R),
         NEW t \in DOMAIN T, T[t].split_left # NULL
  PROVE  Layout(melt_left(T, t), R)
<1> DEFINE S == melt_left(T, t)
           left == T[t].split_left
<1>1. /\ left \in DOMAIN T /\ left # t /\ T[left].split_right = t
      /\ t = left + T[left].real_size
  <2>1. /\ left \in DOMAIN T /\ T[left].split_right = t
    BY DEF Layout, ChainIn
  <2>2. t # NULL
    BY TagTypes DEF NULL
  <2>3. t = left + T[left].real_size
    BY <2>1, <2>2 DEF Layout, ChainIn
  <2>4. T[left].real_size \in Nat /\ T[left].real_size >= HDR /\ left \in Nat
    BY <2>1, TagTypes DEF Layout, BlocksIn
  <2>5. QED
    BY <2>1, <2>3, <2>4, LiballocAssumption
<1>2. \A u \in DOMAIN T :
        /\ u \in Nat \ {0} /\ T[u].real_size \in Nat
        /\ T[u].split_left \in Nat /\ T[u].split_right \in Nat
  BY TagTypes
<1>3. DOMAIN S = DOMAIN T \ {t}
  BY MeltFields
<1>4. \A u \in DOMAIN T : u # t =>
        S[u].real_size = IF u = left THEN T[u].real_size + T[t].real_size
                         ELSE T[u].real_size
  BY MeltSizes
<1>5. \A u \in DOMAIN T : u # t =>
        /\ S[u].split_right = IF u = left THEN T[t].split_right ELSE T[u].split_right
        /\ S[u].split_left = IF u = T[t].split_right THEN left ELSE T[u].split_left
  BY MeltSplits
<1>6. \A b \in DOMAIN R : b \in Nat \ {0} /\ EndOf(R, b) \in Nat /\ EndOf(R, b) > b
  BY EndOfInt DEF Runs
<1> HIDE DEF S, left
<1>7. ChainIn(S)
  <2> SUFFICES ASSUME NEW u \in DOMAIN S
      PROVE  /\ S[u].split_right # NULL =>
                  /\ S[u].split_right \in DOMAIN S
                  /\ S[u].split_right = u + S[u].real_size
                  /\ S[S[u].split_right].split_left = u
             /\ S[u].split_left # NULL =>
                  /\ S[u].split_left \in DOMAIN S
                  /\ S[S[u].split_left].split_right = u
    BY DEF ChainIn
  <2>1. u \in DOMAIN T /\ u # t
    BY <1>3
  <2>2. CASE u = left
    BY <1>1, <1>2, <1>3, <1>4, <1>5, <2>2 DEF Layout, ChainIn, NULL, left
  <2>3. CASE u # left
    <3>1. /\ T[u].split_right # t
          /\ T[u].split_left = t => T[t].split_right = u
      BY <1>1, <1>2, <2>1, <2>3 DEF Layout, ChainIn, NULL, left
    <3>2. S[u].split_right = T[u].split_right /\ S[u].real_size = T[u].real_size
      BY <1>4, <1>5, <2>1, <2>3
    <3>3. S[u].split_left = IF u = T[t].split_right THEN left ELSE T[u].split_left
      BY <1>5, <2>1
    <3>4. T[u].split_right # NULL =>
            /\ T[u].split_right \in DOMAIN T
            /\ T[u].split_right = u + T[u].real_size
            /\ T[T[u].split_right].split_left = u
      BY <2>1 DEF Layout, ChainIn
    <3>5. T[u].split_left # NULL =>
            /\ T[u].split_left \in DOMAIN T
            /\ T[T[u].split_left].split_right = u
      BY <2>1 DEF Layout, ChainIn
    <3>6. T[u].split_right # NULL => S[T[u].split_right].split_left = u
      <4>1. T[u].split_right # NULL => T[u].split_right # T[t].split_right
        BY <2>1, <3>4, <1>2 DEF Layout, ChainIn, NULL
      <4>2. QED
        BY <1>5, <3>1, <3>4, <4>1
    <3>7. S[left].split_right = T[t].split_right
      BY <1>1, <1>5
    <3>8. T[u].split_left # NULL /\ u # T[t].split_right =>
            S[T[u].split_left].split_right = u
      <4>1. T[u].split_left # NULL /\ u # T[t].split_right =>
               T[u].split_left # t /\ T[u].split_left # left
        BY <1>1, <2>1, <3>1, <3>5
      <4>2. QED
        BY <1>5, <3>5, <4>1
    <3>9. QED
      BY <1>1, <1>3, <3>1, <3>2, <3>3, <3>4, <3>5, <3>6, <3>7, <3>8
  <2>4. QED
    BY <2>2, <2>3
<1>8. ASSUME NEW u \in DOMAIN S
      PROVE  /\ S[u].real_size >= HDR
             /\ \E b \in DOMAIN R : InsideIn(S, R, u, b)
  <2>1. u \in DOMAIN T /\ u # t
    BY <1>3
  <2>2. PICK b \in DOMAIN R : InsideIn(T, R, u, b)
    BY <2>1 DEF Layout, BlocksIn
  <2>3. T[u].real_size >= HDR
    BY <2>1 DEF Layout, BlocksIn
  <2>4. CASE u = left
    <3>1. PICK c \in DOMAIN R : InsideIn(T, R, t, c)
      BY DEF Layout, BlocksIn
    <3>2. /\ b <= left /\ t <= EndOf(R, b) /\ t # EndOf(R, b)
          /\ T[left].split_left = NULL <=> left = b
      BY <1>1, <1>2, <2>2, <2>4 DEF InsideIn, NULL
    <3>3. /\ c <= t /\ c # t /\ t + T[t].real_size <= EndOf(R, c)
          /\ T[t].split_right = NULL <=> t + T[t].real_size = EndOf(R, c)
      BY <3>1 DEF InsideIn, left
    <3>4. b = c
      BY <1>1, <1>2, <1>6, <3>2, <3>3 DEF Runs
    <3>5. /\ S[left].real_size = T[left].real_size + T[t].real_size
          /\ S[left].split_right = T[t].split_right
      BY <1>1, <1>4, <1>5
    <3>6. S[left].split_left = T[left].split_left
      <4>1. T[t].split_right # left
        BY <1>1, <1>2 DEF Layout, ChainIn, NULL
      <4>2. QED
        BY <1>1, <1>5, <4>1
    <3>7. InsideIn(S, R, left, b)
      BY <1>1, <1>2, <1>6, <3>2, <3>3, <3>4, <3>5, <3>6 DEF InsideIn
    <3>8. QED
      BY <1>1, <1>2, <2>3, <2>4, <3>5, <3>7, LiballocAssumption
  <2>5. CASE u # left
    <3>1. S[u].split_right = T[u].split_right /\ S[u].real_size = T[u].real_size
      BY <1>4, <1>5, <2>1, <2>5
    <3>2. S[u].split_left = NULL <=> T[u].split_left = NULL
      BY <1>1, <1>2, <1>5, <2>1 DEF Layout, ChainIn, NULL
    <3>3. InsideIn(S, R, u, b)
      BY <2>2, <3>1, <3>2 DEF InsideIn
    <3>4. QED
      BY <2>3, <3>1, <3>3
  <2>6. QED
    BY <2>4, <2>5
<1>9. ASSUME NEW u \in DOMAIN S, NEW v \in DOMAIN S, u # v
      PROVE  u + S[u].real_size <= v \/ v + S[v].real_size <= u
  <2>1. u \in DOMAIN T /\ u # t /\ v \in DOMAIN T /\ v # t
    BY <1>3
  <2>2. /\ u + T[u].real_size <= v \/ v + T[v].real_size <= u
        /\ u + T[u].real_size <= t \/ t + T[t].real_size <= u
        /\ v + T[v].real_size <= t \/ t + T[t].real_size <= v
    BY <1>9, <2>1 DEF Layout, BlocksIn
  <2>3. T[u].real_size >= HDR /\ T[v].real_size >= HDR /\ T[t].real_size >= HDR
    BY <2>1 DEF Layout, BlocksIn
  <2>4. /\ u \in Nat /\ v \in Nat /\ t \in Nat /\ left \in Nat
        /\ T[u].real_size \in Nat /\ T[v].real_size \in Nat
        /\ T[t].real_size \in Nat /\ T[left].real_size \in Nat
    BY <1>1, <1>2, <2>1
  <2>5. /\ S[u].real_size = IF u = left THEN T[left].real_size + T[t].real_size
                            ELSE T[u].real_size
        /\ S[v].real_size = IF v = left THEN T[left].real_size + T[t].real_size
                            ELSE T[v].real_size
    BY <1>4, <2>1
  <2>6. CASE u = left
    BY <1>1, <1>9, <2>2, <2>3, <2>4, <2>5, <2>6, LiballocAssumption
  <2>7. CASE v = left
    BY <1>1, <1>9, <2>2, <2>3, <2>4, <2>5, <2>7, LiballocAssumption
  <2>8. CASE u # left /\ v # left
    BY <2>2, <2>5, <2>8
  <2>9. QED
    BY <2>6, <2>7, <2>8
<1>10. BlocksIn(S, R)
  BY <1>8, <1>9 DEF BlocksIn
<1>11. QED
  BY <1>7, <1>10 DEF Layout, S

-----------------------------------------------------------------------------
(* split_tag                                                               *)

NewAt(T, t) == t + HDR + T[t].size
RestOf(T, t) == T[t].real_size - HDR - T[t].size

(* The new tag lies inside the block that is split: no tag is there yet. *)
LEMMA SplitFresh ==
  ASSUME NEW T, Tags(T), NEW R, Layout(T, R), NEW t \in DOMAIN T, RestOf(T, t) >= HDR
  PROVE  /\ NewAt(T, t) \in Nat \ {0} /\ RestOf(T, t) \in Nat
         /\ NewAt(T, t) + RestOf(T, t) = t + T[t].real_size
         /\ t + HDR <= NewAt(T, t) /\ NewAt(T, t) \notin DOMAIN T
<1>1. /\ t \in Nat \ {0} /\ T[t].size \in Nat /\ T[t].real_size \in Nat
      /\ HDR \in Nat \ {0}
  BY TagTypes, LiballocAssumption
<1>2. /\ NewAt(T, t) \in Nat \ {0} /\ RestOf(T, t) \in Nat
      /\ NewAt(T, t) + RestOf(T, t) = t + T[t].real_size
      /\ t + HDR <= NewAt(T, t)
  BY <1>1 DEF NewAt, RestOf
<1>3. ASSUME NewAt(T, t) \in DOMAIN T
      PROVE  FALSE
  <2> DEFINE n == NewAt(T, t)
  <2>1. T[n].real_size \in Nat /\ T[n].real_size >= HDR
    BY <1>3, TagTypes DEF Layout, BlocksIn
  <2>2. n # t
    BY <1>1, <1>2
  <2>3. t + T[t].real_size <= n \/ n + T[n].real_size <= t
    BY <1>3, <2>2 DEF Layout, BlocksIn
  <2> HIDE DEF n
  <2>4. n \in Nat /\ n + RestOf(T, t) = t + T[t].real_size /\ t + HDR <= n
    BY <1>2 DEF n
  <2>5. QED
    BY <1>1, <1>2, <2>1, <2>3, <2>4
<1>4. QED
  BY <1>2, <1>3

(* split_tag makes exactly one new tag. *)
LEMMA SplitDomain ==
  ASSUME NEW T, NEW t
  PROVE  DOMAIN SplitOff(T, t) = DOMAIN T \cup {NewAt(T, t)}
  BY DEF SplitOff, NewAt

(* The fields of the tag split_tag makes. *)
LEMMA SplitNew ==
  ASSUME NEW T, NEW t
  PROVE  /\ SplitOff(T, t)[NewAt(T, t)].size = 0
         /\ SplitOff(T, t)[NewAt(T, t)].real_size = RestOf(T, t)
         /\ SplitOff(T, t)[NewAt(T, t)].index = -1
         /\ SplitOff(T, t)[NewAt(T, t)].split_left = t
         /\ SplitOff(T, t)[NewAt(T, t)].split_right = T[t].split_right
         /\ SplitOff(T, t)[NewAt(T, t)].next = NULL
         /\ SplitOff(T, t)[NewAt(T, t)].prev = NULL
  BY DEF SplitOff, NewAt, RestOf

(* split_tag leaves the payload size and the list fields of the old tags alone. *)
LEMMA SplitOthers ==
  ASSUME NEW T, Tags(T), NEW t \in DOMAIN T, NewAt(T, t) \notin DOMAIN T
  PROVE  \A u \in DOMAIN T :
           /\ SplitOff(T, t)[u].size = T[u].size
           /\ SplitOff(T, t)[u].index = T[u].index
           /\ SplitOff(T, t)[u].next = T[u].next
           /\ SplitOff(T, t)[u].prev = T[u].prev
  BY DEF SplitOff, NewAt, Tags, TagRecord

(* split_tag puts the new tag into the split chain, right of t. *)
LEMMA SplitLinks ==
  ASSUME NEW T, Tags(T), NEW t \in DOMAIN T, NewAt(T, t) \notin DOMAIN T
  PROVE  \A u \in DOMAIN T :
           /\ SplitOff(T, t)[u].split_right =
                IF u = t THEN NewAt(T, t) ELSE T[u].split_right
           /\ SplitOff(T, t)[u].split_left =
                IF u = T[t].split_right THEN NewAt(T, t) ELSE T[u].split_left
  BY DEF SplitOff, NewAt, Tags, TagRecord

(* split_tag shrinks t and no other block. *)
LEMMA SplitSizes ==
  ASSUME NEW T, Tags(T), NEW t \in DOMAIN T, NewAt(T, t) \notin DOMAIN T
  PROVE  \A u \in DOMAIN T :
           SplitOff(T, t)[u].real_size =
             IF u = t THEN HDR + T[t].size ELSE T[u].real_size
<1>1. \A u \in DOMAIN T :
        SplitOff(T, t)[u].real_size =
          IF u = t THEN T[t].real_size - RestOf(T, t) ELSE T[u].real_size
  BY DEF SplitOff, NewAt, RestOf, Tags, TagRecord
<1>2. T[t].real_size - RestOf(T, t) = HDR + T[t].size
  BY TagTypes, LiballocAssumption DEF RestOf
<1>3. QED
  BY <1>1, <1>2

(* split_tag keeps the tags well-typed. *)
LEMMA SplitTags ==
  ASSUME NEW T, Tags(T), NEW R, Layout(T, R), NEW t \in DOMAIN T, RestOf(T, t) >= HDR
  PROVE  Tags(SplitOff(T, t))
<1> DEFINE S == SplitOff(T, t)
           n == NewAt(T, t)
<1>1. n \in Nat \ {0} /\ RestOf(T, t) \in Nat /\ n \notin DOMAIN T
  BY SplitFresh
<1>2. DOMAIN S = DOMAIN T \cup {n}
  BY SplitDomain
<1>3. S[n] \in TagRecord
  <2>1. t \in Nat /\ T[t].split_right \in Nat
    BY TagTypes
  <2>2. QED
    BY <1>1, <2>1 DEF SplitOff, NewAt, RestOf, TagRecord, NULL
<1>4. ASSUME NEW u \in DOMAIN T
      PROVE  S[u] \in TagRecord
  <2>1. T[u] \in TagRecord
    BY DEF Tags
  <2>2. T[t].real_size - RestOf(T, t) \in Nat
    BY <1>1, TagTypes, LiballocAssumption DEF RestOf
  <2>3. u # n
    BY <1>1
  <2>4. S[u] = [T[u] EXCEPT
                  !.real_size   = IF u = t THEN T[u].real_size - RestOf(T, t)
                                  ELSE T[u].real_size,
                  !.split_right = IF u = t THEN n ELSE T[u].split_right,
                  !.split_left  = IF u = T[t].split_right THEN n ELSE T[u].split_left]
    BY <2>3 DEF SplitOff, NewAt, RestOf
  <2>5. IF u = t THEN T[u].real_size - RestOf(T, t) \in Nat ELSE T[u].real_size \in Nat
    BY <2>1, <2>2 DEF TagRecord
  <2> HIDE DEF S, n
  <2>6. QED
    BY <1>1, <2>1, <2>4, <2>5 DEF TagRecord
<1>5. S = [u \in DOMAIN S |-> S[u]]
  BY DEF SplitOff
<1>6. QED
  BY <1>1, <1>2, <1>3, <1>4, <1>5 DEF Tags

(* split_tag keeps every list linked: the new tag is in none. *)
LEMMA SplitLinked ==
  ASSUME NEW T, Tags(T), NEW R, Layout(T, R), NEW t \in DOMAIN T, RestOf(T, t) >= HDR,
         NEW F \in [Exps -> Nat], LinkedIn(T, F)
  PROVE  LinkedIn(SplitOff(T, t), F)
<1> DEFINE S == SplitOff(T, t)
           n == NewAt(T, t)
<1>1. n \in Nat \ {0} /\ n \notin DOMAIN T
  BY SplitFresh
<1>2. DOMAIN S = DOMAIN T \cup {n}
  BY SplitDomain
<1>3. S[n].index = -1 /\ S[n].next = NULL /\ S[n].prev = NULL
  BY SplitNew
<1>4. \A u \in DOMAIN T :
        S[u].index = T[u].index /\ S[u].next = T[u].next /\ S[u].prev = T[u].prev
  BY <1>1, SplitOthers
<1> HIDE DEF S, n
<1>5. LinkedIn(S, F)
  BY <1>1, <1>2, <1>3, <1>4 DEF LinkedIn, NULL
<1>6. QED
  BY <1>5 DEF S

(* Splitting a block keeps the layout. *)
LEMMA SplitLayout ==
  ASSUME NEW T, Tags(T), NEW R, Runs(R), Layout(T, R), NEW t \in DOMAIN T,
         RestOf(T, t) >= HDR
  PROVE  Layout(SplitOff(T, t), R)
<1> DEFINE S == SplitOff(T, t)
           n == NewAt(T, t)
           right == T[t].split_right
<1>1. /\ n \in Nat \ {0} /\ RestOf(T, t) \in Nat /\ n \notin DOMAIN T
      /\ n + RestOf(T, t) = t + T[t].real_size /\ n = t + HDR + T[t].size
  BY SplitFresh DEF NewAt
<1>2. \A u \in DOMAIN T :
        /\ u \in Nat \ {0} /\ T[u].real_size \in Nat /\ T[u].size \in Nat
        /\ T[u].split_left \in Nat /\ T[u].split_right \in Nat
  BY TagTypes
<1>3. DOMAIN S = DOMAIN T \cup {n}
  BY SplitDomain
<1>4. /\ S[n].real_size = RestOf(T, t)
      /\ S[n].split_left = t /\ S[n].split_right = right
  BY SplitNew
<1>5. \A u \in DOMAIN T :
        S[u].real_size = IF u = t THEN HDR + T[t].size ELSE T[u].real_size
  BY <1>1, SplitSizes
<1>6. \A u \in DOMAIN T :
        /\ S[u].split_right = IF u = t THEN n ELSE T[u].split_right
        /\ S[u].split_left = IF u = right THEN n ELSE T[u].split_left
  BY <1>1, SplitLinks
<1>7. HDR \in Nat \ {0}
  BY LiballocAssumption
<1> HIDE DEF S, n
<1>8. ChainIn(S)
  <2>1. ASSUME NEW u \in DOMAIN S, S[u].split_right # NULL
        PROVE  /\ S[u].split_right \in DOMAIN S
               /\ S[u].split_right = u + S[u].real_size
               /\ S[S[u].split_right].split_left = u
    <3>1. CASE u = n
      BY <1>1, <1>2, <1>3, <1>4, <1>6, <2>1, <3>1 DEF Layout, ChainIn
    <3>2. CASE u = t
      BY <1>1, <1>2, <1>3, <1>4, <1>5, <1>6, <1>7, <3>2
    <3>3. CASE u # n /\ u # t
      BY <1>1, <1>2, <1>3, <1>5, <1>6, <2>1, <3>3 DEF Layout, ChainIn, NULL
    <3>4. QED
      BY <3>1, <3>2, <3>3
  <2>2. ASSUME NEW u \in DOMAIN S, S[u].split_left # NULL
        PROVE  S[u].split_left \in DOMAIN S /\ S[S[u].split_left].split_right = u
    <3>1. CASE u = n
      BY <1>1, <1>3, <1>4, <1>6, <3>1
    <3>2. CASE u # n /\ u = right
      BY <1>1, <1>2, <1>3, <1>4, <1>6, <3>2
    <3>3. CASE u # n /\ u # right
      BY <1>1, <1>2, <1>3, <1>6, <2>2, <3>3 DEF Layout, ChainIn, NULL
    <3>4. QED
      BY <3>1, <3>2, <3>3
  <2>3. QED
    BY <2>1, <2>2 DEF ChainIn
<1>9. PICK b \in DOMAIN R : InsideIn(T, R, t, b)
  BY DEF Layout, BlocksIn
<1>10. b \in Nat \ {0} /\ EndOf(R, b) \in Nat
  BY EndOfInt DEF Runs
<1>11. ASSUME NEW u \in DOMAIN S
       PROVE  S[u].real_size >= HDR /\ \E c \in DOMAIN R : InsideIn(S, R, u, c)
  <2>1. CASE u = n
    <3>1. InsideIn(S, R, n, b)
      BY <1>1, <1>2, <1>4, <1>7, <1>9, <1>10 DEF InsideIn, NULL
    <3>2. QED
      BY <1>4, <2>1, <3>1
  <2>2. CASE u = t
    <3>0. right # t
      BY <1>2, <1>7 DEF Layout, ChainIn, NULL, BlocksIn
    <3>1. InsideIn(S, R, t, b)
      BY <1>1, <1>2, <1>5, <1>6, <1>7, <1>9, <1>10, <3>0 DEF InsideIn, NULL
    <3>2. QED
      BY <1>2, <1>5, <1>7, <2>2, <3>1
  <2>3. CASE u # n /\ u # t
    <3>1. u \in DOMAIN T
      BY <1>3, <2>3
    <3>2. PICK c \in DOMAIN R : InsideIn(T, R, u, c)
      BY <3>1 DEF Layout, BlocksIn
    <3>3. S[u].split_left = NULL <=> T[u].split_left = NULL
      BY <1>1, <1>2, <1>6, <3>1 DEF Layout, ChainIn, NULL
    <3>4. InsideIn(S, R, u, c)
      BY <1>5, <1>6, <2>3, <3>1, <3>2, <3>3 DEF InsideIn
    <3>5. QED
      BY <1>5, <2>3, <3>1, <3>4 DEF Layout, BlocksIn
  <2>4. QED
    BY <2>1, <2>2, <2>3
<1>12. ASSUME NEW u \in DOMAIN S, NEW v \in DOMAIN S, u # v
       PROVE  u + S[u].real_size <= v \/ v + S[v].real_size <= u
  <2>1. ASSUME NEW w \in DOMAIN T, w # t
        PROVE  /\ w + T[w].real_size <= t \/ t + T[t].real_size <= w
               /\ S[w].real_size = T[w].real_size /\ w \in Nat /\ T[w].real_size \in Nat
    BY <1>2, <1>5, <2>1 DEF Layout, BlocksIn
  <2>2. /\ S[t].real_size = HDR + T[t].size /\ S[n].real_size = RestOf(T, t)
        /\ T[t].size \in Nat /\ T[t].real_size \in Nat /\ t \in Nat
    BY <1>2, <1>4, <1>5
  <2>3. CASE u \in DOMAIN T \ {t} /\ v \in DOMAIN T \ {t}
    BY <1>12, <2>1, <2>3 DEF Layout, BlocksIn
  <2>4. CASE u \in DOMAIN T \ {t} /\ v \in {t, n}
    BY <1>1, <1>7, <2>1, <2>2, <2>4
  <2>5. CASE u \in {t, n} /\ v \in DOMAIN T \ {t}
    BY <1>1, <1>7, <2>1, <2>2, <2>5
  <2>6. CASE u \in {t, n} /\ v \in {t, n}
    BY <1>1, <1>7, <1>12, <2>2, <2>6
  <2>7. QED
    BY <1>3, <2>3, <2>4, <2>5, <2>6
<1>13. BlocksIn(S, R)
  BY <1>11, <1>12 DEF BlocksIn
<1>14. QED
  BY <1>8, <1>13 DEF Layout, S

-----------------------------------------------------------------------------
(* The inductive invariant, step by step.                                  *)

(* The invariant in terms of the parts the lemmas above speak of. *)
LEMMA Parts ==
  ASSUME IInv
  PROVE  /\ Tags(tag) /\ Runs(runs) /\ Layout(tag, runs)
         /\ l_freePages \in [Exps -> Nat] /\ LinkedIn(tag, l_freePages)
<1>1. Tags(tag)
  BY DEF IInv, TypeOK, Tags
<1>2. Runs(runs)
  BY DEF IInv, TypeOK, RunsApart, Runs, EndOf
<1>3. ChainIn(tag)
  BY DEF IInv, SplitChain, ChainIn
<1>4. BlocksIn(tag, runs)
  BY DEF IInv, BlocksInRuns, BlocksIn, Inside, InsideIn, EndOf
<1>5. l_freePages \in [Exps -> Nat] /\ LinkedIn(tag, l_freePages)
  BY DEF IInv, TypeOK, ListsLinked, LinkedIn, IsFree
<1>6. QED
  BY <1>1, <1>2, <1>3, <1>4, <1>5 DEF Layout

(* The same for the next state. *)
LEMMA PartsNext ==
  ASSUME Runs(runs'), Layout(tag', runs'), LinkedIn(tag', l_freePages')
  PROVE  RunsApart' /\ SplitChain' /\ BlocksInRuns' /\ ListsLinked'
<1>1. RunsApart'
  BY DEF RunsApart, Runs, EndOf
<1>2. SplitChain'
  BY DEF SplitChain, Layout, ChainIn
<1>3. BlocksInRuns'
  BY DEF BlocksInRuns, Layout, BlocksIn, Inside, InsideIn, EndOf
<1>4. ListsLinked'
  BY DEF ListsLinked, LinkedIn, IsFree
<1>5. QED
  BY <1>1, <1>2, <1>3, <1>4

(* Steps that leave tags, lists and runs alone. *)
LEMMA SameTags ==
  ASSUME IInv, UNCHANGED <<tag, l_freePages, runs>>
  PROVE  /\ RunsApart' /\ SplitChain' /\ BlocksInRuns' /\ ListsLinked'
         /\ ListedBySize' /\ Coalesced'
<1>1. RunsApart' /\ SplitChain' /\ BlocksInRuns' /\ ListsLinked'
  BY Parts, PartsNext
<1>2. ListedBySize' /\ Coalesced'
  BY DEF IInv, ListedBySize, Coalesced, IsFree
<1>3. QED
  BY <1>1, <1>2

(* The types of the constants. *)
LEMMA Constants ==
  /\ HDR \in Nat \ {0} /\ Exps \subseteq Nat /\ Sizes \subseteq Nat
  BY LiballocAssumption DEF Exps

(* malloc takes the lock and goes to the head of a list: the tags are untouched
   and the holder knows its list. *)
LEMMA MallocStartStep ==
  ASSUME IInv, NEW c \in Contexts, NEW n \in Sizes, MallocStart(c, n),
         client' \in [Contexts -> ClientRecord]
  PROVE  /\ TypeOK' /\ RunsApart' /\ SplitChain' /\ BlocksInRuns' /\ ListsLinked'
         /\ ListedBySize' /\ Coalesced' /\ NoLeak' /\ HolderOK'
<1>1. RunsApart' /\ SplitChain' /\ BlocksInRuns' /\ ListsLinked'
      /\ ListedBySize' /\ Coalesced'
  BY SameTags DEF MallocStart
<1>2. n \in Nat /\ ListIndex(n) \in Exps
  BY Constants, ClassRange
<1>3. TypeOK'
  BY <1>2 DEF IInv, TypeOK, MallocStart, Phase
<1>4. NoLeak'
  BY DEF IInv, NoLeak, MallocStart, Busy, IsFree
<1>5. HolderOK'
  BY <1>2 DEF IInv, HolderOK, MallocStart, ListsLinked, NULL
<1>6. QED
  BY <1>1, <1>3, <1>4, <1>5

(* malloc preserves the invariant when it starts. *)
LEMMA MallocStep ==
  ASSUME IInv, NEW c \in Contexts, NEW n \in Sizes, Malloc(c, n)
  PROVE  IInv'
<1>1. MallocStart(c, n) /\ client' = client /\ client[c].op = "none"
  BY DEF Malloc
<1>2. client' \in [Contexts -> ClientRecord]
  BY <1>1 DEF IInv, TypeOK
<1>3. ClientOK'
  <2>1. \A d \in Contexts : client[d].ph # "malloc"
    BY <1>1 DEF IInv, ClientOK, MallocStart
  <2>2. QED
    BY <1>1, <2>1 DEF IInv, ClientOK, MallocStart
<1>4. QED
  BY <1>1, <1>2, <1>3, MallocStartStep DEF IInv

(* calloc preserves the invariant when it starts its malloc. *)
LEMMA CallocStep ==
  ASSUME IInv, NEW c \in Contexts, NEW n \in Sizes, Calloc(c, n)
  PROVE  IInv'
<1> DEFINE new == [op |-> "calloc", ph |-> "malloc", p |-> NULL,
                   n |-> n, len |-> n, ptr |-> NULL]
<1>1. /\ MallocStart(c, n) /\ client[c].op = "none"
      /\ client' = [client EXCEPT ![c] = new]
  BY DEF Calloc
<1>2. /\ client \in [Contexts -> ClientRecord]
      /\ n \in Nat
  BY Constants DEF IInv, TypeOK
<1>3. new \in ClientRecord
  BY <1>2 DEF ClientRecord, NULL
<1>4. client' \in [Contexts -> ClientRecord]
  BY <1>1, <1>2, <1>3
<1>5. ClientOK'
  <2>1. \A d \in Contexts : client[d].ph # "malloc"
    BY <1>1 DEF IInv, ClientOK, MallocStart
  <2>2. /\ client'[c] = new
        /\ \A d \in Contexts : d # c => client'[d] = client[d]
    BY <1>1, <1>2
  <2>3. /\ pc' = "search" /\ who' = c /\ req' = n /\ live' = live
        /\ DOMAIN live \subseteq Nat \ {0}
    BY <1>1 DEF MallocStart, IInv, TypeOK
  <2>4. QED
    BY <1>2, <2>1, <2>2, <2>3 DEF IInv, ClientOK, NULL
<1>6. QED
  BY <1>1, <1>4, <1>5, MallocStartStep DEF IInv

(* realloc preserves the invariant when it starts its malloc. *)
LEMMA ReallocMallocStep ==
  ASSUME IInv, NEW c \in Contexts, ReallocMalloc(c)
  PROVE  IInv'
<1>1. /\ MallocStart(c, client[c].n) /\ client[c].op = "realloc"
      /\ client[c].ph = "lookup"
      /\ client' = [client EXCEPT ![c].ph = "malloc"]
  BY DEF ReallocMalloc
<1>2. /\ client \in [Contexts -> ClientRecord] /\ client[c].n \in Sizes
  BY <1>1 DEF IInv, TypeOK, ClientOK
<1>3. client' \in [Contexts -> ClientRecord]
  BY <1>1, <1>2 DEF ClientRecord
<1>4. ClientOK'
  <2>1. \A d \in Contexts : client[d].ph # "malloc"
    BY <1>1 DEF IInv, ClientOK, MallocStart
  <2>2. /\ client'[c] = [client[c] EXCEPT !.ph = "malloc"]
        /\ \A d \in Contexts : d # c => client'[d] = client[d]
    BY <1>1, <1>2
  <2>3. /\ client'[c].op = client[c].op /\ client'[c].ph = "malloc"
        /\ client'[c].p = client[c].p /\ client'[c].n = client[c].n
        /\ client'[c].len = client[c].len /\ client'[c].ptr = client[c].ptr
    BY <1>2, <2>2 DEF ClientRecord
  <2>4. pc' = "search" /\ who' = c /\ req' = client[c].n /\ live' = live
    BY <1>1 DEF MallocStart
  <2>5. QED
    BY <1>1, <1>2, <2>1, <2>2, <2>3, <2>4 DEF IInv, ClientOK, NULL
<1>5. QED
  BY <1>1, <1>2, <1>3, <1>4, MallocStartStep DEF IInv

(* List linkage depends on the tags and the heads only. *)
LEMMA SameLinked ==
  ASSUME NEW T, NEW F, LinkedIn(T, F), NEW S, DOMAIN S = DOMAIN T,
         \A u \in DOMAIN T : /\ S[u].index = T[u].index
                             /\ S[u].next = T[u].next
                             /\ S[u].prev = T[u].prev
  PROVE  LinkedIn(S, F)
  BY DEF LinkedIn

(* The walk of malloc to the next tag preserves the invariant. *)
LEMMA SearchNextStep ==
  ASSUME IInv, SearchNext
  PROVE  IInv'
<1>1. /\ RunsApart' /\ SplitChain' /\ BlocksInRuns' /\ ListsLinked'
      /\ ListedBySize' /\ Coalesced'
  BY SameTags DEF SearchNext, alloc_vars
<1>2. cur \in DOMAIN tag /\ tag[cur].next \in Nat
  BY Parts, TagTypes DEF IInv, HolderOK, SearchNext
<1>3. TypeOK'
  BY <1>2 DEF IInv, TypeOK, SearchNext, alloc_vars
<1>4. NoLeak'
  BY DEF IInv, NoLeak, SearchNext, Busy, IsFree, alloc_vars
<1>5. HolderOK'
  BY <1>2 DEF IInv, HolderOK, SearchNext, ListsLinked, NULL, alloc_vars
<1>6. ClientOK'
  BY DEF IInv, ClientOK, SearchNext, alloc_vars
<1>7. QED
  BY <1>1, <1>3, <1>4, <1>5, <1>6 DEF IInv

(* malloc taking a tag off its list preserves the invariant. *)
LEMMA SearchTakeStep ==
  ASSUME IInv, SearchTake
  PROVE  IInv'
<1> DEFINE T == remove_tag(tag, cur)
<1>1. /\ pc = "search" /\ cur # NULL /\ BigEnough(cur)
      /\ tag' = [T EXCEPT ![cur].size = req]
      /\ l_freePages' = Unlisted(tag, l_freePages, cur)
      /\ pc' = "carve"
      /\ UNCHANGED <<runs, live, cur, req, who, client>>
  BY DEF SearchTake
<1>2. /\ Tags(tag) /\ Runs(runs) /\ Layout(tag, runs)
      /\ l_freePages \in [Exps -> Nat] /\ LinkedIn(tag, l_freePages)
  BY Parts
<1>3. /\ cur \in DOMAIN tag /\ tag[cur].index = ListIndex(req)
      /\ req \in Sizes /\ req \in Nat
  BY <1>1, Constants DEF IInv, HolderOK
<1>4. ListIndex(req) \in Exps /\ tag[cur].index >= 0
  <2>1. ListIndex(req) \in Exps
    BY <1>3, ClassRange
  <2>2. ListIndex(req) >= 0
    BY <2>1, LiballocAssumption DEF Exps
  <2>3. QED
    BY <1>3, <2>1, <2>2
<1>5. /\ DOMAIN T = DOMAIN tag /\ Tags(T)
      /\ \A u \in DOMAIN tag :
           /\ T[u].size = tag[u].size
           /\ T[u].real_size = tag[u].real_size
           /\ T[u].split_left = tag[u].split_left
           /\ T[u].split_right = tag[u].split_right
           /\ T[u].index = IF u = cur THEN -1 ELSE tag[u].index
  BY <1>2, <1>3, RemoveFields
<1>6. /\ LinkedIn(T, l_freePages') /\ l_freePages' \in [Exps -> Nat]
  BY <1>1, <1>2, <1>3, <1>4, RemoveLinked
<1> HIDE DEF T
<1>7. /\ DOMAIN tag' = DOMAIN tag /\ Tags(tag')
      /\ \A u \in DOMAIN tag :
           /\ tag'[u].size = IF u = cur THEN req ELSE T[u].size
           /\ tag'[u].real_size = T[u].real_size /\ tag'[u].index = T[u].index
           /\ tag'[u].split_left = T[u].split_left
           /\ tag'[u].split_right = T[u].split_right
           /\ tag'[u].next = T[u].next /\ tag'[u].prev = T[u].prev
  BY <1>1, <1>3, <1>5 DEF Tags, TagRecord
<1>8. LinkedIn(tag', l_freePages')
  BY <1>5, <1>6, <1>7, SameLinked
<1>9. Layout(tag', runs')
  BY <1>1, <1>2, <1>5, <1>7, SameLayout
<1>10. RunsApart' /\ SplitChain' /\ BlocksInRuns' /\ ListsLinked'
  BY <1>1, <1>2, <1>8, <1>9, PartsNext
<1>11. \A u \in DOMAIN tag :
         /\ tag'[u].size = IF u = cur THEN req ELSE tag[u].size
         /\ tag'[u].real_size = tag[u].real_size
         /\ tag'[u].index = IF u = cur THEN -1 ELSE tag[u].index
         /\ tag'[u].split_left = tag[u].split_left
         /\ tag'[u].split_right = tag[u].split_right
  BY <1>5, <1>7
<1>12. TypeOK'
  <2>1. l_completePages' \in [Exps -> Int]
    BY <1>4 DEF SearchTake, IInv, TypeOK
  <2>2. QED
    BY <1>1, <1>6, <1>7, <2>1 DEF IInv, TypeOK, Tags, Phase
<1>13. ListedBySize'
  BY <1>7, <1>11 DEF IInv, ListedBySize, IsFree
<1>14. Coalesced'
  BY <1>2, <1>7, <1>11 DEF IInv, Coalesced, IsFree, Layout, ChainIn
<1>15. NoLeak'
  BY <1>1, <1>3, <1>4, <1>7, <1>11 DEF IInv, NoLeak, IsFree, Busy
<1>16. HolderOK'
  <2>1. tag[cur].real_size - HDR >= req + HDR /\ tag[cur].real_size \in Nat
    BY <1>1, <1>2, <1>3, TagTypes DEF BigEnough
  <2>2. HDR + req <= tag[cur].real_size
    BY <1>3, <2>1, Constants
  <2>3. /\ tag[cur].split_left # NULL => ~IsFree(tag[cur].split_left)
        /\ tag[cur].split_right # NULL => ~IsFree(tag[cur].split_right)
    BY <1>1, <1>2, <1>3, <1>4 DEF IInv, Coalesced, IsFree, Layout, ChainIn
  <2>4. ~LeftFree' /\ ~RightFree'
    BY <1>1, <1>2, <1>3, <1>7, <1>11, <2>3 DEF LeftFree, RightFree, IsFree, Layout, ChainIn
  <2>5. QED
    BY <1>1, <1>3, <1>7, <1>11, <2>2, <2>4 DEF HolderOK, IsFree
<1>17. ClientOK'
  BY <1>1 DEF IInv, ClientOK
<1>18. QED
  BY <1>10, <1>12, <1>13, <1>14, <1>15, <1>16, <1>17 DEF IInv

(* The pages of a new run hold the request and its header. *)
LEMMA PagesEnough ==
  ASSUME NEW n \in Nat
  PROVE  /\ PagesFor(n) \in Nat \ {0} /\ PagesFor(n) >= PageCount
         /\ PagesFor(n) * PageSize \in Nat
         /\ n + HDR <= PagesFor(n) * PageSize
<1> DEFINE usage == n + HDR
           q == usage \div PageSize
           r == usage % PageSize
           up == q + (IF r # 0 THEN 1 ELSE 0)
<1>1. PageSize \in Nat \ {0} /\ PageCount \in Nat \ {0} /\ usage \in Nat
  BY LiballocAssumption
<1>2. q \in Nat /\ r \in 0..(PageSize - 1) /\ usage = PageSize * q + r
  <2> HIDE DEF usage
  <2>1. q \in Int /\ usage = PageSize * q + r
    BY <1>1
  <2>2. r \in 0..(PageSize - 1)
    BY <1>1
  <2>3. q >= 0
    BY <1>1
  <2>4. QED
    BY <2>1, <2>2, <2>3
<1>3. up \in Nat /\ up >= q /\ (r # 0 => up = q + 1)
  BY <1>2
<1>4. PagesFor(n) = IF up < PageCount THEN PageCount ELSE up
  BY DEF PagesFor
<1> HIDE DEF usage, q, r, up
<1>5. PagesFor(n) \in Nat \ {0} /\ PagesFor(n) >= up /\ PagesFor(n) >= PageCount
  <2>1. up # 0 \/ up < PageCount
    BY <1>1, <1>3
  <2>2. QED
    BY <1>1, <1>3, <1>4, <2>1
<1>6. usage <= up * PageSize
  <2>1. CASE r = 0
    BY <1>1, <1>2, <1>3, <2>1
  <2>2. CASE r # 0
    <3>1. up * PageSize = PageSize * q + PageSize
      BY <1>1, <1>2, <1>3, <2>2
    <3>2. QED
      BY <1>1, <1>2, <3>1
  <2>3. QED
    BY <2>1, <2>2
<1>7. up * PageSize <= PagesFor(n) * PageSize /\ PagesFor(n) * PageSize \in Nat
  BY <1>1, <1>3, <1>5
<1>8. up * PageSize \in Nat
  BY <1>1, <1>3
<1>9. QED
  BY <1>1, <1>5, <1>6, <1>7, <1>8 DEF usage

(* malloc returns to a plain caller, a calloc or a realloc. *)
LEMMA ReturnStep ==
  ASSUME IInv, NEW ptr \in Nat, Return(ptr), pc \in {"search", "carve"},
         pc' = "idle", who' = who,
         ptr = NULL => live' = live,
         ptr # NULL => /\ ptr \notin DOMAIN live
                       /\ DOMAIN live' = DOMAIN live \cup {ptr} /\ live'[ptr] = req
                       /\ \A q \in DOMAIN live : live'[q] = live[q]
  PROVE  ClientOK' /\ client' \in [Contexts -> ClientRecord]
<1>1. /\ client \in [Contexts -> ClientRecord] /\ who \in Contexts
      /\ DOMAIN live \subseteq Nat \ {0}
  BY DEF IInv, TypeOK
<1>2. /\ DOMAIN live \subseteq DOMAIN live'
      /\ \A q \in DOMAIN live : live'[q] = live[q]
  OBVIOUS
<1>3. CASE client[who].op = "none"
  <2>1. client' = client
    BY <1>3 DEF Return
  <2>2. \A d \in Contexts : client[d].ph # "malloc"
    BY <1>3 DEF IInv, ClientOK, Idle
  <2>3. \A d \in Contexts : client[d].op = "realloc" => client[d].p \in DOMAIN live
    BY DEF IInv, ClientOK
  <2>4. \A d \in Contexts :
          client[d].op = "realloc" /\ client[d].ptr # NULL => client[d].ptr \in DOMAIN live
    BY DEF IInv, ClientOK
  <2>5. QED
    BY <1>1, <1>2, <2>1, <2>2, <2>3, <2>4 DEF IInv, ClientOK
<1>4. CASE client[who].op # "none"
  <2>1. client' = [client EXCEPT ![who].ph = "write", ![who].ptr = ptr]
    BY <1>4 DEF Return
  <2>2. client' \in [Contexts -> ClientRecord]
    BY <1>1, <2>1 DEF ClientRecord
  <2>3. /\ client'[who].op = client[who].op /\ client'[who].ph = "write"
        /\ client'[who].p = client[who].p /\ client'[who].n = client[who].n
        /\ client'[who].len = client[who].len /\ client'[who].ptr = ptr
        /\ \A d \in Contexts : d # who => client'[d] = client[d]
    BY <1>1, <2>1 DEF ClientRecord
  <2>4. client[who].ph = "malloc" /\ req = client[who].n
    BY <1>1, <1>4 DEF IInv, ClientOK
  <2>5. \A d \in Contexts : client[d].op = "realloc" =>
          /\ client[d].p \in DOMAIN live /\ client[d].p # ptr
          /\ client[d].p \in DOMAIN live' /\ client[d].len <= live'[client[d].p]
    BY <1>1, <1>2 DEF IInv, ClientOK, NULL
  <2>6. ASSUME NEW c \in Contexts, c # who
        PROVE  /\ client'[c].op = "none" => client'[c] = Idle
               /\ client'[c].op # "none" =>
                    /\ client'[c].n \in Sizes /\ client'[c].len <= client'[c].n
                    /\ client'[c].ph # "write" => client'[c].ptr = NULL
               /\ client'[c].ph # "malloc"
               /\ client'[c].op = "realloc" =>
                    /\ client'[c].p \in DOMAIN live'
                    /\ client'[c].len <= live'[client'[c].p]
                    /\ \A d \in Contexts \ {c} :
                         client'[d].p # client'[c].p /\ client'[d].ptr # client'[c].p
               /\ client'[c].op = "realloc" /\ client'[c].ptr # NULL =>
                    /\ client'[c].ptr \in DOMAIN live' \ {client'[c].p}
                    /\ client'[c].len <= live'[client'[c].ptr]
    <3>1. client'[c] = client[c]
      BY <2>3, <2>6
    <3>2. \A d \in Contexts \ {c} : client[c].op = "realloc" =>
            client'[d].p # client[c].p /\ client'[d].ptr # client[c].p
      <4>1. \A d \in Contexts \ {c} : client[c].op = "realloc" =>
              client[d].p # client[c].p /\ client[d].ptr # client[c].p
        BY DEF IInv, ClientOK
      <4>2. QED
        BY <2>3, <2>5, <4>1
    <3>3. QED
      BY <1>2, <2>5, <2>6, <3>1, <3>2 DEF IInv, ClientOK
  <2>7. /\ client'[who].n \in Sizes /\ client'[who].len <= client'[who].n
        /\ client'[who].op = "realloc" =>
             /\ client'[who].p \in DOMAIN live'
             /\ client'[who].len <= live'[client'[who].p]
             /\ \A d \in Contexts \ {who} :
                  client'[d].p # client'[who].p /\ client'[d].ptr # client'[who].p
    BY <1>1, <1>4, <2>3, <2>5 DEF IInv, ClientOK
  <2>8. client'[who].op = "realloc" /\ client'[who].ptr # NULL =>
          /\ client'[who].ptr \in DOMAIN live' \ {client'[who].p}
          /\ client'[who].len <= live'[client'[who].ptr]
    BY <1>1, <2>3, <2>4, <2>5, <2>7
  <2>9. ClientOK'
    BY <1>4, <2>3, <2>6, <2>7, <2>8 DEF ClientOK
  <2>10. QED
    BY <2>2, <2>9
<1>5. QED
  BY <1>3, <1>4

(* malloc returning NULL preserves the invariant. *)
LEMMA NoPagesStep ==
  ASSUME IInv, NoPages
  PROVE  IInv'
<1>1. /\ RunsApart' /\ SplitChain' /\ BlocksInRuns' /\ ListsLinked'
      /\ ListedBySize' /\ Coalesced'
  BY SameTags DEF NoPages, alloc_vars
<1>2. ClientOK' /\ client' \in [Contexts -> ClientRecord]
  BY ReturnStep DEF NoPages, NULL
<1>3. TypeOK'
  BY <1>2 DEF IInv, TypeOK, NoPages, alloc_vars, Phase
<1>4. NoLeak'
  BY DEF IInv, NoLeak, NoPages, Busy, IsFree, alloc_vars
<1>5. HolderOK'
  BY DEF HolderOK, NoPages
<1>6. QED
  BY <1>1, <1>2, <1>3, <1>4, <1>5 DEF IInv

(* allocate_new_tag preserves the invariant: the new run is one block. *)
LEMMA NewTagStep ==
  ASSUME IInv, NEW b \in PageBases, NewTag(b)
  PROVE  IInv'
<1> DEFINE n == PagesFor(req)
           new == [size |-> req, real_size |-> n * PageSize, index |-> -1,
                   split_left |-> NULL, split_right |-> NULL,
                   next |-> NULL, prev |-> NULL]
<1>1. /\ pc = "search" /\ cur = NULL
      /\ runs' = [r \in DOMAIN runs \cup {b} |-> IF r = b THEN n ELSE runs[r]]
      /\ tag' = [t \in DOMAIN tag \cup {b} |-> IF t = b THEN new ELSE tag[t]]
      /\ cur' = b /\ pc' = "carve"
      /\ UNCHANGED <<l_freePages, l_completePages, live, req, who, client>>
      /\ \A r \in DOMAIN runs :
           b + n * PageSize <= r \/ r + runs[r] * PageSize <= b
  BY DEF NewTag, FreeRun
<1>2. /\ Tags(tag) /\ Runs(runs) /\ Layout(tag, runs)
      /\ l_freePages \in [Exps -> Nat] /\ LinkedIn(tag, l_freePages)
  BY Parts
<1>3. req \in Sizes /\ req \in Nat /\ HDR \in Nat \ {0}
  BY <1>1, Constants DEF IInv, HolderOK
<1>4. /\ n \in Nat \ {0} /\ n >= PageCount /\ n * PageSize \in Nat
      /\ req + HDR <= n * PageSize
  BY <1>3, PagesEnough
<1>5. b \in Nat \ {0}
  BY LiballocAssumption DEF PageBases
<1>6. \A r \in DOMAIN runs : r \in Nat \ {0} /\ EndOf(runs, r) \in Nat /\ EndOf(runs, r) > r
  BY <1>2, EndOfInt DEF Runs
<1>7. \A t \in DOMAIN tag :
        /\ t \in Nat \ {0} /\ tag[t].real_size \in Nat /\ tag[t].real_size >= HDR
        /\ tag[t].index \in Int
        /\ t + tag[t].real_size <= b \/ b + n * PageSize <= t
        /\ t # b
  <2> TAKE t \in DOMAIN tag
  <2>1. t \in Nat \ {0} /\ tag[t].real_size \in Nat /\ tag[t].index \in Int
    BY <1>2, TagTypes
  <2>2. PICK r \in DOMAIN runs : InsideIn(tag, runs, t, r)
    BY <1>2 DEF Layout, BlocksIn
  <2>3. tag[t].real_size >= HDR
    BY <1>2 DEF Layout, BlocksIn
  <2>4. b + n * PageSize <= r \/ EndOf(runs, r) <= b
    BY <1>1 DEF EndOf
  <2> HIDE DEF n
  <2>5. QED
    BY <1>3, <1>4, <1>5, <1>6, <2>1, <2>2, <2>3, <2>4 DEF InsideIn
<1>8. /\ DOMAIN tag' = DOMAIN tag \cup {b}
      /\ tag'[b] = new
      /\ \A t \in DOMAIN tag : tag'[t] = tag[t]
  BY <1>1, <1>7
<1>9. /\ tag'[b].size = req /\ tag'[b].real_size = n * PageSize /\ tag'[b].index = -1
      /\ tag'[b].split_left = NULL /\ tag'[b].split_right = NULL
      /\ tag'[b].next = NULL /\ tag'[b].prev = NULL
  BY <1>8
<1>10. Tags(tag')
  <2>1. new \in TagRecord
    BY <1>3, <1>4 DEF TagRecord, NULL
  <2>2. QED
    BY <1>1, <1>2, <1>5, <2>1 DEF Tags
<1>11. b \notin DOMAIN runs
  BY <1>1, <1>3, <1>4, <1>5, <1>6 DEF EndOf
<1>12. /\ DOMAIN runs' = DOMAIN runs \cup {b} /\ runs'[b] = n
       /\ \A r \in DOMAIN runs : runs'[r] = runs[r]
  BY <1>1, <1>11
<1>13. /\ EndOf(runs', b) = b + n * PageSize
       /\ \A r \in DOMAIN runs : EndOf(runs', r) = EndOf(runs, r)
  BY <1>12 DEF EndOf
<1>14. Runs(runs')
  <2>1. DOMAIN runs' \subseteq Nat \ {0} /\ runs' \in [DOMAIN runs' -> Nat \ {0}]
    BY <1>1, <1>2, <1>4, <1>5 DEF Runs
  <2>2. \A r \in DOMAIN runs' : runs'[r] >= PageCount
    BY <1>2, <1>4, <1>12 DEF Runs
  <2>3. ASSUME NEW r \in DOMAIN runs', NEW s \in DOMAIN runs', r # s
        PROVE  EndOf(runs', r) <= s \/ EndOf(runs', s) <= r
    <3>1. \A q \in DOMAIN runs : b + n * PageSize <= q \/ EndOf(runs, q) <= b
      BY <1>1 DEF EndOf
    <3> HIDE DEF n
    <3>2. QED
      BY <1>2, <1>12, <1>13, <2>3, <3>1 DEF Runs
  <2>4. QED
    BY <2>1, <2>2, <2>3 DEF Runs
<1> HIDE DEF n, new
<1>15. Layout(tag', runs')
  <2>1. ChainIn(tag')
    BY <1>2, <1>8, <1>9 DEF Layout, ChainIn
  <2>2. ASSUME NEW t \in DOMAIN tag'
        PROVE  /\ tag'[t].real_size >= HDR
               /\ \E r \in DOMAIN runs' : InsideIn(tag', runs', t, r)
    <3>1. CASE t = b
      <4>1. InsideIn(tag', runs', b, b)
        BY <1>4, <1>5, <1>9, <1>13 DEF InsideIn
      <4>2. QED
        BY <1>3, <1>4, <1>9, <1>12, <3>1, <4>1
    <3>2. CASE t # b
      <4>1. t \in DOMAIN tag /\ tag'[t] = tag[t]
        BY <1>8, <3>2
      <4>2. PICK r \in DOMAIN runs : InsideIn(tag, runs, t, r)
        BY <1>2, <4>1 DEF Layout, BlocksIn
      <4>3. InsideIn(tag', runs', t, r)
        BY <1>13, <4>1, <4>2 DEF InsideIn
      <4>4. QED
        BY <1>7, <1>12, <4>1, <4>3
    <3>3. QED
      BY <3>1, <3>2
  <2>3. ASSUME NEW t \in DOMAIN tag', NEW u \in DOMAIN tag', t # u
        PROVE  t + tag'[t].real_size <= u \/ u + tag'[u].real_size <= t
    BY <1>2, <1>7, <1>8, <1>9, <2>3 DEF Layout, BlocksIn
  <2>4. QED
    BY <2>1, <2>2, <2>3 DEF Layout, BlocksIn
<1>16. LinkedIn(tag', l_freePages')
  BY <1>1, <1>2, <1>7, <1>8, <1>9 DEF LinkedIn, NULL
<1>17. RunsApart' /\ SplitChain' /\ BlocksInRuns' /\ ListsLinked'
  BY <1>14, <1>15, <1>16, PartsNext
<1>18. TypeOK'
  BY <1>1, <1>2, <1>5, <1>10, <1>14 DEF IInv, TypeOK, Tags, Runs, Phase
<1>19. ListedBySize'
  BY <1>8, <1>9 DEF IInv, ListedBySize, IsFree
<1>20. Coalesced'
  <2>1. \A t \in DOMAIN tag : tag[t].split_right # NULL => tag[t].split_right \in DOMAIN tag
    BY <1>2 DEF Layout, ChainIn
  <2>2. QED
    BY <1>8, <1>9, <2>1 DEF IInv, Coalesced, IsFree
<1>21. NoLeak'
  <2>1. Busy' = {b} /\ Busy = {}
    BY <1>1 DEF Busy
  <2>2. QED
    BY <1>1, <1>7, <1>8, <1>9, <2>1 DEF IInv, NoLeak, IsFree
<1>22. HolderOK'
  BY <1>1, <1>3, <1>4, <1>8, <1>9 DEF HolderOK, IsFree, LeftFree, RightFree
<1>23. ClientOK'
  BY <1>1 DEF IInv, ClientOK
<1>24. QED
  BY <1>17, <1>18, <1>19, <1>20, <1>21, <1>22, <1>23 DEF IInv

(* What MallocReturn adds to the owned blocks. *)
LEMMA MallocReturnStep ==
  ASSUME IInv, pc = "carve", MallocReturn
  PROVE  /\ cur + HDR \in Nat \ {0} /\ cur + HDR \notin DOMAIN live
         /\ DOMAIN live' = DOMAIN live \cup {cur + HDR} /\ live'[cur + HDR] = req
         /\ \A q \in DOMAIN live : live'[q] = live[q]
         /\ live' \in [DOMAIN live' -> Nat] /\ DOMAIN live' \subseteq Nat \ {0}
         /\ ClientOK' /\ client' \in [Contexts -> ClientRecord]
         /\ HolderOK'
<1>1. /\ cur \in DOMAIN tag /\ cur \in Nat \ {0} /\ HDR \in Nat \ {0}
      /\ req \in Nat
  BY Parts, TagTypes, Constants DEF IInv, HolderOK
<1>2. (cur + HDR) - HDR = cur /\ cur + HDR \in Nat \ {0}
  BY <1>1
<1>3. cur + HDR \notin DOMAIN live
  BY <1>2 DEF IInv, NoLeak, Busy
<1>4. /\ DOMAIN live' = DOMAIN live \cup {cur + HDR} /\ live'[cur + HDR] = req
      /\ \A q \in DOMAIN live : live'[q] = live[q]
  BY <1>3 DEF MallocReturn
<1>5. live' \in [DOMAIN live' -> Nat] /\ DOMAIN live' \subseteq Nat \ {0}
  BY <1>1, <1>2, <1>4 DEF IInv, TypeOK, MallocReturn
<1>6. ClientOK' /\ client' \in [Contexts -> ClientRecord]
  BY <1>2, <1>3, <1>4, ReturnStep DEF MallocReturn, NULL
<1>7. HolderOK'
  BY DEF HolderOK, MallocReturn
<1>8. QED
  BY <1>2, <1>3, <1>4, <1>5, <1>6, <1>7

(* malloc returning a whole block preserves the invariant. *)
LEMMA CarveWholeStep ==
  ASSUME IInv, CarveWhole
  PROVE  IInv'
<1>1. /\ pc = "carve" /\ UNCHANGED <<tag, l_freePages>> /\ MallocReturn
      /\ UNCHANGED <<l_completePages, runs, who>> /\ pc' = "idle" /\ cur' = NULL /\ req' = 0
  BY DEF CarveWhole, MallocReturn
<1>2. /\ RunsApart' /\ SplitChain' /\ BlocksInRuns' /\ ListsLinked'
      /\ ListedBySize' /\ Coalesced'
  BY <1>1, SameTags
<1>3. /\ DOMAIN live' = DOMAIN live \cup {cur + HDR} /\ live'[cur + HDR] = req
      /\ \A q \in DOMAIN live : live'[q] = live[q]
      /\ live' \in [DOMAIN live' -> Nat] /\ DOMAIN live' \subseteq Nat \ {0}
      /\ ClientOK' /\ client' \in [Contexts -> ClientRecord]
      /\ HolderOK'
  BY <1>1, MallocReturnStep
<1>4. TypeOK'
  BY <1>1, <1>3 DEF IInv, TypeOK, Phase, NULL
<1>5. NoLeak'
  <2>1. Busy = {cur} /\ Busy' = {}
    BY <1>1 DEF Busy
  <2>2. /\ cur \in DOMAIN tag /\ ~IsFree(cur) /\ tag[cur].size = req
        /\ HDR + req <= tag[cur].real_size
    BY <1>1 DEF IInv, HolderOK
  <2>3. (cur + HDR) - HDR = cur
    BY <2>2, Parts, TagTypes, Constants
  <2>4. QED
    BY <1>1, <1>3, <2>1, <2>2, <2>3 DEF IInv, NoLeak, IsFree
<1>6. QED
  BY <1>2, <1>3, <1>4, <1>5 DEF IInv

(* malloc splitting a block and returning its left part preserves the invariant. *)
LEMMA CarveSplitStep ==
  ASSUME IInv, CarveSplit
  PROVE  IInv'
<1> DEFINE T == SplitOff(tag, cur)
           new == NewAt(tag, cur)
           i == ListIndex(T[new].real_size - HDR)
<1>1. /\ pc = "carve" /\ Splittable /\ MallocReturn
      /\ tag' = insert_tag(T, l_freePages, new, i)
      /\ l_freePages' = [l_freePages EXCEPT ![i] = new]
      /\ UNCHANGED <<l_completePages, runs, who>> /\ pc' = "idle" /\ cur' = NULL /\ req' = 0
  BY DEF CarveSplit, MallocReturn, NewAt
<1>2. /\ Tags(tag) /\ Runs(runs) /\ Layout(tag, runs)
      /\ l_freePages \in [Exps -> Nat] /\ LinkedIn(tag, l_freePages)
  BY Parts
<1>3. /\ cur \in DOMAIN tag /\ ~(tag[cur].index >= 0) /\ tag[cur].size = req
      /\ HDR + req <= tag[cur].real_size /\ ~LeftFree /\ ~RightFree
  BY <1>1 DEF IInv, HolderOK, IsFree
<1>4. /\ cur \in Nat \ {0} /\ tag[cur].real_size \in Nat /\ req \in Nat
      /\ HDR \in Nat \ {0}
  BY <1>2, <1>3, TagTypes, Constants
<1>5. RestOf(tag, cur) >= HDR /\ RestOf(tag, cur) \in Int
  BY <1>1, <1>3, <1>4 DEF Splittable, Remainder, RestOf
<1>6. /\ new \in Nat \ {0} /\ RestOf(tag, cur) \in Nat /\ new \notin DOMAIN tag
      /\ cur + HDR <= new
  BY <1>2, <1>3, <1>5, SplitFresh
<1>7. DOMAIN T = DOMAIN tag \cup {new} /\ Tags(T)
  BY <1>2, <1>3, <1>5, SplitDomain, SplitTags
<1>8. /\ T[new].real_size = RestOf(tag, cur) /\ T[new].index = -1
      /\ T[new].split_left = cur /\ T[new].split_right = tag[cur].split_right
  BY SplitNew
<1>9. \A u \in DOMAIN tag : T[u].size = tag[u].size /\ T[u].index = tag[u].index
  BY <1>2, <1>3, <1>6, SplitOthers
<1>10. \A u \in DOMAIN tag :
         T[u].real_size = IF u = cur THEN HDR + req ELSE tag[u].real_size
  <2>1. \A u \in DOMAIN tag :
          T[u].real_size = IF u = cur THEN HDR + tag[cur].size ELSE tag[u].real_size
    BY <1>2, <1>3, <1>6, SplitSizes
  <2>2. QED
    BY <1>3, <2>1
<1>11. \A u \in DOMAIN tag :
         T[u].split_right = IF u = cur THEN new ELSE tag[u].split_right
  BY <1>2, <1>3, <1>6, SplitLinks
<1>12. LinkedIn(T, l_freePages) /\ Layout(T, runs)
  BY <1>2, <1>3, <1>5, SplitLinked, SplitLayout
<1>13. i \in Exps /\ i >= 0
  <2>1. T[new].real_size - HDR \in Int
    BY <1>4, <1>5, <1>8
  <2>2. i \in Exps
    BY <2>1, ClassRange
  <2>3. QED
    BY <2>2, LiballocAssumption DEF Exps
<1> HIDE DEF T, new, i
<1>14. /\ DOMAIN tag' = DOMAIN T /\ Tags(tag')
       /\ \A u \in DOMAIN T :
            /\ tag'[u].size = T[u].size /\ tag'[u].real_size = T[u].real_size
            /\ tag'[u].split_left = T[u].split_left
            /\ tag'[u].split_right = T[u].split_right
            /\ tag'[u].index = IF u = new THEN i ELSE T[u].index
  BY <1>1, <1>2, <1>7, <1>13, InsertFields
<1>15. LinkedIn(tag', l_freePages')
  <2>1. new \in DOMAIN T /\ ~(T[new].index >= 0)
    BY <1>7, <1>8
  <2>2. LinkedIn(insert_tag(T, l_freePages, new, i), [l_freePages EXCEPT ![i] = new])
    BY <1>2, <1>7, <1>12, <1>13, <2>1, InsertLinked
  <2>3. QED
    BY <1>1, <2>2
<1>16. Layout(tag', runs')
  BY <1>1, <1>12, <1>14, SameLayout
<1>17. RunsApart' /\ SplitChain' /\ BlocksInRuns' /\ ListsLinked'
  BY <1>1, <1>2, <1>15, <1>16, PartsNext
<1>18. /\ DOMAIN live' = DOMAIN live \cup {cur + HDR} /\ live'[cur + HDR] = req
       /\ \A q \in DOMAIN live : live'[q] = live[q]
       /\ live' \in [DOMAIN live' -> Nat] /\ DOMAIN live' \subseteq Nat \ {0}
       /\ ClientOK' /\ client' \in [Contexts -> ClientRecord]
       /\ HolderOK'
  BY <1>1, MallocReturnStep
<1>19. TypeOK'
  <2>1. l_freePages' \in [Exps -> Nat]
    BY <1>1, <1>2, <1>6, <1>13
  <2>2. QED
    BY <1>1, <1>14, <1>18, <2>1 DEF IInv, TypeOK, Phase, NULL, Tags
<1>20. ListedBySize'
  <2>1. ASSUME NEW u \in DOMAIN tag', tag'[u].index >= 0
        PROVE  tag'[u].index = ListIndex(tag'[u].real_size - HDR)
    <3>1. CASE u = new
      BY <1>7, <1>14, <3>1 DEF i
    <3>2. CASE u # new
      BY <1>3, <1>7, <1>9, <1>10, <1>14, <2>1, <3>2 DEF IInv, ListedBySize, IsFree
    <3>3. QED
      BY <3>1, <3>2
  <2>2. QED
    BY <2>1 DEF ListedBySize, IsFree
<1>21. Coalesced'
  <2>1. ASSUME NEW u \in DOMAIN tag', tag'[u].index >= 0, tag'[u].split_right # NULL
        PROVE  ~(tag'[tag'[u].split_right].index >= 0)
    <3>1. \A t \in DOMAIN tag :
            tag[t].split_right # NULL =>
              /\ tag[t].split_right \in DOMAIN tag
              /\ tag[tag[t].split_right].split_left = t
      BY <1>2 DEF Layout, ChainIn
    <3>2. CASE u = new
      BY <1>3, <1>6, <1>7, <1>8, <1>9, <1>14, <2>1, <3>1, <3>2 DEF RightFree, IsFree
    <3>3. CASE u # new
      <4>1. u \in DOMAIN tag /\ u # cur /\ tag[u].index >= 0
            /\ tag'[u].split_right = tag[u].split_right
        BY <1>3, <1>7, <1>9, <1>11, <1>14, <2>1, <3>3
      <4>2. ~(tag[tag[u].split_right].index >= 0) /\ tag[u].split_right \in DOMAIN tag
        BY <2>1, <3>1, <4>1 DEF IInv, Coalesced, IsFree
      <4>3. QED
        BY <1>6, <1>7, <1>9, <1>14, <4>1, <4>2
    <3>4. QED
      BY <3>2, <3>3
  <2>2. QED
    BY <2>1 DEF Coalesced, IsFree
<1>22. NoLeak'
  <2>1. Busy = {cur} /\ Busy' = {}
    BY <1>1 DEF Busy
  <2>2. (cur + HDR) - HDR = cur
    BY <1>4
  <2>3. ASSUME NEW t \in DOMAIN tag', ~(tag'[t].index >= 0)
        PROVE  t + HDR \in DOMAIN live'
    BY <1>7, <1>9, <1>13, <1>14, <1>18, <2>1, <2>3 DEF IInv, NoLeak, IsFree
  <2>4. ASSUME NEW p \in DOMAIN live'
        PROVE  /\ p - HDR \in DOMAIN tag' /\ ~(tag'[p - HDR].index >= 0)
               /\ tag'[p - HDR].size = live'[p]
               /\ HDR + live'[p] <= tag'[p - HDR].real_size
    <3>1. CASE p = cur + HDR
      BY <1>3, <1>4, <1>6, <1>7, <1>9, <1>10, <1>14, <1>18, <2>2, <3>1
    <3>2. CASE p # cur + HDR
      BY <1>6, <1>7, <1>9, <1>10, <1>14, <1>18, <2>1, <3>2 DEF IInv, NoLeak, IsFree
    <3>3. QED
      BY <3>1, <3>2
  <2>5. QED
    BY <2>1, <2>3, <2>4 DEF NoLeak, IsFree
<1>23. QED
  BY <1>17, <1>18, <1>19, <1>20, <1>21, <1>22 DEF IInv

(* The owner gives a block up; the holder of the lock has it from now on. *)
LEMMA FreeStartStep ==
  ASSUME IInv, NEW c \in Contexts, NEW p \in DOMAIN live, FreeStart(c, p),
         client' \in [Contexts -> ClientRecord]
  PROVE  /\ TypeOK' /\ RunsApart' /\ SplitChain' /\ BlocksInRuns' /\ ListsLinked'
         /\ ListedBySize' /\ Coalesced' /\ NoLeak' /\ HolderOK'
<1>1. /\ pc = "idle" /\ pc' = "melt_left" /\ who' = c /\ cur' = p - HDR
      /\ tag' = [tag EXCEPT ![p - HDR].size = 0]
      /\ live' = [q \in DOMAIN live \ {p} |-> live[q]]
      /\ UNCHANGED <<l_freePages, l_completePages, runs, req>>
  BY DEF FreeStart
<1>2. /\ Tags(tag) /\ Runs(runs) /\ Layout(tag, runs)
      /\ l_freePages \in [Exps -> Nat] /\ LinkedIn(tag, l_freePages)
  BY Parts
<1>3. p - HDR \in DOMAIN tag /\ ~(tag[p - HDR].index >= 0)
  BY DEF IInv, NoLeak, IsFree
<1>4. /\ DOMAIN tag' = DOMAIN tag /\ Tags(tag')
      /\ \A u \in DOMAIN tag :
           /\ tag'[u].size = IF u = p - HDR THEN 0 ELSE tag[u].size
           /\ tag'[u].real_size = tag[u].real_size /\ tag'[u].index = tag[u].index
           /\ tag'[u].split_left = tag[u].split_left
           /\ tag'[u].split_right = tag[u].split_right
           /\ tag'[u].next = tag[u].next /\ tag'[u].prev = tag[u].prev
  BY <1>1, <1>2, <1>3 DEF Tags, TagRecord
<1>5. LinkedIn(tag', l_freePages') /\ Layout(tag', runs')
  BY <1>1, <1>2, <1>4, SameLinked, SameLayout
<1>6. RunsApart' /\ SplitChain' /\ BlocksInRuns' /\ ListsLinked'
  BY <1>1, <1>2, <1>5, PartsNext
<1>7. TypeOK'
  <2>1. p - HDR \in Nat
    BY <1>2, <1>3, TagTypes
  <2>2. QED
    BY <1>1, <1>4, <2>1 DEF IInv, TypeOK, Tags, Phase
<1>8. ListedBySize'
  BY <1>4 DEF IInv, ListedBySize, IsFree
<1>9. Coalesced'
  BY <1>2, <1>4 DEF IInv, Coalesced, IsFree, Layout, ChainIn
<1>10. NoLeak'
  <2>1. Busy = {} /\ Busy' = {p - HDR}
    BY <1>1 DEF Busy
  <2>2. HDR \in Nat /\ p \in Nat /\ \A q \in DOMAIN live : q \in Nat
    BY Constants DEF IInv, TypeOK
  <2>3. /\ \A t \in DOMAIN tag : t \in Nat /\ (t + HDR = p => t = p - HDR)
        /\ \A q \in DOMAIN live : q # p => q - HDR # p - HDR
    BY <1>2, <2>2, TagTypes
  <2>4. DOMAIN live' = DOMAIN live \ {p} /\ \A q \in DOMAIN live' : live'[q] = live[q]
    BY <1>1
  <2>5. QED
    BY <1>4, <2>1, <2>3, <2>4 DEF IInv, NoLeak, IsFree
<1>11. HolderOK'
  BY <1>1, <1>3, <1>4 DEF HolderOK, IsFree
<1>12. QED
  BY <1>6, <1>7, <1>8, <1>9, <1>10, <1>11

(* free preserves the invariant when it takes the lock. *)
LEMMA FreeStep ==
  ASSUME IInv, NEW c \in Contexts, NEW p \in DOMAIN live, Free(c, p)
  PROVE  IInv'
<1>1. /\ FreeStart(c, p) /\ client' = client /\ p \notin Claimed
  BY DEF Free
<1>2. client' \in [Contexts -> ClientRecord]
  BY <1>1 DEF IInv, TypeOK
<1>3. ClientOK'
  <2>1. \A d \in Contexts : client[d].p # p /\ client[d].ptr # p
    BY <1>1 DEF Claimed
  <2>2. /\ pc = "idle" /\ pc' = "melt_left"
        /\ DOMAIN live' = DOMAIN live \ {p}
        /\ \A q \in DOMAIN live' : live'[q] = live[q]
    BY <1>1 DEF FreeStart
  <2>3. QED
    BY <1>1, <2>1, <2>2 DEF IInv, ClientOK
<1>4. QED
  BY <1>1, <1>2, <1>3, FreeStartStep DEF IInv

(* realloc preserves the invariant when it frees the old block. *)
LEMMA ReallocFreeStep ==
  ASSUME IInv, NEW c \in Contexts, ReallocFree(c)
  PROVE  IInv'
<1> DEFINE p == client[c].p
<1>1. /\ client[c].op = "realloc" /\ client[c].ph = "write" /\ FreeStart(c, p)
      /\ client' = [client EXCEPT ![c] = Idle]
  BY DEF ReallocFree
<1>2. /\ client \in [Contexts -> ClientRecord] /\ p \in DOMAIN live
      /\ DOMAIN live \subseteq Nat \ {0}
  BY <1>1 DEF IInv, TypeOK, ClientOK
<1>3. /\ client' \in [Contexts -> ClientRecord] /\ client'[c] = Idle
      /\ \A d \in Contexts : d # c => client'[d] = client[d]
  BY <1>1, <1>2 DEF ClientRecord, Idle, NULL
<1>4. ClientOK'
  <2>1. \A d \in Contexts : d # c => client[d].p # p /\ client[d].ptr # p
    BY <1>1 DEF IInv, ClientOK
  <2>2. /\ pc = "idle" /\ pc' = "melt_left"
        /\ DOMAIN live' = DOMAIN live \ {p}
        /\ \A q \in DOMAIN live' : live'[q] = live[q]
    BY <1>1 DEF FreeStart
  <2>3. /\ Idle.op = "none" /\ Idle.ph = "none" /\ Idle.p = NULL /\ Idle.ptr = NULL
    BY DEF Idle
  <2> HIDE DEF p
  <2>4. QED
    BY <1>2, <1>3, <2>1, <2>2, <2>3 DEF IInv, ClientOK, NULL
<1>5. QED
  BY <1>1, <1>2, <1>3, <1>4, FreeStartStep DEF IInv

(* calloc returning preserves the invariant. *)
LEMMA CallocClearStep ==
  ASSUME IInv, NEW c \in Contexts, CallocClear(c)
  PROVE  IInv'
<1>1. /\ client[c].op = "calloc" /\ client[c].ph = "write"
      /\ client' = [client EXCEPT ![c] = Idle]
      /\ UNCHANGED <<tag, l_freePages, l_completePages, runs, live, pc, cur, req, who>>
  BY DEF CallocClear, alloc_vars
<1>2. client \in [Contexts -> ClientRecord] /\ DOMAIN live \subseteq Nat \ {0}
  BY DEF IInv, TypeOK
<1>3. /\ client' \in [Contexts -> ClientRecord] /\ client'[c] = Idle
      /\ \A d \in Contexts : d # c => client'[d] = client[d]
  BY <1>1, <1>2 DEF ClientRecord, Idle, NULL
<1>4. ClientOK'
  <2>1. /\ Idle.op = "none" /\ Idle.ph = "none" /\ Idle.p = NULL /\ Idle.ptr = NULL
    BY DEF Idle
  <2>2. QED
    BY <1>1, <1>2, <1>3, <2>1 DEF IInv, ClientOK, NULL
<1>5. /\ RunsApart' /\ SplitChain' /\ BlocksInRuns' /\ ListsLinked'
      /\ ListedBySize' /\ Coalesced'
  BY <1>1, SameTags
<1>6. TypeOK'
  BY <1>1, <1>3 DEF IInv, TypeOK
<1>7. NoLeak' /\ HolderOK'
  BY <1>1 DEF IInv, NoLeak, HolderOK, Busy, IsFree, LeftFree, RightFree
<1>8. QED
  BY <1>4, <1>5, <1>6, <1>7 DEF IInv

(* realloc reading the old size preserves the invariant. *)
LEMMA ReallocLookupStep ==
  ASSUME IInv, NEW c \in Contexts, NEW p \in DOMAIN live, NEW n \in Sizes,
         ReallocLookup(c, p, n)
  PROVE  IInv'
<1> DEFINE size == tag[p - HDR].size
           len == IF size > n THEN n ELSE size
           new == [op |-> "realloc", ph |-> "lookup", p |-> p, n |-> n,
                   len |-> len, ptr |-> NULL]
<1>1. /\ client[c].op = "none" /\ pc = "idle" /\ p \notin Claimed
      /\ client' = [client EXCEPT ![c] = new]
      /\ UNCHANGED <<tag, l_freePages, l_completePages, runs, live, pc, cur, req, who>>
  BY DEF ReallocLookup, alloc_vars
<1>2. /\ client \in [Contexts -> ClientRecord] /\ DOMAIN live \subseteq Nat \ {0}
      /\ n \in Nat /\ live[p] \in Nat /\ p \in Nat \ {0}
  BY Constants DEF IInv, TypeOK
<1>3. size = live[p]
  BY DEF IInv, NoLeak
<1>4. len \in Nat /\ len <= n /\ len <= live[p]
  BY <1>2, <1>3
<1> HIDE DEF len
<1>5. new \in ClientRecord
  BY <1>2, <1>4 DEF ClientRecord, NULL
<1>6. /\ client' \in [Contexts -> ClientRecord] /\ client'[c] = new
      /\ \A d \in Contexts : d # c => client'[d] = client[d]
  BY <1>1, <1>2, <1>5
<1>7. /\ client'[c].op = "realloc" /\ client'[c].ph = "lookup" /\ client'[c].p = p
      /\ client'[c].n = n /\ client'[c].len = len /\ client'[c].ptr = NULL
  BY <1>6
<1> HIDE DEF new
<1>8. ClientOK'
  <2>1. \A d \in Contexts : client[d].p # p /\ client[d].ptr # p
    BY <1>1 DEF Claimed
  <2>2. QED
    BY <1>1, <1>2, <1>4, <1>6, <1>7, <2>1 DEF IInv, ClientOK, NULL
<1>9. /\ RunsApart' /\ SplitChain' /\ BlocksInRuns' /\ ListsLinked'
      /\ ListedBySize' /\ Coalesced'
  BY <1>1, SameTags
<1>10. TypeOK'
  BY <1>1, <1>6 DEF IInv, TypeOK
<1>11. NoLeak' /\ HolderOK'
  BY <1>1 DEF IInv, NoLeak, HolderOK, Busy, IsFree, LeftFree, RightFree
<1>12. QED
  BY <1>8, <1>9, <1>10, <1>11 DEF IInv

(* One melting step to the left preserves the invariant. *)
LEMMA MeltLeftStep ==
  ASSUME IInv, MeltLeft
  PROVE  IInv'
<1> DEFINE left == tag[cur].split_left
           M == melt_left(tag, cur)
<1>1. /\ pc = "melt_left" /\ left # NULL /\ tag[left].index >= 0
      /\ tag' = remove_tag(M, left)
      /\ l_freePages' = Unlisted(tag, l_freePages, left) /\ cur' = left
      /\ UNCHANGED <<l_completePages, runs, live, pc, req, who, client>>
  BY DEF MeltLeft, LeftFree, IsFree
<1>2. /\ Tags(tag) /\ Runs(runs) /\ Layout(tag, runs)
      /\ l_freePages \in [Exps -> Nat] /\ LinkedIn(tag, l_freePages)
  BY Parts
<1>3. /\ cur \in DOMAIN tag /\ ~(tag[cur].index >= 0)
      /\ left \in DOMAIN tag /\ left # cur /\ tag[left].split_right = cur
  <2>1. cur \in DOMAIN tag /\ ~(tag[cur].index >= 0)
    BY <1>1 DEF IInv, HolderOK, IsFree
  <2>2. QED
    BY <1>1, <1>2, <2>1 DEF Layout, ChainIn
<1>4. /\ DOMAIN M = DOMAIN tag \ {cur} /\ Tags(M)
      /\ \A u \in DOMAIN tag : u # cur =>
           /\ M[u].size = tag[u].size /\ M[u].index = tag[u].index
           /\ M[u].next = tag[u].next /\ M[u].prev = tag[u].prev
  <2>1. Tags(tag) /\ cur \in DOMAIN tag
    BY <1>2, <1>3
  <2>2. /\ DOMAIN M = DOMAIN tag \ {cur}
        /\ Tags(M)
        /\ \A u \in DOMAIN tag : u # cur =>
             /\ M[u].size = tag[u].size
             /\ M[u].index = tag[u].index
             /\ M[u].next = tag[u].next
             /\ M[u].prev = tag[u].prev
    BY <2>1, MeltFields
  <2>3. QED
    BY <2>2
<1>5. \A u \in DOMAIN tag : u # cur =>
        M[u].split_right = IF u = left THEN tag[cur].split_right ELSE tag[u].split_right
  BY <1>2, <1>3, MeltSplits
<1>6. \A u \in DOMAIN tag : u # cur =>
        M[u].real_size = IF u = left THEN tag[u].real_size + tag[cur].real_size
                         ELSE tag[u].real_size
  BY <1>2, <1>3, MeltSizes
<1>7. LinkedIn(M, l_freePages) /\ Layout(M, runs)
  BY <1>1, <1>2, <1>3, MeltLinked, MeltLayout
<1> HIDE DEF M
<1>8. left \in DOMAIN M /\ M[left].index >= 0
  BY <1>1, <1>3, <1>4
<1>9. Unlisted(M, l_freePages, left) = Unlisted(tag, l_freePages, left)
  BY <1>3, <1>4 DEF Unlisted
<1>10. LinkedIn(tag', l_freePages') /\ l_freePages' \in [Exps -> Nat]
  BY <1>1, <1>2, <1>4, <1>7, <1>8, <1>9, RemoveLinked
<1>11. /\ DOMAIN tag' = DOMAIN M /\ Tags(tag')
       /\ \A u \in DOMAIN M :
            /\ tag'[u].size = M[u].size /\ tag'[u].real_size = M[u].real_size
            /\ tag'[u].split_left = M[u].split_left
            /\ tag'[u].split_right = M[u].split_right
            /\ tag'[u].index = IF u = left THEN -1 ELSE M[u].index
  BY <1>1, <1>4, <1>8, RemoveFields
<1>12. Layout(tag', runs')
  BY <1>1, <1>7, <1>11, SameLayout
<1>13. RunsApart' /\ SplitChain' /\ BlocksInRuns' /\ ListsLinked'
  BY <1>1, <1>2, <1>10, <1>12, PartsNext
<1>14. TypeOK'
  <2>1. left \in Nat
    BY <1>2, <1>3, TagTypes
  <2>2. QED
    BY <1>1, <1>10, <1>11, <2>1 DEF IInv, TypeOK, Tags
<1>15. /\ DOMAIN tag' = DOMAIN tag \ {cur}
       /\ \A u \in DOMAIN tag' :
            /\ tag'[u].index = IF u = left THEN -1 ELSE tag[u].index
            /\ tag'[u].size = tag[u].size
            /\ u # left => tag'[u].split_right = tag[u].split_right
  BY <1>4, <1>5, <1>11
<1>16. \A u \in DOMAIN tag' : u # left => tag'[u].real_size = tag[u].real_size
  BY <1>4, <1>6, <1>11
<1> HIDE DEF left
<1>17. ListedBySize'
  BY <1>15, <1>16 DEF IInv, ListedBySize, IsFree
<1>18. Coalesced'
  <2>1. ASSUME NEW u \in DOMAIN tag', tag'[u].index >= 0, tag'[u].split_right # NULL
        PROVE  ~(tag'[tag'[u].split_right].index >= 0)
    <3>1. u \in DOMAIN tag /\ u # left /\ tag[u].index >= 0
          /\ tag'[u].split_right = tag[u].split_right
      BY <1>15, <2>1
    <3>2. /\ tag[u].split_right \in DOMAIN tag
          /\ tag[tag[u].split_right].split_left = u
      BY <1>2, <2>1, <3>1 DEF Layout, ChainIn
    <3>3. tag[u].split_right # cur
      BY <3>1, <3>2 DEF left
    <3>4. ~(tag[tag[u].split_right].index >= 0)
      BY <2>1, <3>1 DEF IInv, Coalesced, IsFree
    <3>5. QED
      BY <1>15, <3>1, <3>2, <3>3, <3>4
  <2>2. QED
    BY <2>1 DEF Coalesced, IsFree
<1>19. NoLeak'
  <2>1. Busy = {cur} /\ Busy' = {left}
    BY <1>1 DEF Busy
  <2>2. QED
    BY <1>1, <1>15, <1>16, <2>1 DEF IInv, NoLeak, IsFree
<1>20. HolderOK'
  BY <1>1, <1>3, <1>15 DEF HolderOK, IsFree
<1>21. ClientOK'
  BY <1>1 DEF IInv, ClientOK
<1>22. QED
  BY <1>13, <1>14, <1>17, <1>18, <1>19, <1>20, <1>21 DEF IInv

(* Leaving the first loop of free preserves the invariant. *)
LEMMA MeltLeftDoneStep ==
  ASSUME IInv, MeltLeftDone
  PROVE  IInv'
<1>1. /\ RunsApart' /\ SplitChain' /\ BlocksInRuns' /\ ListsLinked'
      /\ ListedBySize' /\ Coalesced'
  BY SameTags DEF MeltLeftDone, alloc_vars
<1>2. TypeOK'
  BY DEF IInv, TypeOK, MeltLeftDone, alloc_vars, Phase
<1>3. NoLeak'
  BY DEF IInv, NoLeak, MeltLeftDone, Busy, IsFree, alloc_vars
<1>4. HolderOK'
  BY DEF IInv, HolderOK, MeltLeftDone, LeftFree, IsFree, alloc_vars
<1>5. ClientOK'
  BY DEF IInv, ClientOK, MeltLeftDone, alloc_vars
<1>6. QED
  BY <1>1, <1>2, <1>3, <1>4, <1>5 DEF IInv

(* One melting step to the right preserves the invariant. *)
LEMMA MeltRightStep ==
  ASSUME IInv, MeltRight
  PROVE  IInv'
<1> DEFINE right == tag[cur].split_right
           M == remove_tag(tag, right)
<1>1. /\ pc = "melt_right" /\ right # NULL /\ tag[right].index >= 0
      /\ tag' = melt_left(M, right)
      /\ l_freePages' = Unlisted(tag, l_freePages, right)
      /\ UNCHANGED <<l_completePages, runs, live, pc, cur, req, who, client>>
  BY DEF MeltRight, RightFree, IsFree, absorb_right
<1>2. /\ Tags(tag) /\ Runs(runs) /\ Layout(tag, runs)
      /\ l_freePages \in [Exps -> Nat] /\ LinkedIn(tag, l_freePages)
  BY Parts
<1>3. /\ cur \in DOMAIN tag /\ ~(tag[cur].index >= 0) /\ cur # NULL
      /\ right \in DOMAIN tag /\ right # cur /\ tag[right].split_left = cur
  <2>1. cur \in DOMAIN tag /\ ~(tag[cur].index >= 0)
    BY <1>1 DEF IInv, HolderOK, IsFree
  <2>2. QED
    BY <1>1, <1>2, <2>1, TagTypes DEF Layout, ChainIn, NULL
<1>4. /\ DOMAIN M = DOMAIN tag /\ Tags(M)
      /\ \A u \in DOMAIN tag :
           /\ M[u].size = tag[u].size /\ M[u].real_size = tag[u].real_size
           /\ M[u].split_left = tag[u].split_left
           /\ M[u].split_right = tag[u].split_right
           /\ M[u].index = IF u = right THEN -1 ELSE tag[u].index
  <2>1. Tags(tag) /\ right \in DOMAIN tag
    BY <1>2, <1>3
  <2> HIDE DEF right
  <2>2. QED
    BY <2>1, RemoveFields
<1>5. LinkedIn(M, l_freePages') /\ l_freePages' \in [Exps -> Nat]
  BY <1>1, <1>2, <1>3, RemoveLinked
<1> HIDE DEF M
<1>6. /\ right \in DOMAIN M /\ ~(M[right].index >= 0)
      /\ M[right].split_left = cur /\ M[right].split_right = tag[right].split_right
  BY <1>3, <1>4
<1>7. Layout(M, runs)
  BY <1>2, <1>4, SameLayout
<1>8. LinkedIn(tag', l_freePages') /\ Layout(tag', runs')
  <2>1. LinkedIn(melt_left(M, right), l_freePages')
    BY <1>4, <1>5, <1>6, MeltLinked
  <2>2. Layout(melt_left(M, right), runs)
    BY <1>2, <1>3, <1>4, <1>6, <1>7, MeltLayout
  <2>3. QED
    BY <1>1, <2>1, <2>2
<1>9. /\ DOMAIN tag' = DOMAIN M \ {right} /\ Tags(tag')
      /\ \A u \in DOMAIN M : u # right =>
           tag'[u].size = M[u].size /\ tag'[u].index = M[u].index
  <2> HIDE DEF right
  <2>1. Tags(M) /\ right \in DOMAIN M
    BY <1>4, <1>6
  <2>2. /\ DOMAIN melt_left(M, right) = DOMAIN M \ {right}
        /\ Tags(melt_left(M, right))
        /\ \A u \in DOMAIN M : u # right =>
             /\ melt_left(M, right)[u].size = M[u].size
             /\ melt_left(M, right)[u].index = M[u].index
             /\ melt_left(M, right)[u].next = M[u].next
             /\ melt_left(M, right)[u].prev = M[u].prev
    BY <2>1, MeltFields
  <2>3. tag' = melt_left(M, right)
    BY <1>1
  <2>4. DOMAIN tag' = DOMAIN M \ {right} /\ Tags(tag')
    BY <2>2, <2>3
  <2>5. ASSUME NEW u \in DOMAIN M, u # right
        PROVE  tag'[u].size = M[u].size /\ tag'[u].index = M[u].index
    <3>1. tag'[u] = melt_left(M, right)[u]
      BY <2>3
    <3>2. QED
      BY <2>2, <2>5, <3>1
  <2>6. QED
    BY <2>4, <2>5
<1>10. \A u \in DOMAIN M : u # right =>
         /\ tag'[u].split_right = IF u = cur THEN tag[right].split_right
                                  ELSE M[u].split_right
         /\ tag'[u].split_left = IF u = tag[right].split_right THEN cur
                                 ELSE M[u].split_left
  <2>1. \A u \in DOMAIN M : u # right =>
          /\ tag'[u].split_right = IF u = M[right].split_left THEN M[right].split_right
                                   ELSE M[u].split_right
          /\ tag'[u].split_left = IF u = M[right].split_right THEN M[right].split_left
                                  ELSE M[u].split_left
    BY <1>1, <1>4, <1>6, MeltSplits
  <2>2. QED
    BY <1>6, <2>1
<1>11. \A u \in DOMAIN M : u # right /\ u # cur => tag'[u].real_size = M[u].real_size
  <2>1. \A u \in DOMAIN M : u # right =>
          tag'[u].real_size = IF u = M[right].split_left
                              THEN M[u].real_size + M[right].real_size
                              ELSE M[u].real_size
    BY <1>1, <1>4, <1>6, MeltSizes
  <2>2. QED
    BY <1>6, <2>1
<1>12. RunsApart' /\ SplitChain' /\ BlocksInRuns' /\ ListsLinked'
  BY <1>1, <1>2, <1>8, PartsNext
<1>13. TypeOK'
  BY <1>1, <1>5, <1>9 DEF IInv, TypeOK, Tags
<1>14. /\ DOMAIN tag' = DOMAIN tag \ {right}
       /\ \A u \in DOMAIN tag' :
            /\ tag'[u].index = tag[u].index /\ tag'[u].size = tag[u].size
            /\ u # cur => tag'[u].split_right = tag[u].split_right
            /\ u # cur => tag'[u].real_size = tag[u].real_size
            /\ tag'[u].split_left = IF u = tag[right].split_right THEN cur
                                    ELSE tag[u].split_left
  BY <1>4, <1>9, <1>10, <1>11
<1> HIDE DEF right
<1>15. ListedBySize'
  BY <1>3, <1>14 DEF IInv, ListedBySize, IsFree
<1>16. Coalesced'
  <2>1. ASSUME NEW u \in DOMAIN tag', tag'[u].index >= 0, tag'[u].split_right # NULL
        PROVE  ~(tag'[tag'[u].split_right].index >= 0)
    <3>1. u \in DOMAIN tag /\ u # cur /\ tag[u].index >= 0
          /\ tag'[u].split_right = tag[u].split_right
      BY <1>3, <1>14, <2>1
    <3>2. /\ tag[u].split_right \in DOMAIN tag
          /\ tag[tag[u].split_right].split_left = u
      BY <1>2, <2>1, <3>1 DEF Layout, ChainIn
    <3>3. tag[u].split_right # right
      BY <1>3, <3>1, <3>2
    <3>4. ~(tag[tag[u].split_right].index >= 0)
      BY <2>1, <3>1 DEF IInv, Coalesced, IsFree
    <3>5. QED
      BY <1>14, <3>1, <3>2, <3>3, <3>4
  <2>2. QED
    BY <2>1 DEF Coalesced, IsFree
<1>17. NoLeak'
  <2>1. Busy = {cur} /\ Busy' = {cur}
    BY <1>1 DEF Busy
  <2>2. QED
    BY <1>1, <1>14, <2>1 DEF IInv, NoLeak, IsFree
<1>18. HolderOK'
  <2>1. ~LeftFree
    BY <1>1 DEF IInv, HolderOK
  <2>2. tag[right].split_right # cur
    <3>1. /\ cur \in Nat /\ right \in Nat /\ HDR \in Nat \ {0}
          /\ tag[cur].real_size \in Nat /\ tag[right].real_size \in Nat
          /\ tag[cur].real_size >= HDR /\ tag[right].real_size >= HDR
      BY <1>2, <1>3, TagTypes, Constants DEF Layout, BlocksIn
    <3>2. right = cur + tag[cur].real_size
      BY <1>1, <1>2, <1>3 DEF Layout, ChainIn, right
    <3>3. tag[right].split_right = cur => cur = right + tag[right].real_size
      BY <1>2, <1>3 DEF Layout, ChainIn
    <3>4. QED
      BY <3>1, <3>2, <3>3
  <2>3. tag'[cur].split_left = tag[cur].split_left
    BY <1>3, <1>14, <2>2
  <2>4. tag[cur].split_left # NULL =>
          /\ tag[cur].split_left \in DOMAIN tag
          /\ ~(tag[tag[cur].split_left].index >= 0)
    BY <1>2, <1>3, <2>1 DEF LeftFree, IsFree, Layout, ChainIn
  <2>5. tag[cur].split_left # NULL => tag[cur].split_left \in DOMAIN tag'
    BY <1>1, <1>14, <2>4
  <2>6. ~LeftFree'
    BY <1>1, <1>14, <2>3, <2>4, <2>5 DEF LeftFree, IsFree
  <2>7. cur \in DOMAIN tag' /\ ~(tag'[cur].index >= 0)
    BY <1>3, <1>14
  <2>8. QED
    BY <1>1, <2>6, <2>7 DEF HolderOK, IsFree
<1>19. ClientOK'
  BY <1>1 DEF IInv, ClientOK
<1>20. QED
  BY <1>12, <1>13, <1>15, <1>16, <1>17, <1>18, <1>19 DEF IInv

(* free putting a block into a list preserves the invariant. *)
LEMMA PutBackStep ==
  ASSUME IInv, PutBack
  PROVE  IInv'
<1> DEFINE i == FreeIndex
<1>1. /\ pc = "melt_right" /\ ~RightFree
      /\ tag' = insert_tag(tag, l_freePages, cur, i)
      /\ l_freePages' = [l_freePages EXCEPT ![i] = cur]
      /\ pc' = "idle" /\ cur' = NULL
      /\ UNCHANGED <<runs, live, req, who, client>>
  BY DEF PutBack
<1>2. /\ Tags(tag) /\ Runs(runs) /\ Layout(tag, runs)
      /\ l_freePages \in [Exps -> Nat] /\ LinkedIn(tag, l_freePages)
  BY Parts
<1>3. cur \in DOMAIN tag /\ ~(tag[cur].index >= 0) /\ ~LeftFree /\ cur # NULL
  <2>1. cur \in DOMAIN tag /\ ~(tag[cur].index >= 0) /\ ~LeftFree
    BY <1>1 DEF IInv, HolderOK, IsFree
  <2>2. QED
    BY <1>2, <2>1, TagTypes DEF NULL
<1>4. i \in Exps /\ i >= 0
  <2>1. tag[cur].real_size - HDR \in Int
    BY <1>2, <1>3, TagTypes, Constants
  <2>2. i \in Exps
    BY <2>1, ClassRange DEF FreeIndex
  <2>3. QED
    BY <2>2, LiballocAssumption DEF Exps
<1>5. i = ListIndex(tag[cur].real_size - HDR)
  BY DEF FreeIndex
<1>6. l_completePages' \in [Exps -> Int]
  BY <1>4 DEF PutBack, IInv, TypeOK
<1> HIDE DEF i
<1>7. /\ DOMAIN tag' = DOMAIN tag /\ Tags(tag')
      /\ \A u \in DOMAIN tag :
           /\ tag'[u].size = tag[u].size /\ tag'[u].real_size = tag[u].real_size
           /\ tag'[u].split_left = tag[u].split_left
           /\ tag'[u].split_right = tag[u].split_right
           /\ tag'[u].index = IF u = cur THEN i ELSE tag[u].index
  BY <1>1, <1>2, <1>3, <1>4, InsertFields
<1>8. LinkedIn(tag', l_freePages')
  BY <1>1, <1>2, <1>3, <1>4, InsertLinked
<1>9. Layout(tag', runs')
  BY <1>1, <1>2, <1>7, SameLayout
<1>10. RunsApart' /\ SplitChain' /\ BlocksInRuns' /\ ListsLinked'
  BY <1>1, <1>2, <1>8, <1>9, PartsNext
<1>11. TypeOK'
  <2>1. l_freePages' \in [Exps -> Nat]
    BY <1>1, <1>2, <1>3, <1>4, TagTypes
  <2>2. QED
    BY <1>1, <1>6, <1>7, <2>1 DEF IInv, TypeOK, Tags, Phase, NULL
<1>12. ListedBySize'
  BY <1>5, <1>7 DEF IInv, ListedBySize, IsFree
<1>13. Coalesced'
  <2>1. \A t \in DOMAIN tag : tag[t].split_right # NULL =>
          /\ tag[t].split_right \in DOMAIN tag
          /\ tag[tag[t].split_right].split_left = t
    BY <1>2 DEF Layout, ChainIn
  <2>2. \A t \in DOMAIN tag : tag[t].index >= 0 => tag[t].split_right # cur
    BY <1>2, <1>3, <2>1, TagTypes DEF LeftFree, IsFree, NULL
  <2>3. tag[cur].split_right # NULL =>
          tag[cur].split_right # cur /\ ~(tag[tag[cur].split_right].index >= 0)
    <3>1. /\ cur \in Nat /\ HDR \in Nat \ {0}
          /\ tag[cur].real_size \in Nat /\ tag[cur].real_size >= HDR
      BY <1>2, <1>3, TagTypes, Constants DEF Layout, BlocksIn
    <3>2. tag[cur].split_right # NULL => tag[cur].split_right = cur + tag[cur].real_size
      BY <1>2, <1>3 DEF Layout, ChainIn
    <3>3. QED
      BY <1>1, <3>1, <3>2 DEF RightFree, IsFree
  <2>4. QED
    BY <1>3, <1>7, <2>1, <2>2, <2>3 DEF IInv, Coalesced, IsFree
<1>14. NoLeak'
  <2>1. Busy = {cur} /\ Busy' = {}
    BY <1>1 DEF Busy
  <2>2. QED
    BY <1>1, <1>4, <1>7, <2>1 DEF IInv, NoLeak, IsFree
<1>15. HolderOK'
  BY <1>1 DEF HolderOK
<1>16. ClientOK'
  BY <1>1 DEF IInv, ClientOK
<1>17. QED
  BY <1>10, <1>11, <1>12, <1>13, <1>14, <1>15, <1>16 DEF IInv

(* free giving a whole run back to liballoc_free preserves the invariant. *)
LEMMA ReleaseStep ==
  ASSUME IInv, Release
  PROVE  IInv'
<1>1. /\ pc = "melt_right" /\ tag[cur].split_left = NULL /\ tag[cur].split_right = NULL
      /\ runs' = [r \in DOMAIN runs \ {cur} |-> runs[r]]
      /\ tag' = [t \in DOMAIN tag \ {cur} |-> tag[t]]
      /\ pc' = "idle" /\ cur' = NULL
      /\ UNCHANGED <<l_freePages, l_completePages, live, req, who, client>>
  BY DEF Release, Complete
<1>2. /\ Tags(tag) /\ Runs(runs) /\ Layout(tag, runs)
      /\ l_freePages \in [Exps -> Nat] /\ LinkedIn(tag, l_freePages)
  BY Parts
<1>3. cur \in DOMAIN tag /\ ~(tag[cur].index >= 0) /\ cur # NULL
  <2>1. cur \in DOMAIN tag /\ ~(tag[cur].index >= 0)
    BY <1>1 DEF IInv, HolderOK, IsFree
  <2>2. QED
    BY <1>2, <2>1, TagTypes DEF NULL
<1>4. /\ DOMAIN tag' = DOMAIN tag \ {cur}
      /\ \A t \in DOMAIN tag' : tag'[t] = tag[t]
      /\ DOMAIN runs' = DOMAIN runs \ {cur}
      /\ \A r \in DOMAIN runs' : runs'[r] = runs[r] /\ EndOf(runs', r) = EndOf(runs, r)
  BY <1>1 DEF EndOf
<1>5. Tags(tag')
  BY <1>1, <1>2 DEF Tags
<1>6. Runs(runs')
  BY <1>1, <1>2, <1>4 DEF Runs
<1>7. /\ cur \in DOMAIN runs /\ cur + tag[cur].real_size = EndOf(runs, cur)
  <2>1. PICK b \in DOMAIN runs : InsideIn(tag, runs, cur, b)
    BY <1>2, <1>3 DEF Layout, BlocksIn
  <2>2. QED
    BY <1>1, <2>1 DEF InsideIn
<1>8. \A t \in DOMAIN tag : tag[t].split_left # cur /\ tag[t].split_right # cur
  BY <1>1, <1>2, <1>3, TagTypes DEF Layout, ChainIn, NULL
<1>9. Layout(tag', runs')
  <2>1. ChainIn(tag')
    BY <1>2, <1>4, <1>8 DEF Layout, ChainIn
  <2>2. ASSUME NEW t \in DOMAIN tag'
        PROVE  /\ tag'[t].real_size >= HDR
               /\ \E r \in DOMAIN runs' : InsideIn(tag', runs', t, r)
    <3>1. t \in DOMAIN tag /\ t # cur /\ tag'[t] = tag[t]
      BY <1>4
    <3>2. PICK r \in DOMAIN runs : InsideIn(tag, runs, t, r)
      BY <1>2, <3>1 DEF Layout, BlocksIn
    <3>3. /\ t \in Nat /\ tag[t].real_size \in Nat /\ tag[t].real_size >= HDR
          /\ HDR \in Nat \ {0} /\ cur \in Nat /\ tag[cur].real_size \in Nat
      BY <1>2, <1>3, <3>1, TagTypes, Constants DEF Layout, BlocksIn
    <3>4. t + tag[t].real_size <= cur \/ cur + tag[cur].real_size <= t
      BY <1>2, <1>3, <3>1 DEF Layout, BlocksIn
    <3>5. r # cur
      BY <1>7, <3>2, <3>3, <3>4 DEF InsideIn
    <3>6. InsideIn(tag', runs', t, r)
      BY <1>4, <3>1, <3>2, <3>5 DEF InsideIn
    <3>7. QED
      BY <1>4, <3>1, <3>3, <3>5, <3>6
  <2>3. ASSUME NEW t \in DOMAIN tag', NEW u \in DOMAIN tag', t # u
        PROVE  t + tag'[t].real_size <= u \/ u + tag'[u].real_size <= t
    BY <1>2, <1>4, <2>3 DEF Layout, BlocksIn
  <2>4. QED
    BY <2>1, <2>2, <2>3 DEF Layout, BlocksIn
<1>10. LinkedIn(tag', l_freePages')
  <2>1. \A t \in DOMAIN tag : tag[t].next # cur /\ tag[t].prev # cur
    BY <1>2, <1>3 DEF LinkedIn
  <2>2. \A j \in Exps : l_freePages[j] # cur
    BY <1>2, <1>3, Constants DEF LinkedIn
  <2>3. QED
    BY <1>1, <1>2, <1>4, <2>1, <2>2 DEF LinkedIn
<1>11. RunsApart' /\ SplitChain' /\ BlocksInRuns' /\ ListsLinked'
  BY <1>6, <1>9, <1>10, PartsNext
<1>12. TypeOK'
  BY <1>1, <1>5, <1>6 DEF IInv, TypeOK, Tags, Runs, Phase, NULL
<1>13. ListedBySize'
  BY <1>4 DEF IInv, ListedBySize, IsFree
<1>14. Coalesced'
  <2>1. \A t \in DOMAIN tag : tag[t].split_right # NULL => tag[t].split_right \in DOMAIN tag
    BY <1>2 DEF Layout, ChainIn
  <2>2. QED
    BY <1>4, <1>8, <2>1 DEF IInv, Coalesced, IsFree
<1>15. NoLeak'
  <2>1. Busy = {cur} /\ Busy' = {}
    BY <1>1 DEF Busy
  <2>2. QED
    BY <1>1, <1>4, <2>1 DEF IInv, NoLeak, IsFree
<1>16. HolderOK'
  BY <1>1 DEF HolderOK
<1>17. ClientOK'
  BY <1>1 DEF IInv, ClientOK
<1>18. QED
  BY <1>11, <1>12, <1>13, <1>14, <1>15, <1>16, <1>17 DEF IInv

-----------------------------------------------------------------------------
(* The theorems.                                                           *)

(* The invariant holds before the first call. *)
LEMMA InitInv ==
  ASSUME Init
  PROVE  IInv
<1>1. DOMAIN tag = {} /\ DOMAIN runs = {} /\ DOMAIN live = {} /\ pc = "idle"
  BY DEF Init
<1>2. TypeOK
  <2>1. Idle \in ClientRecord
    BY DEF Idle, ClientRecord, NULL
  <2>2. tag \in [DOMAIN tag -> TagRecord] /\ runs \in [DOMAIN runs -> Nat \ {0}]
        /\ live \in [DOMAIN live -> Nat]
    BY DEF Init
  <2>3. QED
    BY <1>1, <2>1, <2>2 DEF Init, TypeOK, Exps, Phase, NULL
<1>3. RunsApart /\ SplitChain /\ BlocksInRuns /\ ListedBySize /\ Coalesced /\ NoLeak
  BY <1>1 DEF RunsApart, SplitChain, BlocksInRuns, ListedBySize, Coalesced, NoLeak
<1>4. ListsLinked
  BY <1>1 DEF Init, ListsLinked, Exps
<1>5. HolderOK
  BY <1>1 DEF HolderOK
<1>6. ClientOK
  <2>1. \A c \in Contexts : client[c] = Idle
    BY DEF Init
  <2>2. Idle.op = "none" /\ Idle.ph = "none"
    BY DEF Idle
  <2>3. QED
    BY <1>1, <2>1, <2>2 DEF ClientOK
<1>7. QED
  BY <1>2, <1>3, <1>4, <1>5, <1>6 DEF IInv

(* A step that changes nothing preserves the invariant. *)
LEMMA StutterStep ==
  ASSUME IInv, UNCHANGED vars
  PROVE  IInv'
<1>1. /\ RunsApart' /\ SplitChain' /\ BlocksInRuns' /\ ListsLinked'
      /\ ListedBySize' /\ Coalesced'
  BY SameTags DEF vars
<1>2. TypeOK'
  BY DEF IInv, TypeOK, vars
<1>3. NoLeak' /\ HolderOK'
  BY DEF IInv, NoLeak, HolderOK, Busy, IsFree, LeftFree, RightFree, vars
<1>4. ClientOK'
  BY DEF IInv, ClientOK, vars
<1>5. QED
  BY <1>1, <1>2, <1>3, <1>4 DEF IInv

(* Every step of malloc, free, calloc and realloc preserves the invariant. *)
LEMMA NextInv ==
  ASSUME IInv, [Next]_vars
  PROVE  IInv'
<1>1. CASE LockedStep
  BY <1>1, SearchNextStep, SearchTakeStep, NoPagesStep, NewTagStep, CarveSplitStep,
     CarveWholeStep, MeltLeftStep, MeltLeftDoneStep, MeltRightStep, PutBackStep,
     ReleaseStep DEF LockedStep
<1>2. CASE \E c \in Contexts : \E n \in Sizes : Malloc(c, n) \/ Calloc(c, n)
  BY <1>2, MallocStep, CallocStep
<1>3. CASE \E c \in Contexts : \E p \in DOMAIN live : Free(c, p)
  BY <1>3, FreeStep
<1>4. CASE \E c \in Contexts : \E p \in DOMAIN live, n \in Sizes : ReallocLookup(c, p, n)
  BY <1>4, ReallocLookupStep
<1>5. CASE \E c \in Contexts : Continue(c)
  BY <1>5, CallocClearStep, ReallocMallocStep, ReallocFreeStep DEF Continue
<1>6. CASE UNCHANGED vars
  BY <1>6, StutterStep
<1>7. QED
  BY <1>1, <1>2, <1>3, <1>4, <1>5, <1>6 DEF Next

(* The invariant holds in every state liballoc can reach. *)
THEOREM Invariance == Spec => []IInv
<1>1. Init => IInv
  BY InitInv
<1>2. IInv /\ [Next]_vars => IInv'
  BY NextInv
<1>3. QED
  BY <1>1, <1>2, PTL DEF Spec

(* The variables of liballoc keep their types: every link is an address, every
   index a size class or -1. *)
THEOREM TypeCorrect == Spec => []TypeOK
<1>1. IInv => TypeOK
  BY DEF IInv
<1>2. QED
  BY <1>1, Invariance, PTL

(* free melts completely: no two neighbouring blocks are free. *)
THEOREM FullyCoalesced == Spec => []Coalesced
<1>1. IInv => Coalesced
  BY DEF IInv
<1>2. QED
  BY <1>1, Invariance, PTL

(* The split links of split_tag, melt_left and absorb_right chain neighbours in
   both directions. *)
THEOREM NeighboursLinked == Spec => []SplitChain
<1>1. IInv => SplitChain
  BY DEF IInv
<1>2. QED
  BY <1>1, Invariance, PTL

(* The blocks lie in the runs of liballoc_alloc and never overlap. *)
THEOREM BlocksCutFromRuns == Spec => []BlocksInRuns
<1>1. IInv => BlocksInRuns
  BY DEF IInv
<1>2. QED
  BY <1>1, Invariance, PTL

(* insert_tag and remove_tag keep the free lists doubly linked. *)
THEOREM ListsStayLinked == Spec => []ListsLinked
<1>1. IInv => ListsLinked
  BY DEF IInv
<1>2. QED
  BY <1>1, Invariance, PTL

(* Every free block is in the list of its size class, where malloc looks for it. *)
THEOREM SizeClassesRight == Spec => []ListedBySize
<1>1. IInv => ListedBySize
  BY DEF IInv
<1>2. QED
  BY <1>1, Invariance, PTL

(* Every block is free, owned, or in the hands of the holder of the lock. *)
THEOREM NothingLeaks == Spec => []NoLeak
<1>1. IInv => NoLeak
  BY DEF IInv
<1>2. QED
  BY <1>1, Invariance, PTL

(* The block of an owned pointer. *)
LEMMA LiveBlock ==
  ASSUME IInv, NEW p \in DOMAIN live
  PROVE  /\ p - HDR \in DOMAIN tag /\ p - HDR \in Nat \ {0} /\ p \in Nat
         /\ p - HDR \notin Busy
         /\ live[p] \in Nat /\ tag[p - HDR].real_size \in Nat
         /\ p + live[p] <= (p - HDR) + tag[p - HDR].real_size
<1>1. p \in Nat /\ live[p] \in Nat /\ HDR \in Nat
  BY Constants DEF IInv, TypeOK
<1>2. /\ p - HDR \in DOMAIN tag /\ p - HDR \notin Busy
      /\ HDR + live[p] <= tag[p - HDR].real_size
  BY DEF IInv, NoLeak
<1>3. p - HDR \in Nat \ {0} /\ tag[p - HDR].real_size \in Nat
  BY <1>2, Parts, TagTypes
<1>4. QED
  BY <1>1, <1>2, <1>3

(* Two blocks of the layout have no byte in common. *)
LEMMA TagsApart ==
  ASSUME IInv, NEW t \in DOMAIN tag, NEW u \in DOMAIN tag, t # u
  PROVE  /\ t + tag[t].real_size <= u \/ u + tag[u].real_size <= t
         /\ t \in Nat /\ u \in Nat /\ tag[t].real_size \in Nat /\ tag[u].real_size \in Nat
         /\ tag[t].real_size >= HDR /\ tag[u].real_size >= HDR
  BY Parts, TagTypes DEF IInv, BlocksInRuns

(* The blocks callers own overlap neither each other nor a boundary tag and lie
   in pages that were handed out. *)
THEOREM OwnedBlocksApart == Spec => []LiveApart
<1>1. ASSUME IInv PROVE LiveApart
  <2>1. HDR \in Nat \ {0}
    BY Constants
  <2>2. ASSUME NEW p \in DOMAIN live, NEW q \in DOMAIN live, p # q
        PROVE  p + live[p] <= q \/ q + live[q] <= p
    <3>1. p - HDR # q - HDR
      BY <1>1, <2>1, <2>2, LiveBlock
    <3>2. QED
      BY <1>1, <2>1, <3>1, LiveBlock, TagsApart
  <2>3. ASSUME NEW p \in DOMAIN live, NEW t \in DOMAIN tag
        PROVE  p + live[p] <= t \/ t + HDR <= p
    <3>1. CASE t = p - HDR
      BY <1>1, <2>1, <3>1, LiveBlock
    <3>2. CASE t # p - HDR
      BY <1>1, <2>1, <3>2, LiveBlock, TagsApart
    <3>3. QED
      BY <3>1, <3>2
  <2>4. ASSUME NEW p \in DOMAIN live
        PROVE  \E b \in DOMAIN runs : b + HDR <= p /\ p + live[p] <= b + runs[b] * PageSize
    <3>1. PICK b \in DOMAIN runs : InsideIn(tag, runs, p - HDR, b)
      BY <1>1, LiveBlock, Parts DEF Layout, BlocksIn
    <3>2. b \in Nat /\ EndOf(runs, b) \in Nat
      BY <1>1, Parts, EndOfInt DEF Runs
    <3>3. b + HDR <= p /\ p + live[p] <= EndOf(runs, b)
      BY <1>1, <2>1, <3>1, <3>2, LiveBlock DEF InsideIn
    <3>4. QED
      BY <3>3 DEF EndOf
  <2>5. QED
    BY <2>2, <2>3, <2>4 DEF LiveApart
<1>2. QED
  BY <1>1, Invariance, PTL

(* free passes liballoc_free the base and the page count of a liballoc_alloc. *)
THEOREM ReleasesWholeRuns == Spec => []ReleaseExact
<1>1. ASSUME IInv PROVE ReleaseExact
  <2> SUFFICES ASSUME pc = "melt_right", Complete(cur)
               PROVE  cur \in DOMAIN runs /\ runs[cur] = PagesOf(cur)
    BY DEF ReleaseExact
  <2>1. cur \in DOMAIN tag
    BY <1>1 DEF IInv, HolderOK
  <2>2. PICK b \in DOMAIN runs : InsideIn(tag, runs, cur, b)
    BY <1>1, <2>1, Parts DEF Layout, BlocksIn
  <2>3. cur = b /\ cur + tag[cur].real_size = EndOf(runs, b)
    BY <2>2 DEF InsideIn, Complete
  <2>4. /\ runs[cur] \in Nat \ {0} /\ runs[cur] >= PageCount
        /\ PageSize \in Nat \ {0} /\ PageCount \in Nat
        /\ cur \in Nat /\ tag[cur].real_size \in Nat
    BY <1>1, <2>1, <2>3, Parts, TagTypes, LiballocAssumption DEF Runs
  <2> DEFINE n == runs[cur]
             size == n * PageSize
  <2>5. tag[cur].real_size = size
    <3>1. size \in Nat
      BY <2>4
    <3>2. cur + tag[cur].real_size = cur + size
      BY <2>3 DEF EndOf
    <3> HIDE DEF size
    <3>3. QED
      BY <2>4, <3>1, <3>2
  <2>6. size \div PageSize = n /\ size % PageSize = 0
    <3> HIDE DEF n
    <3>1. n \in Nat /\ PageSize \in Nat \ {0}
      BY <2>4 DEF n
    <3>2. QED
      BY <3>1
  <2> HIDE DEF size
  <2>7. PagesOf(cur) = n
    BY <2>4, <2>5, <2>6 DEF PagesOf
  <2>8. QED
    BY <2>3, <2>7
<1>2. QED
  BY <1>1, Invariance, PTL

-----------------------------------------------------------------------------
(* The count of the runs that stand by.                                    *)

(* The whole free runs of the list of class i. *)
WholeRuns(T, i) ==
  {t \in DOMAIN T : T[t].index = i /\ T[t].split_left = NULL /\ T[t].split_right = NULL}

Counted ==
  \A i \in Exps :
    /\ IsFiniteSet(WholeRuns(tag, i))
    /\ l_completePages[i] = Cardinality(WholeRuns(tag, i))
    /\ l_completePages[i] <= MAXCOMPLETE

(* A tag is in the list of a class or of none. *)
LEMMA ListClass ==
  ASSUME NEW i \in Exps
  PROVE  i \in Int /\ i >= 0 /\ i # -1
BY LiballocAssumption DEF Exps

(* Steps that move no whole run into a list or out of it keep the count. *)
LEMMA SameCount ==
  ASSUME Counted, l_completePages' = l_completePages,
         \A i \in Exps : \A t : t \in WholeRuns(tag', i) <=> t \in WholeRuns(tag, i)
  PROVE  Counted'
<1>1. ASSUME NEW i \in Exps PROVE WholeRuns(tag', i) = WholeRuns(tag, i)
  BY DEF WholeRuns
<1>2. \A i \in Exps :
        /\ IsFiniteSet(WholeRuns(tag', i))
        /\ l_completePages'[i] = Cardinality(WholeRuns(tag', i))
        /\ l_completePages'[i] <= MAXCOMPLETE
  BY <1>1 DEF Counted
<1> QED BY <1>2 DEF Counted

(* Steps after which every tag has the list and the neighbours it had. *)
LEMMA SameFields ==
  ASSUME Counted, l_completePages' = l_completePages, DOMAIN tag' = DOMAIN tag,
         \A u \in DOMAIN tag :
           /\ tag'[u].index = tag[u].index
           /\ tag'[u].split_left = tag[u].split_left
           /\ tag'[u].split_right = tag[u].split_right
  PROVE  Counted'
<1>1. \A i \in Exps : \A t : t \in WholeRuns(tag', i) <=> t \in WholeRuns(tag, i)
  BY DEF WholeRuns
<1> QED BY <1>1, SameCount

(* malloc takes a tag: a whole run leaves the list that is searched. *)
LEMMA TakeCounts ==
  ASSUME IInv, Counted, SearchTake
  PROVE  Counted'
<1> DEFINE j == ListIndex(req)
<1>1. Tags(tag)
  BY Parts
<1>2. cur \in DOMAIN tag /\ tag[cur].index = j /\ req \in Nat
  BY Constants DEF IInv, HolderOK, SearchTake
<1>3. j \in Exps
  BY <1>2, ClassRange
<1>4. /\ DOMAIN tag' = DOMAIN tag
      /\ \A u \in DOMAIN tag :
           /\ tag'[u].index = IF u = cur THEN -1 ELSE tag[u].index
           /\ tag'[u].split_left = tag[u].split_left
           /\ tag'[u].split_right = tag[u].split_right
  <2> DEFINE T == remove_tag(tag, cur)
  <2>1. /\ DOMAIN T = DOMAIN tag /\ Tags(T)
        /\ \A u \in DOMAIN tag :
             /\ T[u].index = IF u = cur THEN -1 ELSE tag[u].index
             /\ T[u].split_left = tag[u].split_left
             /\ T[u].split_right = tag[u].split_right
    BY <1>1, <1>2, RemoveFields
  <2>2. tag' = [T EXCEPT ![cur].size = req]
    BY DEF SearchTake
  <2> HIDE DEF T
  <2>3. /\ DOMAIN tag' = DOMAIN T
        /\ \A u \in DOMAIN T :
             /\ tag'[u].index = T[u].index
             /\ tag'[u].split_left = T[u].split_left
             /\ tag'[u].split_right = T[u].split_right
    BY <1>2, <2>1, <2>2 DEF Tags, TagRecord
  <2> QED BY <2>1, <2>3
<1> HIDE DEF j
<1>5. CASE tag[cur].split_left = NULL /\ tag[cur].split_right = NULL
  <2>1. l_completePages' = [l_completePages EXCEPT ![j] = @ - 1]
    BY <1>5 DEF SearchTake, j
  <2>2. l_completePages \in [Exps -> Int]
    BY DEF IInv, TypeOK
  <2>3. cur \in WholeRuns(tag, j)
    BY <1>2, <1>5 DEF WholeRuns
  <2>4. WholeRuns(tag', j) = WholeRuns(tag, j) \ {cur}
    <3>1. j # -1
      BY <1>3, ListClass
    <3>2. \A t : t \in WholeRuns(tag', j) <=> t \in WholeRuns(tag, j) /\ t # cur
      BY <1>4, <3>1 DEF WholeRuns
    <3> QED BY <3>2
  <2>5. /\ IsFiniteSet(WholeRuns(tag, j))
        /\ l_completePages[j] = Cardinality(WholeRuns(tag, j))
        /\ l_completePages[j] <= MAXCOMPLETE /\ l_completePages[j] \in Int
    BY <1>3, <2>2 DEF Counted
  <2>6. /\ IsFiniteSet(WholeRuns(tag', j))
        /\ Cardinality(WholeRuns(tag', j)) = Cardinality(WholeRuns(tag, j)) - 1
    BY <2>3, <2>4, <2>5, FS_RemoveElement
  <2>7. /\ l_completePages'[j] = Cardinality(WholeRuns(tag', j))
        /\ l_completePages'[j] <= MAXCOMPLETE
    <3>1. l_completePages'[j] = l_completePages[j] - 1
      BY <1>3, <2>1, <2>2
    <3> QED BY <2>5, <2>6, <3>1, LiballocAssumption
  <2>8. ASSUME NEW i \in Exps, i # j
        PROVE  /\ WholeRuns(tag', i) = WholeRuns(tag, i)
               /\ l_completePages'[i] = l_completePages[i]
    <3>1. i # -1
      BY ListClass
    <3>2. \A t : t \in WholeRuns(tag', i) <=> t \in WholeRuns(tag, i)
      BY <1>2, <1>4, <2>8, <3>1 DEF WholeRuns
    <3>3. WholeRuns(tag', i) = WholeRuns(tag, i)
      BY <3>2 DEF WholeRuns
    <3> QED BY <2>1, <2>2, <2>8, <3>3
  <2>9. ASSUME NEW i \in Exps
        PROVE  /\ IsFiniteSet(WholeRuns(tag', i))
               /\ l_completePages'[i] = Cardinality(WholeRuns(tag', i))
               /\ l_completePages'[i] <= MAXCOMPLETE
    <3>1. CASE i = j
      BY <2>6, <2>7, <3>1
    <3>2. CASE i # j
      BY <2>8, <3>2 DEF Counted
    <3> QED BY <3>1, <3>2
  <2> QED BY <2>9 DEF Counted
<1>6. CASE ~(tag[cur].split_left = NULL /\ tag[cur].split_right = NULL)
  <2>1. l_completePages' = l_completePages
    BY <1>6 DEF SearchTake
  <2>2. ASSUME NEW i \in Exps, NEW t
        PROVE  t \in WholeRuns(tag', i) <=> t \in WholeRuns(tag, i)
    <3>1. i # -1
      BY ListClass
    <3> QED BY <1>4, <1>6, <3>1 DEF WholeRuns
  <2> QED BY <2>1, <2>2, SameCount
<1> QED BY <1>5, <1>6

(* free puts a block back: a whole run joins its list, which had room for it. *)
LEMMA PutBackCounts ==
  ASSUME IInv, Counted, PutBack
  PROVE  Counted'
<1> DEFINE j == FreeIndex
<1>1. Tags(tag) /\ l_freePages \in [Exps -> Nat]
  BY Parts
<1>2. cur \in DOMAIN tag /\ ~(tag[cur].index >= 0)
  BY DEF IInv, HolderOK, PutBack, IsFree
<1>3. j \in Exps
  <2>1. tag[cur].real_size - HDR \in Int
    BY <1>1, <1>2, TagTypes, Constants
  <2> QED BY <2>1, ClassRange DEF FreeIndex
<1>4. tag' = insert_tag(tag, l_freePages, cur, j)
  BY DEF PutBack
<1> HIDE DEF j
<1>5. /\ DOMAIN tag' = DOMAIN tag
      /\ \A u \in DOMAIN tag :
           /\ tag'[u].index = IF u = cur THEN j ELSE tag[u].index
           /\ tag'[u].split_left = tag[u].split_left
           /\ tag'[u].split_right = tag[u].split_right
  BY <1>1, <1>2, <1>3, <1>4, InsertFields
<1>6. CASE tag[cur].split_left = NULL /\ tag[cur].split_right = NULL
  <2>1. /\ l_completePages' = [l_completePages EXCEPT ![j] = @ + 1]
        /\ l_completePages[j] # MAXCOMPLETE
    BY <1>6 DEF PutBack, Complete, j
  <2>2. l_completePages \in [Exps -> Int]
    BY DEF IInv, TypeOK
  <2>3. cur \notin WholeRuns(tag, j)
    BY <1>2, <1>3, ListClass DEF WholeRuns
  <2>4. WholeRuns(tag', j) = WholeRuns(tag, j) \cup {cur}
    <3>1. \A t : t \in WholeRuns(tag', j) <=> t \in WholeRuns(tag, j) \/ t = cur
      BY <1>2, <1>5, <1>6 DEF WholeRuns
    <3> QED BY <3>1
  <2>5. /\ IsFiniteSet(WholeRuns(tag, j))
        /\ l_completePages[j] = Cardinality(WholeRuns(tag, j))
        /\ l_completePages[j] <= MAXCOMPLETE /\ l_completePages[j] \in Int
    BY <1>3, <2>2 DEF Counted
  <2>6. /\ IsFiniteSet(WholeRuns(tag', j))
        /\ Cardinality(WholeRuns(tag', j)) = Cardinality(WholeRuns(tag, j)) + 1
    BY <2>3, <2>4, <2>5, FS_AddElement
  <2>7. /\ l_completePages'[j] = Cardinality(WholeRuns(tag', j))
        /\ l_completePages'[j] <= MAXCOMPLETE
    <3>1. l_completePages'[j] = l_completePages[j] + 1
      BY <1>3, <2>1, <2>2
    <3> QED BY <2>1, <2>5, <2>6, <3>1, LiballocAssumption
  <2>8. ASSUME NEW i \in Exps, i # j
        PROVE  /\ WholeRuns(tag', i) = WholeRuns(tag, i)
               /\ l_completePages'[i] = l_completePages[i]
    <3>1. i \in Int /\ i >= 0
      BY ListClass
    <3>2. \A t : t \in WholeRuns(tag', i) <=> t \in WholeRuns(tag, i)
      BY <1>2, <1>5, <2>8, <3>1 DEF WholeRuns
    <3>3. WholeRuns(tag', i) = WholeRuns(tag, i)
      BY <3>2 DEF WholeRuns
    <3> QED BY <2>1, <2>2, <2>8, <3>3
  <2>9. ASSUME NEW i \in Exps
        PROVE  /\ IsFiniteSet(WholeRuns(tag', i))
               /\ l_completePages'[i] = Cardinality(WholeRuns(tag', i))
               /\ l_completePages'[i] <= MAXCOMPLETE
    <3>1. CASE i = j
      BY <2>6, <2>7, <3>1
    <3>2. CASE i # j
      BY <2>8, <3>2 DEF Counted
    <3> QED BY <3>1, <3>2
  <2> QED BY <2>9 DEF Counted
<1>7. CASE ~(tag[cur].split_left = NULL /\ tag[cur].split_right = NULL)
  <2>1. l_completePages' = l_completePages
    BY <1>7 DEF PutBack, Complete
  <2>2. ASSUME NEW i \in Exps, NEW t
        PROVE  t \in WholeRuns(tag', i) <=> t \in WholeRuns(tag, i)
    BY <1>5, <1>7 DEF WholeRuns
  <2> QED BY <2>1, <2>2, SameCount
<1> QED BY <1>6, <1>7

(* malloc makes a run: its one tag is in no list yet. *)
LEMMA NewTagCounts ==
  ASSUME IInv, Counted, NEW b \in PageBases, NewTag(b)
  PROVE  Counted'
<1>1. /\ l_completePages' = l_completePages
      /\ DOMAIN tag' = DOMAIN tag \cup {b} /\ tag'[b].index = -1
      /\ \A t \in DOMAIN tag : t # b => tag'[t] = tag[t]
  BY DEF NewTag
<1>2. b \notin DOMAIN tag
  <2> DEFINE n == PagesFor(req)
  <2>1. \A r \in DOMAIN runs : b + n * PageSize <= r \/ EndOf(runs, r) <= b
    BY DEF NewTag, FreeRun, EndOf
  <2>2. Tags(tag) /\ Runs(runs) /\ Layout(tag, runs)
    BY Parts
  <2>3. req \in Sizes /\ req \in Nat /\ HDR \in Nat \ {0}
    BY Constants DEF IInv, HolderOK, NewTag
  <2>4. n * PageSize \in Nat /\ req + HDR <= n * PageSize
    BY <2>3, PagesEnough
  <2>5. b \in Nat \ {0}
    BY LiballocAssumption DEF PageBases
  <2> SUFFICES ASSUME b \in DOMAIN tag PROVE FALSE
    OBVIOUS
  <2>6. PICK r \in DOMAIN runs : InsideIn(tag, runs, b, r)
    BY <2>2 DEF Layout, BlocksIn
  <2>7. tag[b].real_size \in Nat /\ tag[b].real_size >= HDR
    BY <2>2, TagTypes DEF Layout, BlocksIn
  <2>8. r \in Nat /\ EndOf(runs, r) \in Nat
    BY <2>2, EndOfInt DEF Runs
  <2>9. r <= b /\ b + tag[b].real_size <= EndOf(runs, r)
    BY <2>6 DEF InsideIn
  <2>10. b + n * PageSize <= r \/ EndOf(runs, r) <= b
    BY <2>1
  <2> HIDE DEF n
  <2> QED BY <2>3, <2>4, <2>5, <2>7, <2>8, <2>9, <2>10
<1>3. ASSUME NEW i \in Exps, NEW t
      PROVE  t \in WholeRuns(tag', i) <=> t \in WholeRuns(tag, i)
  <2>1. i # -1
    BY ListClass
  <2> QED BY <1>1, <1>2, <2>1 DEF WholeRuns
<1> QED BY <1>1, <1>3, SameCount

(* malloc splits a block: the rest that goes to a list has a left neighbour, the
   taken block, and so has the block behind it, before and after. *)
LEMMA CarveSplitCounts ==
  ASSUME IInv, Counted, CarveSplit
  PROVE  Counted'
<1> DEFINE T == SplitOff(tag, cur)
           new == NewAt(tag, cur)
           j == ListIndex(T[new].real_size - HDR)
           right == tag[cur].split_right
<1>1. /\ pc = "carve" /\ Splittable
      /\ tag' = insert_tag(T, l_freePages, new, j)
      /\ l_completePages' = l_completePages
  BY DEF CarveSplit, MallocReturn, NewAt
<1>2. /\ Tags(tag) /\ Layout(tag, runs) /\ l_freePages \in [Exps -> Nat]
  BY Parts
<1>3. /\ cur \in DOMAIN tag /\ ~(tag[cur].index >= 0) /\ tag[cur].size = req
      /\ HDR + req <= tag[cur].real_size
  BY <1>1 DEF IInv, HolderOK, IsFree
<1>4. /\ cur \in Nat \ {0} /\ tag[cur].real_size \in Nat /\ req \in Nat
      /\ HDR \in Nat \ {0}
  BY <1>2, <1>3, TagTypes, Constants
<1>5. RestOf(tag, cur) >= HDR /\ RestOf(tag, cur) \in Int
  BY <1>1, <1>3, <1>4 DEF Splittable, Remainder, RestOf
<1>6. new \in Nat \ {0} /\ new \notin DOMAIN tag
  BY <1>2, <1>3, <1>5, SplitFresh
<1>7. DOMAIN T = DOMAIN tag \cup {new} /\ Tags(T)
  BY <1>2, <1>3, <1>5, SplitDomain, SplitTags
<1>8. T[new].split_left = cur /\ T[new].real_size = RestOf(tag, cur)
  BY SplitNew
<1>9. \A u \in DOMAIN tag : T[u].index = tag[u].index
  BY <1>2, <1>3, <1>6, SplitOthers
<1>10. \A u \in DOMAIN tag :
         /\ T[u].split_right = IF u = cur THEN new ELSE tag[u].split_right
         /\ T[u].split_left = IF u = right THEN new ELSE tag[u].split_left
  BY <1>2, <1>3, <1>6, SplitLinks
<1>11. j \in Exps
  <2>1. T[new].real_size - HDR \in Int
    BY <1>4, <1>5, <1>8
  <2> QED BY <2>1, ClassRange
<1>12. right \in DOMAIN tag => tag[right].split_left = cur
  BY <1>2, <1>3 DEF Layout, ChainIn, Tags, NULL
<1> HIDE DEF T, new, j, right
<1>13. /\ DOMAIN tag' = DOMAIN T
       /\ \A u \in DOMAIN T :
            /\ tag'[u].split_left = T[u].split_left
            /\ tag'[u].split_right = T[u].split_right
            /\ tag'[u].index = IF u = new THEN j ELSE T[u].index
  <2>1. new \in DOMAIN T
    BY <1>7
  <2> QED BY <1>1, <1>2, <1>7, <1>11, <2>1, InsertFields
<1>14. cur # NULL /\ new # NULL
  BY <1>4, <1>6 DEF NULL
<1>15. ASSUME NEW i \in Exps, NEW t
       PROVE  t \in WholeRuns(tag', i) <=> t \in WholeRuns(tag, i)
  <2>1. CASE t = new
    BY <1>6, <1>7, <1>8, <1>13, <1>14, <2>1 DEF WholeRuns
  <2>2. CASE t # new /\ t = right
    BY <1>6, <1>7, <1>10, <1>12, <1>13, <1>14, <2>2 DEF WholeRuns
  <2>3. CASE t = cur
    <3>1. tag[cur].index # i
      BY <1>3, ListClass
    <3> QED BY <1>3, <1>6, <1>7, <1>9, <1>13, <2>3, <3>1 DEF WholeRuns
  <2>4. CASE t # new /\ t # right /\ t # cur
    BY <1>7, <1>9, <1>10, <1>13, <2>4 DEF WholeRuns
  <2> QED BY <2>1, <2>2, <2>3, <2>4
<1> QED BY <1>1, <1>15, SameCount

(* free only forgets the size of the request. *)
LEMMA FreeStartCounts ==
  ASSUME IInv, Counted, NEW c \in Contexts, NEW p, FreeStart(c, p)
  PROVE  Counted'
<1>1. Tags(tag)
  BY Parts
<1>2. tag' = [tag EXCEPT ![p - HDR].size = 0] /\ l_completePages' = l_completePages
  BY DEF FreeStart
<1>3. /\ DOMAIN tag' = DOMAIN tag
      /\ \A u \in DOMAIN tag :
           /\ tag'[u].index = tag[u].index
           /\ tag'[u].split_left = tag[u].split_left
           /\ tag'[u].split_right = tag[u].split_right
  BY <1>1, <1>2 DEF Tags, TagRecord
<1> QED BY <1>2, <1>3, SameFields

(* free melts a block into a free left neighbour, which leaves its list; it had
   a right neighbour, so it was not counted. *)
LEMMA MeltLeftCounts ==
  ASSUME IInv, Counted, MeltLeft
  PROVE  Counted'
<1> DEFINE left == tag[cur].split_left
           right == tag[cur].split_right
           M == melt_left(tag, cur)
<1>1. /\ pc = "melt_left" /\ left # NULL /\ tag[left].index >= 0
      /\ tag' = remove_tag(M, left)
      /\ l_completePages' = l_completePages
  BY DEF MeltLeft, LeftFree, IsFree
<1>2. Tags(tag) /\ Layout(tag, runs)
  BY Parts
<1>3. cur \in DOMAIN tag /\ ~(tag[cur].index >= 0)
  BY <1>1 DEF IInv, HolderOK, IsFree
<1>4. left \in DOMAIN tag /\ left # cur /\ tag[left].split_right = cur
  BY <1>1, <1>2, <1>3 DEF Layout, ChainIn
<1>5. right \in DOMAIN tag => tag[right].split_left = cur
  BY <1>2, <1>3 DEF Layout, ChainIn, Tags, NULL
<1>6. cur # NULL
  BY <1>2, <1>3 DEF Tags, NULL
<1>7. /\ DOMAIN M = DOMAIN tag \ {cur} /\ Tags(M)
      /\ \A u \in DOMAIN tag : u # cur => M[u].index = tag[u].index
  <2>1. Tags(tag) /\ cur \in DOMAIN tag
    BY <1>2, <1>3
  <2>2. /\ DOMAIN M = DOMAIN tag \ {cur}
        /\ Tags(M)
        /\ \A u \in DOMAIN tag : u # cur =>
             /\ M[u].size = tag[u].size
             /\ M[u].index = tag[u].index
             /\ M[u].next = tag[u].next
             /\ M[u].prev = tag[u].prev
    BY <2>1, MeltFields
  <2> QED BY <2>2
<1>8. \A u \in DOMAIN tag : u # cur =>
        /\ M[u].split_right = IF u = left THEN right ELSE tag[u].split_right
        /\ M[u].split_left = IF u = right THEN left ELSE tag[u].split_left
  BY <1>2, <1>3, MeltSplits
<1> HIDE DEF left, right, M
<1>9. /\ DOMAIN tag' = DOMAIN M
      /\ \A u \in DOMAIN M :
           /\ tag'[u].split_left = M[u].split_left
           /\ tag'[u].split_right = M[u].split_right
           /\ tag'[u].index = IF u = left THEN -1 ELSE M[u].index
  <2>1. left \in DOMAIN M
    BY <1>4, <1>7
  <2> QED BY <1>1, <1>7, <2>1, RemoveFields
<1>10. ASSUME NEW i \in Exps, NEW t
       PROVE  t \in WholeRuns(tag', i) <=> t \in WholeRuns(tag, i)
  <2>1. i # -1 /\ tag[cur].index # i
    BY <1>3, ListClass
  <2>2. CASE t = cur
    BY <1>7, <1>9, <2>1, <2>2 DEF WholeRuns
  <2>3. CASE t = left
    BY <1>4, <1>6, <1>7, <1>9, <2>1, <2>3 DEF WholeRuns
  <2>4. CASE t = right
    BY <1>1, <1>5, <1>6, <1>7, <1>8, <1>9, <2>4 DEF WholeRuns
  <2>5. CASE t # cur /\ t # left /\ t # right
    BY <1>7, <1>8, <1>9, <2>5 DEF WholeRuns
  <2> QED BY <2>2, <2>3, <2>4, <2>5
<1> QED BY <1>1, <1>10, SameCount

(* free melts a free right neighbour into the block; it had a left neighbour, so
   it was not counted. *)
LEMMA MeltRightCounts ==
  ASSUME IInv, Counted, MeltRight
  PROVE  Counted'
<1> DEFINE right == tag[cur].split_right
           far == tag[right].split_right
           M == remove_tag(tag, right)
<1>1. /\ pc = "melt_right" /\ right # NULL
      /\ tag' = melt_left(M, right)
      /\ l_completePages' = l_completePages
  BY DEF MeltRight, RightFree, IsFree, absorb_right
<1>2. Tags(tag) /\ Layout(tag, runs)
  BY Parts
<1>3. cur \in DOMAIN tag /\ ~(tag[cur].index >= 0)
  BY <1>1 DEF IInv, HolderOK, IsFree
<1>4. right \in DOMAIN tag /\ tag[right].split_left = cur
  BY <1>1, <1>2, <1>3 DEF Layout, ChainIn
<1>5. far \in DOMAIN tag => tag[far].split_left = right
  BY <1>2, <1>4 DEF Layout, ChainIn, Tags, NULL
<1>6. cur # NULL
  BY <1>2, <1>3 DEF Tags, NULL
<1>7. /\ DOMAIN M = DOMAIN tag /\ Tags(M)
      /\ \A u \in DOMAIN tag :
           /\ M[u].split_left = tag[u].split_left
           /\ M[u].split_right = tag[u].split_right
           /\ M[u].index = IF u = right THEN -1 ELSE tag[u].index
  <2>1. Tags(tag) /\ right \in DOMAIN tag
    BY <1>2, <1>4
  <2> HIDE DEF right
  <2> QED BY <2>1, RemoveFields
<1> HIDE DEF right, far, M
<1>8. /\ DOMAIN tag' = DOMAIN tag \ {right}
      /\ \A u \in DOMAIN tag : u # right => tag'[u].index = tag[u].index
  <2>1. Tags(M) /\ right \in DOMAIN M
    BY <1>4, <1>7
  <2>2. /\ DOMAIN melt_left(M, right) = DOMAIN M \ {right}
        /\ Tags(melt_left(M, right))
        /\ \A u \in DOMAIN M : u # right =>
             /\ melt_left(M, right)[u].size = M[u].size
             /\ melt_left(M, right)[u].index = M[u].index
             /\ melt_left(M, right)[u].next = M[u].next
             /\ melt_left(M, right)[u].prev = M[u].prev
    BY <2>1, MeltFields
  <2> QED BY <1>1, <1>7, <2>2
<1>9. \A u \in DOMAIN tag : u # right =>
        /\ tag'[u].split_right = IF u = cur THEN far ELSE tag[u].split_right
        /\ tag'[u].split_left = IF u = far THEN cur ELSE tag[u].split_left
  <2>1. right \in DOMAIN M /\ M[right].split_left = cur /\ M[right].split_right = far
    BY <1>4, <1>7 DEF far
  <2>2. \A u \in DOMAIN M : u # right =>
          /\ melt_left(M, right)[u].split_right =
               IF u = M[right].split_left THEN M[right].split_right ELSE M[u].split_right
          /\ melt_left(M, right)[u].split_left =
               IF u = M[right].split_right THEN M[right].split_left ELSE M[u].split_left
    BY <1>7, <2>1, MeltSplits
  <2> QED BY <1>1, <1>7, <2>1, <2>2
<1>10. ASSUME NEW i \in Exps, NEW t
       PROVE  t \in WholeRuns(tag', i) <=> t \in WholeRuns(tag, i)
  <2>1. tag[cur].index # i
    BY <1>3, ListClass
  <2>2. CASE t = right
    BY <1>4, <1>6, <1>8, <2>2 DEF WholeRuns
  <2>3. CASE t # right /\ t = cur
    BY <1>3, <1>8, <2>1, <2>3 DEF WholeRuns
  <2>4. CASE t # right /\ t = far
    BY <1>1, <1>5, <1>6, <1>8, <1>9, <2>4 DEF WholeRuns
  <2>5. CASE t # cur /\ t # right /\ t # far
    BY <1>8, <1>9, <2>5 DEF WholeRuns
  <2> QED BY <2>2, <2>3, <2>4, <2>5
<1> QED BY <1>1, <1>10, SameCount

(* free gives a run back: its tag was in no list any more. *)
LEMMA ReleaseCounts ==
  ASSUME IInv, Counted, Release
  PROVE  Counted'
<1>1. /\ l_completePages' = l_completePages
      /\ DOMAIN tag' = DOMAIN tag \ {cur}
      /\ \A t \in DOMAIN tag' : tag'[t] = tag[t]
  BY DEF Release
<1>2. cur \in DOMAIN tag /\ ~(tag[cur].index >= 0)
  BY DEF IInv, HolderOK, Release, IsFree
<1>3. ASSUME NEW i \in Exps, NEW t
      PROVE  t \in WholeRuns(tag', i) <=> t \in WholeRuns(tag, i)
  <2>1. tag[cur].index # i
    BY <1>2, ListClass
  <2> QED BY <1>1, <1>2, <2>1 DEF WholeRuns
<1> QED BY <1>1, <1>3, SameCount

(* Every step of malloc, free, calloc and realloc keeps the count exact. *)
LEMMA NextCounted ==
  ASSUME IInv, Counted, [Next]_vars
  PROVE  Counted'
<1>1. ASSUME tag' = tag, l_completePages' = l_completePages
      PROVE  Counted'
  BY <1>1, SameFields
<1>2. CASE LockedStep
  <2>1. CASE SearchTake
    BY <2>1, TakeCounts
  <2>2. CASE \E b \in PageBases : NewTag(b)
    BY <2>2, NewTagCounts
  <2>3. CASE CarveSplit
    BY <2>3, CarveSplitCounts
  <2>4. CASE MeltLeft
    BY <2>4, MeltLeftCounts
  <2>5. CASE MeltRight
    BY <2>5, MeltRightCounts
  <2>6. CASE PutBack
    BY <2>6, PutBackCounts
  <2>7. CASE Release
    BY <2>7, ReleaseCounts
  <2>8. CASE SearchNext \/ NoPages \/ CarveWhole \/ MeltLeftDone
    BY <1>1, <2>8 DEF SearchNext, NoPages, CarveWhole, MeltLeftDone, MallocReturn, alloc_vars
  <2> QED
    BY <1>2, <2>1, <2>2, <2>3, <2>4, <2>5, <2>6, <2>7, <2>8 DEF LockedStep
<1>3. ASSUME NEW c \in Contexts, NEW n, MallocStart(c, n)
      PROVE  Counted'
  BY <1>1, <1>3 DEF MallocStart
<1>4. CASE \E c \in Contexts : \E n \in Sizes : Malloc(c, n) \/ Calloc(c, n)
  BY <1>3, <1>4 DEF Malloc, Calloc
<1>5. CASE \E c \in Contexts : \E p \in DOMAIN live : Free(c, p)
  BY <1>5, FreeStartCounts DEF Free
<1>6. CASE \E c \in Contexts : \E p \in DOMAIN live, n \in Sizes : ReallocLookup(c, p, n)
  BY <1>1, <1>6 DEF ReallocLookup, alloc_vars
<1>7. CASE \E c \in Contexts : Continue(c)
  <2>1. PICK c \in Contexts : CallocClear(c) \/ ReallocMalloc(c) \/ ReallocFree(c)
    BY <1>7 DEF Continue
  <2>2. CASE CallocClear(c)
    BY <1>1, <2>2 DEF CallocClear, alloc_vars
  <2>3. CASE ReallocMalloc(c)
    BY <1>3, <2>3 DEF ReallocMalloc
  <2>4. CASE ReallocFree(c)
    BY <2>4, FreeStartCounts DEF ReallocFree
  <2> QED BY <2>1, <2>2, <2>3, <2>4
<1>8. CASE UNCHANGED vars
  BY <1>1, <1>8 DEF vars
<1> QED
  BY <1>2, <1>4, <1>5, <1>6, <1>7, <1>8 DEF Next

(* The count of the whole free runs of a class, which free consults before it
   keeps one more, is exact, and at most MAXCOMPLETE of them stand by. *)
THEOREM RunsCounted == Spec => []CompleteExact
<1>1. Init => Counted
  <2> SUFFICES ASSUME Init PROVE Counted
    OBVIOUS
  <2>1. DOMAIN tag = {} /\ \A i \in Exps : l_completePages[i] = 0
    BY DEF Init, Exps
  <2>2. ASSUME NEW i \in Exps PROVE WholeRuns(tag, i) = {}
    BY <2>1 DEF WholeRuns
  <2>3. IsFiniteSet({}) /\ Cardinality({}) = 0
    BY FS_EmptySet
  <2>4. 0 <= MAXCOMPLETE
    BY LiballocAssumption
  <2> QED BY <2>1, <2>2, <2>3, <2>4 DEF Counted
<1>2. IInv /\ Counted /\ [Next]_vars => Counted'
  BY NextCounted
<1>3. Counted => CompleteExact
  <2>1. ASSUME NEW i \in Exps
        PROVE  WholeRuns(tag, i) = {t \in DOMAIN tag : tag[t].index = i /\ Complete(t)}
    BY DEF WholeRuns, Complete
  <2> QED BY <2>1 DEF Counted, CompleteExact
<1> QED
  BY <1>1, <1>2, <1>3, Invariance, PTL DEF Spec

(* What realloc copies is inside both blocks, whatever ran since it looked. *)
THEOREM ReallocCopiesInBounds == Spec => []CopyInBounds
<1>1. IInv => CopyInBounds
  BY DEF IInv, ClientOK, CopyInBounds
<1>2. QED
  BY <1>1, Invariance, PTL

(* A malloc that returns a block is a Malloc of the abstract allocator. *)
LEMMA ReturnRefines ==
  ASSUME IInv, pc = "carve", MallocReturn
  PROVE  Abstract!Next
<1> DEFINE p == cur + HDR
<1>1. /\ p \notin DOMAIN live /\ DOMAIN live' = DOMAIN live \cup {p} /\ p \in Nat
  BY MallocReturnStep
<1>2. /\ cur \in DOMAIN tag /\ req \in Sizes /\ HDR + req <= tag[cur].real_size
      /\ req \in Nat
  BY Constants DEF IInv, HolderOK
<1>3. \A q \in DOMAIN live : Abstract!Apart(p, req, q, live[q])
  <2> SUFFICES ASSUME NEW q \in DOMAIN live
               PROVE  p + req <= q \/ q + live[q] <= p
    BY DEF Abstract!Apart
  <2>1. q - HDR # cur
    BY LiveBlock DEF Busy
  <2>2. HDR \in Nat
    BY Constants
  <2>3. QED
    BY <1>2, <2>1, <2>2, LiveBlock, TagsApart
<1>4. live' = [q \in DOMAIN live \cup {p} |-> IF q = p THEN req ELSE live[q]]
  BY DEF MallocReturn
<1>5. Abstract!Malloc
  BY <1>1, <1>2, <1>3, <1>4 DEF Abstract!Malloc
<1>6. QED
  BY <1>5 DEF Abstract!Next

(* liballoc implements the allocator its callers rely on. *)
THEOREM Refinement == Spec => Implements
<1>1. Init => Abstract!Init
  BY DEF Init, Abstract!Init
<1>2. ASSUME IInv, [Next]_vars PROVE [Abstract!Next]_live
  <2>1. CASE CarveSplit \/ CarveWhole
    BY <1>2, <2>1, ReturnRefines DEF CarveSplit, CarveWhole
  <2>2. ASSUME NEW c \in Contexts, NEW p \in DOMAIN live, FreeStart(c, p)
        PROVE  Abstract!Next
    BY <2>2 DEF FreeStart, Abstract!Next, Abstract!Free
  <2>3. CASE \E c \in Contexts : \E p \in DOMAIN live : Free(c, p)
    BY <2>2, <2>3 DEF Free
  <2>4. CASE \E c \in Contexts : ReallocFree(c)
    <3>1. PICK c \in Contexts : ReallocFree(c)
      BY <2>4
    <3>2. client[c].p \in DOMAIN live
      BY <1>2, <3>1 DEF IInv, ClientOK, ReallocFree
    <3>3. QED
      BY <2>2, <3>1, <3>2 DEF ReallocFree
  <2>5. CASE \/ SearchNext \/ SearchTake \/ NoPages
             \/ \E b \in PageBases : NewTag(b)
             \/ MeltLeft \/ MeltLeftDone \/ MeltRight \/ PutBack \/ Release
    BY <2>5 DEF SearchNext, SearchTake, NoPages, NewTag, MeltLeft, MeltLeftDone,
                MeltRight, PutBack, Release
  <2>6. CASE \E c \in Contexts :
               \/ \E n \in Sizes : Malloc(c, n) \/ Calloc(c, n)
               \/ \E p \in DOMAIN live, n \in Sizes : ReallocLookup(c, p, n)
               \/ CallocClear(c) \/ ReallocMalloc(c)
    BY <2>6 DEF Malloc, Calloc, ReallocLookup, CallocClear, ReallocMalloc, MallocStart
  <2>7. CASE UNCHANGED vars
    BY <2>7 DEF vars
  <2>8. QED
    BY <1>2, <2>1, <2>3, <2>4, <2>5, <2>6, <2>7 DEF Next, LockedStep, Continue
<1>3. QED
  BY <1>1, <1>2, Invariance, PTL DEF Spec, Implements, Abstract!Spec

-----------------------------------------------------------------------------
(* The lists end.                                                          *)

(* No set of blocks is closed under prev: whoever walks back along a list comes to
   its head. *)
EndsIn(T) == \A S \in SUBSET DOMAIN T : S # {} => \E t \in S : T[t].prev \notin S

ListsEnd == IsFiniteSet(DOMAIN tag) /\ EndsIn(tag)

(* remove_tag closes no circle: a set that were closed now was closed before with
   the removed block in it. *)
LEMMA RemoveEnds ==
  ASSUME NEW T, Tags(T), NEW F \in [Exps -> Nat], LinkedIn(T, F),
         NEW t \in DOMAIN T, EndsIn(T)
  PROVE  EndsIn(remove_tag(T, t))
<1> DEFINE R == remove_tag(T, t)
<1>1. /\ DOMAIN R = DOMAIN T /\ R[t].prev = NULL
      /\ \A u \in DOMAIN T : u # t =>
           R[u].prev = IF u = T[t].next THEN T[t].prev ELSE T[u].prev
  BY RemoveFields
<1>2. NULL \notin DOMAIN T
  BY DEF Tags, NULL
<1>3. T[t].next \in DOMAIN T => T[T[t].next].prev = t
  BY <1>2 DEF LinkedIn
<1> HIDE DEF R
<1>4. ASSUME NEW S \in SUBSET DOMAIN T, S # {}
      PROVE  \E u \in S : R[u].prev \notin S
  <2>1. CASE t \in S
    BY <1>1, <1>2, <2>1
  <2>2. CASE t \notin S /\ T[t].next \in S
    <3>1. S \cup {t} \in SUBSET DOMAIN T /\ S \cup {t} # {}
      OBVIOUS
    <3>2. PICK x \in S \cup {t} : T[x].prev \notin S \cup {t}
      BY <3>1 DEF EndsIn
    <3>3. CASE x = t
      BY <1>1, <2>2, <3>2, <3>3
    <3>4. CASE x # t
      <4>1. x # T[t].next
        BY <1>3, <2>2, <3>2
      <4> QED BY <1>1, <3>2, <3>4, <4>1
    <3> QED BY <3>3, <3>4
  <2>3. CASE t \notin S /\ T[t].next \notin S
    <3>1. PICK x \in S : T[x].prev \notin S
      BY <1>4 DEF EndsIn
    <3> QED BY <1>1, <2>3, <3>1
  <2> QED BY <2>1, <2>2, <2>3
<1>5. EndsIn(R)
  BY <1>1, <1>4, Zenon DEF EndsIn
<1> QED BY <1>5 DEF R

(* insert_tag puts a block without predecessor in front. *)
LEMMA InsertEnds ==
  ASSUME NEW T, Tags(T), NEW F \in [Exps -> Nat], LinkedIn(T, F),
         NEW t \in DOMAIN T, ~(T[t].index >= 0), NEW i \in Exps, EndsIn(T)
  PROVE  EndsIn(insert_tag(T, F, t, i))
<1> DEFINE R == insert_tag(T, F, t, i)
<1>1. /\ DOMAIN R = DOMAIN T
      /\ \A u \in DOMAIN T : R[u].prev = IF u = F[i] THEN t ELSE T[u].prev
  BY InsertFields
<1>2. NULL \notin DOMAIN T /\ T[t].prev = NULL
  BY DEF Tags, NULL, LinkedIn
<1>3. t # F[i]
  BY <1>2, Constants DEF LinkedIn
<1> HIDE DEF R
<1>4. ASSUME NEW S \in SUBSET DOMAIN T, S # {}
      PROVE  \E u \in S : R[u].prev \notin S
  <2>1. CASE t \in S
    BY <1>1, <1>2, <1>3, <2>1
  <2>2. CASE t \notin S
    <3>1. PICK x \in S : T[x].prev \notin S
      BY <1>4 DEF EndsIn
    <3> QED BY <1>1, <2>2, <3>1
  <2> QED BY <2>1, <2>2
<1>5. EndsIn(R)
  BY <1>1, <1>4, Zenon DEF EndsIn
<1> QED BY <1>5 DEF R

(* A tag table with fewer or with other blocks, whose predecessors are what they
   were or none. *)
LEMMA FewerEnds ==
  ASSUME NEW T, NEW R, EndsIn(T), NULL \notin DOMAIN R,
         \A u \in DOMAIN R : R[u].prev = NULL \/ (u \in DOMAIN T /\ R[u].prev = T[u].prev)
  PROVE  EndsIn(R)
<1>1. ASSUME NEW S \in SUBSET DOMAIN R, S # {}
      PROVE  \E u \in S : R[u].prev \notin S
  <2>1. CASE \E u \in S : R[u].prev = NULL
    BY <2>1
  <2>2. CASE \A u \in S : R[u].prev # NULL
    <3>1. S \in SUBSET DOMAIN T /\ \A u \in S : R[u].prev = T[u].prev
      BY <2>2
    <3> QED BY <1>1, <3>1 DEF EndsIn
  <2> QED BY <2>1, <2>2
<1> QED BY <1>1, Zenon DEF EndsIn

(* Steps after which the blocks are those that were there, or some of them, or one
   more, and have no predecessor or the one they had. *)
LEMMA SameEnds ==
  ASSUME IInv', ListsEnd, DOMAIN tag' \ DOMAIN tag = {} \/ \E x : DOMAIN tag' \ DOMAIN tag = {x},
         \A u \in DOMAIN tag' :
           tag'[u].prev = NULL \/ (u \in DOMAIN tag /\ tag'[u].prev = tag[u].prev)
  PROVE  ListsEnd'
<1>1. NULL \notin DOMAIN tag'
  BY DEF IInv, TypeOK, NULL
<1>2. EndsIn(tag')
  BY <1>1, FewerEnds DEF ListsEnd
<1>3. IsFiniteSet(DOMAIN tag) /\ IsFiniteSet({})
  BY FS_EmptySet DEF ListsEnd
<1>4. IsFiniteSet(DOMAIN tag')
  <2>1. PICK x : DOMAIN tag' \subseteq DOMAIN tag \cup {x}
    OBVIOUS
  <2>2. IsFiniteSet(DOMAIN tag \cup {x})
    BY <1>3, FS_AddElement
  <2> QED BY <2>1, <2>2, FS_Subset
<1> QED BY <1>2, <1>4 DEF ListsEnd

(* malloc takes a block off its list. *)
LEMMA TakeEnds ==
  ASSUME IInv, ListsEnd, SearchTake
  PROVE  ListsEnd'
<1> DEFINE T == remove_tag(tag, cur)
<1>1. Tags(tag) /\ l_freePages \in [Exps -> Nat] /\ LinkedIn(tag, l_freePages)
  BY Parts
<1>2. cur \in DOMAIN tag /\ tag' = [T EXCEPT ![cur].size = req]
  BY DEF IInv, HolderOK, SearchTake
<1>3. EndsIn(T) /\ DOMAIN T = DOMAIN tag /\ Tags(T)
  BY <1>1, <1>2, RemoveEnds, RemoveFields DEF ListsEnd
<1> HIDE DEF T
<1>4. DOMAIN tag' = DOMAIN T /\ \A u \in DOMAIN T : tag'[u].prev = T[u].prev
  BY <1>2, <1>3 DEF Tags, TagRecord
<1>5. NULL \notin DOMAIN tag'
  BY <1>3, <1>4 DEF Tags, NULL
<1>6. EndsIn(tag')
  BY <1>3, <1>4, <1>5, FewerEnds
<1> QED BY <1>3, <1>4, <1>6 DEF ListsEnd

(* The block that is split off has no predecessor and is put in front of a list. *)
LEMMA CarveSplitEnds ==
  ASSUME IInv, ListsEnd, CarveSplit
  PROVE  ListsEnd'
<1> DEFINE T == SplitOff(tag, cur)
           new == NewAt(tag, cur)
           j == ListIndex(T[new].real_size - HDR)
<1>1. /\ pc = "carve" /\ Splittable
      /\ tag' = insert_tag(T, l_freePages, new, j)
  BY DEF CarveSplit, MallocReturn, NewAt
<1>2. /\ Tags(tag) /\ Layout(tag, runs) /\ l_freePages \in [Exps -> Nat]
      /\ LinkedIn(tag, l_freePages)
  BY Parts
<1>3. /\ cur \in DOMAIN tag /\ ~(tag[cur].index >= 0) /\ tag[cur].size = req
      /\ HDR + req <= tag[cur].real_size
  BY <1>1 DEF IInv, HolderOK, IsFree
<1>4. /\ cur \in Nat \ {0} /\ tag[cur].real_size \in Nat /\ req \in Nat
      /\ HDR \in Nat \ {0}
  BY <1>2, <1>3, TagTypes, Constants
<1>5. RestOf(tag, cur) >= HDR /\ RestOf(tag, cur) \in Int
  BY <1>1, <1>3, <1>4 DEF Splittable, Remainder, RestOf
<1>6. new \in Nat \ {0} /\ new \notin DOMAIN tag
  BY <1>2, <1>3, <1>5, SplitFresh
<1>7. DOMAIN T = DOMAIN tag \cup {new} /\ Tags(T)
  BY <1>2, <1>3, <1>5, SplitDomain, SplitTags
<1>8. T[new].prev = NULL /\ T[new].index = -1 /\ T[new].real_size = RestOf(tag, cur)
  BY SplitNew
<1>9. \A u \in DOMAIN tag : T[u].prev = tag[u].prev
  BY <1>2, <1>3, <1>6, SplitOthers
<1>10. LinkedIn(T, l_freePages)
  BY <1>2, <1>3, <1>5, SplitLinked
<1>11. j \in Exps
  <2>1. T[new].real_size - HDR \in Int
    BY <1>4, <1>5, <1>8
  <2> QED BY <2>1, ClassRange
<1> HIDE DEF T, new, j
<1>12. EndsIn(T)
  <2>1. NULL \notin DOMAIN T
    BY <1>7 DEF Tags, NULL
  <2> QED BY <1>7, <1>8, <1>9, <2>1, FewerEnds DEF ListsEnd
<1>13. EndsIn(tag') /\ DOMAIN tag' = DOMAIN T
  <2>1. ~(T[new].index >= 0) /\ new \in DOMAIN T
    BY <1>7, <1>8
  <2> QED BY <1>1, <1>2, <1>7, <1>10, <1>11, <1>12, <2>1, InsertEnds, InsertFields
<1>14. IsFiniteSet(DOMAIN T)
  BY <1>7, FS_AddElement DEF ListsEnd
<1> QED BY <1>13, <1>14 DEF ListsEnd

(* The block that is melted into its left neighbour is in no list, and the neighbour
   leaves its own. *)
LEMMA MeltLeftEnds ==
  ASSUME IInv, ListsEnd, MeltLeft
  PROVE  ListsEnd'
<1> DEFINE left == tag[cur].split_left
           M == melt_left(tag, cur)
<1>1. /\ pc = "melt_left" /\ left # NULL /\ tag[left].index >= 0
      /\ tag' = remove_tag(M, left)
  BY DEF MeltLeft, LeftFree, IsFree
<1>2. /\ Tags(tag) /\ Layout(tag, runs) /\ l_freePages \in [Exps -> Nat]
      /\ LinkedIn(tag, l_freePages)
  BY Parts
<1>3. cur \in DOMAIN tag /\ ~(tag[cur].index >= 0)
  BY <1>1 DEF IInv, HolderOK, IsFree
<1>4. left \in DOMAIN tag /\ left # cur
  BY <1>1, <1>2, <1>3 DEF Layout, ChainIn
<1>5. /\ DOMAIN M = DOMAIN tag \ {cur} /\ Tags(M)
      /\ \A u \in DOMAIN tag : u # cur => M[u].prev = tag[u].prev
  <2>1. Tags(tag) /\ cur \in DOMAIN tag
    BY <1>2, <1>3
  <2>2. /\ DOMAIN M = DOMAIN tag \ {cur}
        /\ Tags(M)
        /\ \A u \in DOMAIN tag : u # cur =>
             /\ M[u].size = tag[u].size
             /\ M[u].index = tag[u].index
             /\ M[u].next = tag[u].next
             /\ M[u].prev = tag[u].prev
    BY <2>1, MeltFields
  <2> QED BY <2>2
<1>6. LinkedIn(M, l_freePages)
  BY <1>1, <1>2, <1>3, MeltLinked
<1> HIDE DEF left, M
<1>7. EndsIn(M)
  <2>1. NULL \notin DOMAIN M
    BY <1>5 DEF Tags, NULL
  <2> QED BY <1>5, <2>1, FewerEnds DEF ListsEnd
<1>8. EndsIn(tag') /\ DOMAIN tag' = DOMAIN M
  <2>1. left \in DOMAIN M
    BY <1>4, <1>5
  <2> QED BY <1>1, <1>2, <1>5, <1>6, <1>7, <2>1, RemoveEnds, RemoveFields
<1>9. IsFiniteSet(DOMAIN M)
  BY <1>5, FS_RemoveElement DEF ListsEnd
<1> QED BY <1>8, <1>9 DEF ListsEnd

(* The right neighbour is taken off its list before it is melted. *)
LEMMA MeltRightEnds ==
  ASSUME IInv, IInv', ListsEnd, MeltRight
  PROVE  ListsEnd'
<1> DEFINE right == tag[cur].split_right
           M == remove_tag(tag, right)
<1>1. /\ pc = "melt_right" /\ right # NULL
      /\ tag' = melt_left(M, right)
  BY DEF MeltRight, RightFree, IsFree, absorb_right
<1>2. /\ Tags(tag) /\ Layout(tag, runs) /\ l_freePages \in [Exps -> Nat]
      /\ LinkedIn(tag, l_freePages)
  BY Parts
<1>3. cur \in DOMAIN tag /\ ~(tag[cur].index >= 0)
  BY <1>1 DEF IInv, HolderOK, IsFree
<1>4. right \in DOMAIN tag
  BY <1>1, <1>2, <1>3 DEF Layout, ChainIn
<1> HIDE DEF right
<1>5. DOMAIN M = DOMAIN tag /\ Tags(M) /\ EndsIn(M)
  BY <1>2, <1>4, RemoveFields, RemoveEnds DEF ListsEnd
<1> HIDE DEF M
<1>6. /\ DOMAIN tag' = DOMAIN M \ {right}
      /\ \A u \in DOMAIN M : u # right => tag'[u].prev = M[u].prev
  <2>1. Tags(M) /\ right \in DOMAIN M
    BY <1>4, <1>5
  <2>2. /\ DOMAIN melt_left(M, right) = DOMAIN M \ {right}
        /\ Tags(melt_left(M, right))
        /\ \A u \in DOMAIN M : u # right =>
             /\ melt_left(M, right)[u].size = M[u].size
             /\ melt_left(M, right)[u].index = M[u].index
             /\ melt_left(M, right)[u].next = M[u].next
             /\ melt_left(M, right)[u].prev = M[u].prev
    BY <2>1, MeltFields
  <2> QED BY <1>1, <2>2
<1>7. EndsIn(tag')
  <2>1. NULL \notin DOMAIN tag'
    BY DEF IInv, TypeOK, NULL
  <2> QED BY <1>5, <1>6, <2>1, FewerEnds
<1>8. IsFiniteSet(DOMAIN tag')
  BY <1>5, <1>6, FS_RemoveElement DEF ListsEnd
<1> QED BY <1>7, <1>8 DEF ListsEnd

(* A freed block is put in front of a list. *)
LEMMA PutBackEnds ==
  ASSUME IInv, ListsEnd, PutBack
  PROVE  ListsEnd'
<1>1. Tags(tag) /\ l_freePages \in [Exps -> Nat] /\ LinkedIn(tag, l_freePages)
  BY Parts
<1>2. /\ cur \in DOMAIN tag /\ ~(tag[cur].index >= 0)
      /\ tag' = insert_tag(tag, l_freePages, cur, FreeIndex)
  BY DEF IInv, HolderOK, PutBack, IsFree
<1>3. FreeIndex \in Exps
  BY <1>1, <1>2, TagTypes, Constants, ClassRange DEF FreeIndex
<1>4. EndsIn(tag') /\ DOMAIN tag' = DOMAIN tag
  BY <1>1, <1>2, <1>3, InsertEnds, InsertFields DEF ListsEnd
<1> QED BY <1>4 DEF ListsEnd

(* No step of malloc, free, calloc and realloc closes a list to a circle. *)
LEMMA NextEnds ==
  ASSUME IInv, IInv', ListsEnd, [Next]_vars
  PROVE  ListsEnd'
<1>1. ASSUME tag' = tag
      PROVE  ListsEnd'
  BY <1>1 DEF ListsEnd, EndsIn
<1>2. ASSUME NEW c \in Contexts, NEW p, FreeStart(c, p)
      PROVE  ListsEnd'
  <2>1. Tags(tag) /\ tag' = [tag EXCEPT ![p - HDR].size = 0]
    BY <1>2, Parts DEF FreeStart
  <2>2. DOMAIN tag' = DOMAIN tag /\ \A u \in DOMAIN tag : tag'[u].prev = tag[u].prev
    BY <2>1 DEF Tags, TagRecord
  <2> QED BY <2>2, SameEnds
<1>3. CASE LockedStep
  <2>1. CASE SearchTake
    BY <2>1, TakeEnds
  <2>2. CASE \E b \in PageBases : NewTag(b)
    <3>1. PICK b \in PageBases : NewTag(b)
      BY <2>2
    <3>2. /\ DOMAIN tag' = DOMAIN tag \cup {b}
          /\ tag'[b].prev = NULL
          /\ \A u \in DOMAIN tag : u # b => tag'[u] = tag[u]
      BY <3>1 DEF NewTag
    <3>3. DOMAIN tag' \ DOMAIN tag = {} \/ DOMAIN tag' \ DOMAIN tag = {b}
      BY <3>2
    <3> QED BY <3>2, <3>3, SameEnds
  <2>3. CASE CarveSplit
    BY <2>3, CarveSplitEnds
  <2>4. CASE MeltLeft
    BY <2>4, MeltLeftEnds
  <2>5. CASE MeltRight
    BY <2>5, MeltRightEnds
  <2>6. CASE PutBack
    BY <2>6, PutBackEnds
  <2>7. CASE Release
    <3>1. /\ DOMAIN tag' = DOMAIN tag \ {cur}
          /\ \A t \in DOMAIN tag' : tag'[t] = tag[t]
      BY <2>7 DEF Release
    <3>2. DOMAIN tag' \ DOMAIN tag = {}
      BY <3>1
    <3> QED BY <3>1, <3>2, SameEnds
  <2>8. CASE SearchNext \/ NoPages \/ CarveWhole \/ MeltLeftDone
    BY <1>1, <2>8 DEF SearchNext, NoPages, CarveWhole, MeltLeftDone, MallocReturn, alloc_vars
  <2> QED
    BY <1>3, <2>1, <2>2, <2>3, <2>4, <2>5, <2>6, <2>7, <2>8 DEF LockedStep
<1>4. ASSUME NEW c \in Contexts, NEW n, MallocStart(c, n)
      PROVE  ListsEnd'
  BY <1>1, <1>4 DEF MallocStart
<1>5. CASE \E c \in Contexts : \E n \in Sizes : Malloc(c, n) \/ Calloc(c, n)
  BY <1>4, <1>5 DEF Malloc, Calloc
<1>6. CASE \E c \in Contexts : \E p \in DOMAIN live : Free(c, p)
  BY <1>2, <1>6 DEF Free
<1>7. CASE \E c \in Contexts : \E p \in DOMAIN live, n \in Sizes : ReallocLookup(c, p, n)
  BY <1>1, <1>7 DEF ReallocLookup, alloc_vars
<1>8. CASE \E c \in Contexts : Continue(c)
  <2>1. PICK c \in Contexts : CallocClear(c) \/ ReallocMalloc(c) \/ ReallocFree(c)
    BY <1>8 DEF Continue
  <2>2. CASE CallocClear(c)
    BY <1>1, <2>2 DEF CallocClear, alloc_vars
  <2>3. CASE ReallocMalloc(c)
    BY <1>4, <2>3 DEF ReallocMalloc
  <2>4. CASE ReallocFree(c)
    BY <1>2, <2>4 DEF ReallocFree
  <2> QED BY <2>1, <2>2, <2>3, <2>4
<1>9. CASE UNCHANGED vars
  BY <1>1, <1>9 DEF vars
<1> QED
  BY <1>3, <1>5, <1>6, <1>7, <1>8, <1>9 DEF Next

(* Whoever walks back along a free list always comes to its head. *)
THEOREM ListsNeverLoop == Spec => []ListsEnd
<1>1. Init => ListsEnd
  <2> SUFFICES ASSUME Init PROVE ListsEnd
    OBVIOUS
  <2>1. DOMAIN tag = {}
    BY DEF Init
  <2> QED BY <2>1, FS_EmptySet DEF ListsEnd, EndsIn
<1>2. IInv /\ IInv' /\ ListsEnd /\ [Next]_vars => ListsEnd'
  BY NextEnds
<1> QED BY <1>1, <1>2, Invariance, PTL DEF Spec

-----------------------------------------------------------------------------
(* The tags within k links of a list head.                                 *)

(* What an iteration of step from a on has up to n. *)
Iterates(A, a, step, n, h) ==
  /\ h \in [0..n -> A] /\ h[0] = a
  /\ \A k \in 0..(n - 1) : h[k + 1] = step[h[k]]

(* Two iterations agree as far as both go. *)
LEMMA IterationUnique ==
  ASSUME NEW A, NEW a \in A, NEW step \in [A -> A], NEW n \in Nat, NEW m \in Nat,
         NEW h, NEW i, Iterates(A, a, step, n, h), Iterates(A, a, step, m, i)
  PROVE  \A k \in Nat : k <= n /\ k <= m => h[k] = i[k]
<1> DEFINE S == {k \in Nat : k <= n /\ k <= m /\ h[k] # i[k]}
<1>1. SUFFICES ASSUME S # {} PROVE FALSE
  OBVIOUS
<1>2. PICK k \in S : \A l \in S : k <= l
  BY <1>1, LeastElement
<1>3. k # 0
  BY <1>2 DEF Iterates
<1>4. k - 1 \in Nat /\ k - 1 \notin S
  BY <1>2, <1>3
<1>5. h[k - 1] = i[k - 1] /\ k - 1 \in 0..(n - 1) /\ k - 1 \in 0..(m - 1)
  BY <1>2, <1>3, <1>4
<1>6. (k - 1) + 1 = k
  BY <1>2
<1>7. h[k] = step[h[k - 1]] /\ i[k] = step[i[k - 1]]
  BY <1>5, <1>6 DEF Iterates
<1> QED BY <1>2, <1>5, <1>7

(* An iteration can go as far as one likes. *)
LEMMA IterationExists ==
  ASSUME NEW A, NEW a \in A, NEW step \in [A -> A], NEW n \in Nat
  PROVE  \E h : Iterates(A, a, step, n, h)
<1> DEFINE S == {k \in Nat : ~ \E h : Iterates(A, a, step, k, h)}
<1>1. SUFFICES ASSUME S # {} PROVE FALSE
  OBVIOUS
<1>2. PICK k \in S : \A l \in S : k <= l
  BY <1>1, LeastElement
<1>3. k # 0
  <2>1. Iterates(A, a, step, 0, [l \in 0..0 |-> a])
    BY DEF Iterates
  <2> QED BY <1>2, <2>1
<1>4. k - 1 \in Nat /\ k - 1 \notin S
  BY <1>2, <1>3
<1>5. PICK h : Iterates(A, a, step, k - 1, h)
  BY <1>4
<1> DEFINE g == [l \in 0..k |-> IF l = k THEN step[h[k - 1]] ELSE h[l]]
<1>6. h \in [0..(k - 1) -> A] /\ h[0] = a /\ \A l \in 0..(k - 1 - 1) : h[l + 1] = step[h[l]]
  BY <1>5 DEF Iterates
<1>7. \A l \in 0..(k - 1) : l \in 0..k /\ l # k /\ g[l] = h[l] /\ h[l] \in A
  BY <1>2, <1>4, <1>6
<1>8. g[k] = step[h[k - 1]] /\ g[k] \in A
  BY <1>2, <1>4, <1>6
<1>9. g \in [0..k -> A] /\ g[0] = a
  BY <1>2, <1>4, <1>6, <1>7, <1>8
<1>10. ASSUME NEW l \in 0..(k - 1)
       PROVE  g[l + 1] = step[g[l]]
  <2>1. CASE l = k - 1
    BY <1>2, <1>7, <1>8, <2>1
  <2>2. CASE l # k - 1
    <3>1. l \in 0..(k - 1 - 1) /\ l + 1 \in 0..(k - 1)
      BY <1>2, <1>4, <2>2
    <3> QED BY <1>6, <1>7, <3>1
  <2> QED BY <2>1, <2>2
<1>11. Iterates(A, a, step, k, g)
  BY <1>9, <1>10 DEF Iterates
<1> QED BY <1>2, <1>11

(* So there is a function that starts with a and goes on with step for ever. *)
LEMMA Iteration ==
  ASSUME NEW A, NEW a \in A, NEW step \in [A -> A]
  PROVE  \E f \in [Nat -> A] : f[0] = a /\ \A k \in Nat : f[k + 1] = step[f[k]]
<1> DEFINE h(n) == CHOOSE g : Iterates(A, a, step, n, g)
           f == [n \in Nat |-> h(n)[n]]
<1>1. ASSUME NEW n \in Nat PROVE Iterates(A, a, step, n, h(n))
  BY IterationExists
<1>2. ASSUME NEW n \in Nat PROVE h(n)[n] \in A
  BY <1>1 DEF Iterates
<1>3. h(0)[0] = a
  BY <1>1 DEF Iterates
<1>4. ASSUME NEW k \in Nat PROVE h(k + 1)[k + 1] = step[h(k)[k]]
  <2>1. Iterates(A, a, step, k + 1, h(k + 1)) /\ Iterates(A, a, step, k, h(k))
    BY <1>1
  <2> HIDE DEF h
  <2>2. h(k + 1)[k] = h(k)[k]
    <3>1. k + 1 \in Nat /\ k <= k + 1 /\ k <= k
      OBVIOUS
    <3> QED BY <2>1, <3>1, IterationUnique
  <2>3. k \in 0..(k + 1 - 1)
    OBVIOUS
  <2> QED BY <2>1, <2>2, <2>3 DEF Iterates
<1> HIDE DEF h
<1>5. f \in [Nat -> A] /\ f[0] = a /\ \A k \in Nat : f[k + 1] = step[f[k]]
  BY <1>2, <1>3, <1>4
<1> QED BY <1>5

FreeTags == {t \in DOMAIN tag : IsFree(t)}
Heads == {l_freePages[i] : i \in Exps} \ {NULL}
Onward == [X \in SUBSET FreeTags |-> X \cup ({tag[t].next : t \in X} \ {NULL})]

(* The heads are free blocks, and so is what follows one. *)
LEMMA OnwardFree ==
  ASSUME IInv
  PROVE  Heads \in SUBSET FreeTags /\ Onward \in [SUBSET FreeTags -> SUBSET FreeTags]
<1>1. LinkedIn(tag, l_freePages) /\ Tags(tag)
  BY Parts
<1>2. \A i \in Exps : i >= 0
  BY Constants
<1>3. Heads \subseteq FreeTags
  BY <1>1, <1>2 DEF Heads, FreeTags, IsFree, LinkedIn
<1>4. ASSUME NEW t \in FreeTags, tag[t].next # NULL
      PROVE  tag[t].next \in FreeTags
  BY <1>1, <1>4 DEF FreeTags, IsFree, LinkedIn
<1>5. ASSUME NEW X \in SUBSET FreeTags
      PROVE  X \cup ({tag[t].next : t \in X} \ {NULL}) \in SUBSET FreeTags
  BY <1>4
<1> QED BY <1>3, <1>5 DEF Onward

(* Reached starts with the heads and goes on by one link at a time. *)
LEMMA ReachedSteps ==
  ASSUME IInv
  PROVE  /\ Reached \in [Nat -> SUBSET FreeTags]
         /\ Reached[0] = Heads
         /\ \A k \in Nat : Reached[k + 1] = Onward[Reached[k]]
<1>1. PICK f \in [Nat -> SUBSET FreeTags] : f[0] = Heads /\ \A k \in Nat : f[k + 1] = Onward[f[k]]
  BY OnwardFree, Iteration
<1>2. ASSUME NEW k \in Nat
      PROVE  f[k] = IF k = 0 THEN {l_freePages[i] : i \in Exps} \ {NULL}
                    ELSE f[k - 1] \cup ({tag[t].next : t \in f[k - 1]} \ {NULL})
  <2>1. CASE k = 0
    BY <1>1, <2>1 DEF Heads
  <2>2. CASE k # 0
    <3>1. k - 1 \in Nat /\ (k - 1) + 1 = k
      BY <2>2
    <3>2. f[k] = Onward[f[k - 1]] /\ f[k - 1] \in SUBSET FreeTags
      BY <1>1, <3>1
    <3> QED BY <2>2, <3>2 DEF Onward
  <2> QED BY <2>1, <2>2
<1>3. f = [k \in Nat |->
             IF k = 0 THEN {l_freePages[i] : i \in Exps} \ {NULL}
             ELSE f[k - 1] \cup ({tag[t].next : t \in f[k - 1]} \ {NULL})]
  BY <1>1, <1>2
<1>4. Reached = [k \in Nat |->
                   IF k = 0 THEN {l_freePages[i] : i \in Exps} \ {NULL}
                   ELSE Reached[k - 1] \cup ({tag[t].next : t \in Reached[k - 1]} \ {NULL})]
  BY <1>3, Zenon DEF Reached
<1>5. ASSUME NEW k \in Nat
      PROVE  Reached[k] = IF k = 0 THEN {l_freePages[i] : i \in Exps} \ {NULL}
                          ELSE Reached[k - 1] \cup ({tag[t].next : t \in Reached[k - 1]} \ {NULL})
  BY <1>4, Zenon
<1>6. DOMAIN Reached = Nat
  BY <1>4, Zenon
<1> DEFINE S == {k \in Nat : Reached[k] # f[k]}
<1>7. S = {}
  <2>1. SUFFICES ASSUME S # {} PROVE FALSE
    OBVIOUS
  <2>2. PICK k \in S : \A l \in S : k <= l
    BY <2>1, LeastElement
  <2>3. k # 0
    <3>1. Reached[0] = f[0]
      BY <1>2, <1>5
    <3> QED BY <2>2, <3>1
  <2>4. k - 1 \in Nat /\ k - 1 \notin S
    BY <2>2, <2>3
  <2>5. Reached[k - 1] = f[k - 1]
    BY <2>4
  <2> QED BY <1>2, <1>5, <2>2, <2>3, <2>5
<1>8. Reached = f
  <2>1. \A k \in Nat : Reached[k] = f[k]
    BY <1>7
  <2>2. Reached = [k \in Nat |-> Reached[k]]
    BY <1>4, Zenon
  <2>3. f = [k \in Nat |-> f[k]]
    OBVIOUS
  <2>4. [k \in Nat |-> Reached[k]] = [k \in Nat |-> f[k]]
    BY <2>1, Zenon
  <2> QED BY <2>2, <2>3, <2>4, Zenon
<1> QED BY <1>1, <1>8, Zenon

(* Where nothing is added any more, every free block was reached: the others were
   closed under prev. *)
LEMMA ReachedAll ==
  ASSUME IInv, ListsEnd, NEW X \in SUBSET FreeTags, Heads \subseteq X, Onward[X] = X
  PROVE  X = FreeTags
<1>1. LinkedIn(tag, l_freePages) /\ Tags(tag)
  BY Parts
<1>2. SUFFICES ASSUME FreeTags \ X # {} PROVE FALSE
  OBVIOUS
<1>3. FreeTags \ X \in SUBSET DOMAIN tag
  BY DEF FreeTags
<1>4. PICK t \in FreeTags \ X : tag[t].prev \notin FreeTags \ X
  BY <1>2, <1>3 DEF ListsEnd, EndsIn
<1>5. /\ t \in DOMAIN tag /\ tag[t].index >= 0 /\ tag[t].index \in Exps
      /\ t # NULL
  BY <1>1, TagTypes DEF FreeTags, IsFree, NULL
<1>6. CASE tag[t].prev = NULL
  <2>1. l_freePages[tag[t].index] = t
    BY <1>1, <1>5, <1>6 DEF LinkedIn
  <2> QED BY <1>4, <1>5, <2>1 DEF Heads
<1>7. CASE tag[t].prev # NULL
  <2>1. /\ tag[t].prev \in DOMAIN tag /\ tag[tag[t].prev].next = t
        /\ tag[tag[t].prev].index = tag[t].index
    BY <1>1, <1>5, <1>7 DEF LinkedIn
  <2>2. tag[t].prev \in X
    BY <1>4, <1>5, <2>1 DEF FreeTags, IsFree
  <2>3. t \in Onward[X]
    BY <1>5, <2>1, <2>2 DEF Onward
  <2> QED BY <1>4, <2>3
<1> QED BY <1>6, <1>7

(* With every link at least one more block is reached, until all are. *)
LEMMA ReachedGrows ==
  ASSUME IInv, ListsEnd
  PROVE  \A k \in Nat : /\ Heads \subseteq Reached[k]
                        /\ Reached[k] = FreeTags \/ Cardinality(Reached[k]) >= k
<1> DEFINE Good(k) == /\ Heads \subseteq Reached[k]
                      /\ Reached[k] = FreeTags \/ Cardinality(Reached[k]) >= k
           S == {k \in Nat : ~Good(k)}
<1>1. SUFFICES ASSUME S # {} PROVE FALSE
  OBVIOUS
<1>2. PICK k \in S : \A l \in S : k <= l
  BY <1>1, LeastElement
<1>3. IsFiniteSet(FreeTags)
  <2>1. FreeTags \subseteq DOMAIN tag
    BY DEF FreeTags
  <2> QED BY <2>1, FS_Subset DEF ListsEnd
<1>4. \A j \in Nat : Reached[j] \in SUBSET FreeTags /\ IsFiniteSet(Reached[j])
  BY <1>3, ReachedSteps, FS_Subset
<1>5. k # 0
  <2>1. Cardinality(Reached[0]) \in Nat
    BY <1>4, FS_CardinalityType
  <2>2. Good(0)
    BY <2>1, ReachedSteps
  <2> QED BY <1>2, <2>2
<1>6. k - 1 \in Nat /\ k - 1 \notin S /\ (k - 1) + 1 = k
  BY <1>2, <1>5
<1>7. Good(k - 1)
  BY <1>6
<1>8. Reached[k] = Onward[Reached[k - 1]]
  BY <1>6, ReachedSteps
<1>9. Reached[k - 1] \subseteq Reached[k]
  BY <1>4, <1>6, <1>8 DEF Onward
<1>10. Reached[k] \in SUBSET FreeTags
  BY <1>2, <1>4
<1>11. CASE Reached[k - 1] = FreeTags
  <2>1. Reached[k] = FreeTags
    BY <1>9, <1>10, <1>11
  <2>2. Good(k)
    BY <1>7, <1>9, <2>1
  <2> QED BY <1>2, <2>2
<1>12. CASE Reached[k - 1] # FreeTags
  <2>1. Reached[k] # Reached[k - 1]
    BY <1>4, <1>6, <1>7, <1>8, <1>12, ReachedAll
  <2>2. IsFiniteSet(Reached[k]) /\ IsFiniteSet(Reached[k - 1])
    BY <1>2, <1>4, <1>6
  <2>3. /\ Cardinality(Reached[k]) \in Nat /\ Cardinality(Reached[k - 1]) \in Nat
        /\ Cardinality(Reached[k - 1]) <= Cardinality(Reached[k])
        /\ Cardinality(Reached[k - 1]) # Cardinality(Reached[k])
    BY <1>9, <2>1, <2>2, FS_Subset, FS_CardinalityType
  <2>4. Cardinality(Reached[k]) >= k
    BY <1>2, <1>6, <1>7, <1>12, <2>3
  <2>5. Good(k)
    BY <1>7, <1>9, <2>4
  <2> QED BY <1>2, <2>5
<1> QED BY <1>11, <1>12

(* malloc, which follows the links from the head of one list, can come to every
   free block, and to none that is in use. *)
THEOREM FreeBlocksReachable == Spec => []FreeReachable
<1>1. IInv /\ ListsEnd => FreeReachable
  <2> SUFFICES ASSUME IInv, ListsEnd PROVE FreeReachable
    OBVIOUS
  <2> DEFINE n == Cardinality(DOMAIN tag)
  <2>1. IsFiniteSet(DOMAIN tag) /\ n \in Nat
    BY FS_CardinalityType DEF ListsEnd
  <2>2. Reached[n] = FreeTags \/ Cardinality(Reached[n]) >= n
    BY <2>1, ReachedGrows
  <2>3. Reached[n] \subseteq FreeTags /\ FreeTags \subseteq DOMAIN tag
    BY <2>1, ReachedSteps DEF FreeTags
  <2>4. CASE Cardinality(Reached[n]) >= n
    <3>1. IsFiniteSet(Reached[n]) /\ Cardinality(Reached[n]) <= n
          /\ (Cardinality(Reached[n]) = n => Reached[n] = DOMAIN tag)
      BY <2>1, <2>3, FS_Subset
    <3>2. Cardinality(Reached[n]) \in Nat
      BY <3>1, FS_CardinalityType
    <3>3. Reached[n] = DOMAIN tag
      BY <2>1, <2>4, <3>1, <3>2
    <3> QED BY <2>3, <3>3 DEF FreeReachable, FreeTags
  <2> QED BY <2>2, <2>4 DEF FreeReachable, FreeTags
<1> QED BY <1>1, Invariance, ListsNeverLoop, PTL
=============================================================================
