------------------------------ MODULE Liballoc ------------------------------
(***************************************************************************)
(* The kernel's malloc/free/calloc/realloc (arch/i386/mem/liballoc.c).     *)
(*                                                                         *)
(* Memory obtained from liballoc_alloc is cut into blocks; each begins     *)
(* with a boundary_tag.  `tag' maps the address of every current tag to    *)
(* its record, so that a block that is melted into a neighbour leaves the  *)
(* domain.  Tags of one page run are chained by split_left/split_right in  *)
(* address order, free tags are chained by next/prev in the list of their  *)
(* size class.                                                             *)
(*                                                                         *)
(* A call holds the lock (interrupts off) from its start to its return.    *)
(* Every iteration of its loops is one step here; pc says where the holder *)
(* is, and no other context enters while pc # "idle".  calloc and realloc  *)
(* take the lock several times: `client' is what such a call remembers     *)
(* between two locked sections, where other contexts may run.              *)
(***************************************************************************)
EXTENDS Integers, FiniteSets

CONSTANTS
  HDR,            \* sizeof(struct boundary_tag)
  PageSize,       \* l_pageSize
  PageCount,      \* l_pageCount
  MINEXP, MAXEXP, MAXCOMPLETE,
  Sizes,          \* request sizes that are tried
  MaxPages,       \* pages 1..MaxPages can be handed out by liballoc_alloc
  MaxLive,        \* bound: no new malloc while this many blocks are owned
  Contexts        \* callers: the boot context, interrupt handlers

NULL == 0

(* Sizes leave room for the header arithmetic: no sum wraps around. *)
ASSUME LiballocAssumption ==
  /\ HDR \in Nat \ {0} /\ PageSize \in Nat \ {0} /\ PageCount \in Nat \ {0}
  /\ MINEXP \in Nat /\ MAXEXP \in Nat /\ MINEXP < MAXEXP
  /\ MAXCOMPLETE \in Nat
  /\ Sizes \subseteq Nat
  /\ MaxPages \in Nat
  /\ MaxLive \in Nat

VARIABLES
  tag,              \* address of a current tag -> struct boundary_tag
  l_freePages,      \* size class -> first tag of its list, or NULL
  l_completePages,  \* size class -> number of whole free runs in its list
  runs,             \* base -> pages: the runs liballoc_alloc handed out
  live,             \* pointer -> size: the blocks callers own
  pc,               \* where the holder of the lock is, "idle" if unlocked
  cur,              \* its local variable `tag'
  req,              \* its argument `size'
  who,              \* the context that holds the lock
  client            \* what an unfinished calloc or realloc remembers

alloc_vars == <<tag, l_freePages, l_completePages, runs>>
vars == <<tag, l_freePages, l_completePages, runs, live, pc, cur, req, who, client>>

-----------------------------------------------------------------------------
(* Helper functions of liballoc.c.  T stands for a `tag' function and F    *)
(* for a `l_freePages' array.                                              *)

(* The loop stops at the first shift with 2^shift > size, or at MAXEXP. *)
FirstShift(size) ==
  CHOOSE s \in MINEXP..MAXEXP :
     /\ s = MAXEXP \/ 2^s > size
     /\ \A r \in MINEXP..(s - 1) : ~(2^r > size)

getexp(size) == IF size < 2^MINEXP THEN -1 ELSE FirstShift(size) - 1

(* The list a size belongs to: getexp, but at least MINEXP. *)
ListIndex(size) == IF getexp(size) < MINEXP THEN MINEXP ELSE getexp(size)

insert_tag(T, F, t, i) ==
  [u \in DOMAIN T |->
     [T[u] EXCEPT !.index = IF u = t THEN i ELSE @,
                  !.next  = IF u = t /\ F[i] # NULL THEN F[i] ELSE @,
                  !.prev  = IF u = F[i] THEN t ELSE @]]

remove_tag(T, t) ==
  [u \in DOMAIN T |->
     [T[u] EXCEPT !.index = IF u = t THEN -1 ELSE @,
                  !.next  = IF u = t THEN NULL
                            ELSE IF u = T[t].prev THEN T[t].next ELSE @,
                  !.prev  = IF u = t THEN NULL
                            ELSE IF u = T[t].next THEN T[t].prev ELSE @]]

(* Mutant of Unlisted: the list is emptied. *)
Unlisted_clears(T, F, t) ==
  [F EXCEPT ![T[t].index] = IF @ = t THEN NULL ELSE @]

(* What remove_tag does to the head of the list of t. *)
Unlisted(T, F, t) ==
  [F EXCEPT ![T[t].index] = IF @ = t THEN T[t].next ELSE @]

(* Mutant of melt_left: the block on the other side keeps its old left link. *)
melt_left_no_back_link(T, t) ==
  LET left == T[t].split_left
  IN  [u \in DOMAIN T \ {t} |->
         [T[u] EXCEPT
            !.real_size   = IF u = left THEN @ + T[t].real_size ELSE @,
            !.split_right = IF u = left THEN T[t].split_right ELSE @]]

(* The left neighbour takes over the block t, whose tag is gone. *)
melt_left(T, t) ==
  LET left == T[t].split_left
  IN  [u \in DOMAIN T \ {t} |->
         [T[u] EXCEPT
            !.real_size   = IF u = left THEN @ + T[t].real_size ELSE @,
            !.split_right = IF u = left THEN T[t].split_right ELSE @,
            !.split_left  = IF u = T[t].split_right THEN left ELSE @]]

(* t takes over its right neighbour, which is taken off its list first. *)
absorb_right(T, t) ==
  LET right == T[t].split_right
  IN  melt_left(remove_tag(T, right), right)

(* The new tag behind the payload of t.  size is written by the next malloc
   that takes the block and not read before; 0 stands for that. *)
SplitOff(T, t) ==
  LET new == t + HDR + T[t].size
      rem == T[t].real_size - HDR - T[t].size
  IN  [u \in DOMAIN T \cup {new} |->
         IF u = new
         THEN [size |-> 0, real_size |-> rem, index |-> -1,
               split_left |-> t, split_right |-> T[t].split_right,
               next |-> NULL, prev |-> NULL]
         ELSE [T[u] EXCEPT
                 !.real_size   = IF u = t THEN @ - rem ELSE @,
                 !.split_right = IF u = t THEN new ELSE @,
                 !.split_left  = IF u = T[t].split_right THEN new ELSE @]]

(* Mutant of PagesFor: no room for the header. *)
PagesFor_no_header(size) ==
  LET pages == size \div PageSize + (IF size % PageSize # 0 THEN 1 ELSE 0)
  IN  IF pages < PageCount THEN PageCount ELSE pages

(* Pages of a new run for a request. *)
PagesFor(size) ==
  LET usage == size + HDR
      pages == usage \div PageSize + (IF usage % PageSize # 0 THEN 1 ELSE 0)
  IN  IF pages < PageCount THEN PageCount ELSE pages

-----------------------------------------------------------------------------
(* liballoc_alloc, by its contract in liballoc.h: a run of free pages. *)
FreeRun(b, n) ==
  /\ b \div PageSize + n <= MaxPages + 1
  /\ \A r \in DOMAIN runs : b + n * PageSize <= r \/ r + runs[r] * PageSize <= b

Idle == [op |-> "none", ph |-> "none", p |-> NULL, n |-> 0, len |-> 0, ptr |-> NULL]

Init ==
  /\ tag = [t \in {} |-> 0]
  /\ l_freePages = [i \in MINEXP..(MAXEXP - 1) |-> NULL]
  /\ l_completePages = [i \in MINEXP..(MAXEXP - 1) |-> 0]
  /\ runs = [b \in {} |-> 0]
  /\ live = [p \in {} |-> 0]
  /\ pc = "idle" /\ cur = NULL /\ req = 0
  /\ who \in Contexts
  /\ client = [c \in Contexts |-> Idle]

-----------------------------------------------------------------------------
(* malloc: lock, pick the list, walk it, take a tag or make one, split.    *)

MallocStart(c, n) ==
  /\ pc = "idle"
  /\ pc' = "search" /\ who' = c /\ req' = n
  /\ cur' = l_freePages[ListIndex(n)]
  /\ UNCHANGED <<tag, l_freePages, l_completePages, runs, live>>

Malloc(c, n) ==
  /\ client[c].op = "none"
  /\ Cardinality(DOMAIN live) < MaxLive
  /\ MallocStart(c, n)
  /\ UNCHANGED client

(* Mutant of BigEnough: the first block of the list is always taken. *)
BigEnough_always(t) == TRUE

(* The test of the walk: the block must hold the request and a second tag. *)
BigEnough(t) == tag[t].real_size - HDR >= req + HDR

(* Mutant of SearchNext: the walk does not advance. *)
SearchNext_stays ==
  /\ pc = "search" /\ cur # NULL
  /\ ~BigEnough(cur)
  /\ UNCHANGED vars

SearchNext ==
  /\ pc = "search" /\ cur # NULL
  /\ ~BigEnough(cur)
  /\ cur' = tag[cur].next
  /\ UNCHANGED <<alloc_vars, live, pc, req, who, client>>

(* Mutant of SearchTake: l_completePages is not counted down. *)
SearchTake_no_count ==
  /\ pc = "search" /\ cur # NULL
  /\ BigEnough(cur)
  /\ LET T == remove_tag(tag, cur)
     IN  tag' = [T EXCEPT ![cur].size = req]
  /\ l_freePages' = Unlisted(tag, l_freePages, cur)
  /\ pc' = "carve"
  /\ UNCHANGED <<l_completePages, runs, live, cur, req, who, client>>

SearchTake ==
  /\ pc = "search" /\ cur # NULL
  /\ BigEnough(cur)
  /\ LET T == remove_tag(tag, cur)
     IN  tag' = [T EXCEPT ![cur].size = req]
  /\ l_freePages' = Unlisted(tag, l_freePages, cur)
  /\ l_completePages' =
       IF tag[cur].split_left = NULL /\ tag[cur].split_right = NULL
       THEN [l_completePages EXCEPT ![ListIndex(req)] = @ - 1]
       ELSE l_completePages
  /\ pc' = "carve"
  /\ UNCHANGED <<runs, live, cur, req, who, client>>

(* allocate_new_tag with the run at base b *)
NewTag(b) ==
  LET n == PagesFor(req)
  IN  /\ pc = "search" /\ cur = NULL
      /\ FreeRun(b, n)
      /\ runs' = [r \in DOMAIN runs \cup {b} |-> IF r = b THEN n ELSE runs[r]]
      /\ tag' = [t \in DOMAIN tag \cup {b} |->
                   IF t = b
                   THEN [size |-> req, real_size |-> n * PageSize, index |-> -1,
                         split_left |-> NULL, split_right |-> NULL,
                         next |-> NULL, prev |-> NULL]
                   ELSE tag[t]]
      /\ cur' = b
      /\ pc' = "carve"
      /\ UNCHANGED <<l_freePages, l_completePages, live, req, who, client>>

(* Mutant of Return: the caller waits until malloc has a block for it. *)
Return_not_null(ptr) ==
  client' = IF client[who].op = "none" \/ ptr = NULL THEN client
            ELSE [client EXCEPT ![who].ph = "write", ![who].ptr = ptr]

(* malloc returns ptr to its caller; a calloc or realloc goes on with it. *)
Return(ptr) ==
  client' = IF client[who].op = "none" THEN client
            ELSE [client EXCEPT ![who].ph = "write", ![who].ptr = ptr]

(* liballoc_alloc has no pages to give: malloc returns NULL. *)
NoPages ==
  /\ pc = "search" /\ cur = NULL
  /\ pc' = "idle" /\ req' = 0
  /\ Return(NULL)
  /\ UNCHANGED <<alloc_vars, live, cur, who>>

(* The part of the block behind the request, less one header. *)
Remainder == tag[cur].real_size - req - HDR * 2

Splittable == Remainder > 0 /\ getexp(Remainder) >= 0

MallocReturn ==
  /\ live' = [p \in DOMAIN live \cup {cur + HDR} |->
                IF p = cur + HDR THEN req ELSE live[p]]
  /\ pc' = "idle" /\ cur' = NULL /\ req' = 0
  /\ Return(cur + HDR)
  /\ UNCHANGED <<l_completePages, runs, who>>

CarveSplit ==
  /\ pc = "carve"
  /\ Splittable
  /\ LET new == cur + HDR + tag[cur].size
         T   == SplitOff(tag, cur)
         i   == ListIndex(T[new].real_size - HDR)
     IN  /\ tag' = insert_tag(T, l_freePages, new, i)
         /\ l_freePages' = [l_freePages EXCEPT ![i] = new]
  /\ MallocReturn

CarveWhole ==
  /\ pc = "carve"
  /\ ~Splittable
  /\ UNCHANGED <<tag, l_freePages>>
  /\ MallocReturn

-----------------------------------------------------------------------------
(* free: lock, melt with free neighbours, keep the block or return the run *)

(* Pointers some unfinished call still works on. *)
Claimed == {client[c].p : c \in Contexts} \cup {client[c].ptr : c \in Contexts}

(* The block is its owner's until here; its size field is not read again. *)
FreeStart(c, p) ==
  /\ pc = "idle"
  /\ pc' = "melt_left" /\ who' = c
  /\ cur' = p - HDR
  /\ tag' = [tag EXCEPT ![p - HDR].size = 0]
  /\ live' = [q \in DOMAIN live \ {p} |-> live[q]]
  /\ UNCHANGED <<l_freePages, l_completePages, runs, req>>

Free(c, p) ==
  /\ client[c].op = "none"
  /\ p \in DOMAIN live \ Claimed
  /\ FreeStart(c, p)
  /\ UNCHANGED client

IsFree(t) == tag[t].index >= 0
LeftFree  == tag[cur].split_left # NULL /\ IsFree(tag[cur].split_left)

RightFree == tag[cur].split_right # NULL /\ IsFree(tag[cur].split_right)

MeltLeft ==
  /\ pc = "melt_left"
  /\ LeftFree
  /\ LET left == tag[cur].split_left
     IN  /\ tag' = remove_tag(melt_left(tag, cur), left)
         /\ l_freePages' = Unlisted(tag, l_freePages, left)
         /\ cur' = left
  /\ UNCHANGED <<l_completePages, runs, live, pc, req, who, client>>

MeltLeftDone ==
  /\ pc = "melt_left"
  /\ ~LeftFree
  /\ pc' = "melt_right"
  /\ UNCHANGED <<alloc_vars, live, cur, req, who, client>>

MeltRight ==
  /\ pc = "melt_right"
  /\ RightFree
  /\ tag' = absorb_right(tag, cur)
  /\ l_freePages' = Unlisted(tag, l_freePages, tag[cur].split_right)
  /\ UNCHANGED <<l_completePages, runs, live, pc, cur, req, who, client>>

(* A whole, empty block: nothing is left of its run but this tag. *)
Complete(t) == tag[t].split_left = NULL /\ tag[t].split_right = NULL

FreeIndex == ListIndex(tag[cur].real_size - HDR)

(* The block goes back to a list, and is counted if it is a whole run. *)
PutBack ==
  /\ pc = "melt_right"
  /\ ~RightFree
  /\ Complete(cur) => l_completePages[FreeIndex] # MAXCOMPLETE
  /\ l_completePages' = IF Complete(cur)
                        THEN [l_completePages EXCEPT ![FreeIndex] = @ + 1]
                        ELSE l_completePages
  /\ tag' = insert_tag(tag, l_freePages, cur, FreeIndex)
  /\ l_freePages' = [l_freePages EXCEPT ![FreeIndex] = cur]
  /\ pc' = "idle" /\ cur' = NULL
  /\ UNCHANGED <<runs, live, req, who, client>>

(* Mutant of PagesOf: rounded up even when nothing is left over. *)
PagesOf_plus_one(t) == tag[t].real_size \div PageSize + 1

(* The pages the code computes for liballoc_free. *)
PagesOf(t) ==
  LET pages == tag[t].real_size \div PageSize
               + (IF tag[t].real_size % PageSize # 0 THEN 1 ELSE 0)
  IN  IF pages < PageCount THEN PageCount ELSE pages

(* Too many whole runs are standing by: this one goes to liballoc_free, which
   takes the pages base .. base+PagesOf-1 out of what was handed out. *)
Release ==
  /\ pc = "melt_right"
  /\ ~RightFree
  /\ Complete(cur)
  /\ l_completePages[FreeIndex] = MAXCOMPLETE
  /\ runs' = [r \in DOMAIN runs \ {cur} |-> runs[r]]
  /\ tag' = [t \in DOMAIN tag \ {cur} |-> tag[t]]
  /\ pc' = "idle" /\ cur' = NULL
  /\ UNCHANGED <<l_freePages, l_completePages, live, req, who, client>>

-----------------------------------------------------------------------------
(* calloc and realloc: what they do between their locked sections.         *)

Calloc(c, n) ==
  /\ client[c].op = "none"
  /\ Cardinality(DOMAIN live) < MaxLive
  /\ MallocStart(c, n)
  /\ client' = [client EXCEPT ![c] = [op |-> "calloc", ph |-> "malloc", p |-> NULL,
                                      n |-> n, len |-> n, ptr |-> NULL]]

(* liballoc_memset of the block, or of address NULL if malloc failed *)
CallocClear(c) ==
  /\ client[c].op = "calloc" /\ client[c].ph = "write"
  /\ client' = [client EXCEPT ![c] = Idle]
  /\ UNCHANGED <<alloc_vars, live, pc, cur, req, who>>

(* Mutant of ReallocLookup: the length is not cut to the new size. *)
ReallocLookup_old_size(c, p, n) ==
  /\ client[c].op = "none"
  /\ Cardinality(DOMAIN live) < MaxLive
  /\ n # 0
  /\ pc = "idle"
  /\ p \in DOMAIN live \ Claimed
  /\ client' = [client EXCEPT ![c] =
                  [op |-> "realloc", ph |-> "lookup", p |-> p, n |-> n,
                   len |-> tag[p - HDR].size, ptr |-> NULL]]
  /\ UNCHANGED <<alloc_vars, live, pc, cur, req, who>>

(* The old size is read under the lock, which is then dropped. *)
ReallocLookup(c, p, n) ==
  /\ client[c].op = "none"
  /\ Cardinality(DOMAIN live) < MaxLive
  /\ n # 0
  /\ pc = "idle"
  /\ p \in DOMAIN live \ Claimed
  /\ LET size == tag[p - HDR].size
     IN  client' = [client EXCEPT ![c] =
                      [op |-> "realloc", ph |-> "lookup", p |-> p, n |-> n,
                       len |-> IF size > n THEN n ELSE size, ptr |-> NULL]]
  /\ UNCHANGED <<alloc_vars, live, pc, cur, req, who>>

ReallocMalloc(c) ==
  /\ client[c].op = "realloc" /\ client[c].ph = "lookup"
  /\ MallocStart(c, client[c].n)
  /\ client' = [client EXCEPT ![c].ph = "malloc"]

(* liballoc_memcpy to the result of malloc, NULL or not, and free(p). *)
ReallocFree(c) ==
  /\ client[c].op = "realloc" /\ client[c].ph = "write"
  /\ FreeStart(c, client[c].p)
  /\ client' = [client EXCEPT ![c] = Idle]

-----------------------------------------------------------------------------
PageBases == {i * PageSize : i \in 1..MaxPages}

(* The steps of the holder of the lock. *)
LockedStep ==
  \/ SearchNext \/ SearchTake \/ NoPages
  \/ \E b \in PageBases : NewTag(b)
  \/ CarveSplit \/ CarveWhole
  \/ MeltLeft \/ MeltLeftDone \/ MeltRight \/ PutBack \/ Release

(* An unfinished calloc or realloc goes on. *)
Continue(c) == CallocClear(c) \/ ReallocMalloc(c) \/ ReallocFree(c)

Next ==
  \/ LockedStep
  \/ \E c \in Contexts :
       \/ \E n \in Sizes : Malloc(c, n) \/ Calloc(c, n)
       \/ \E p \in DOMAIN live : Free(c, p)
       \/ \E p \in DOMAIN live, n \in Sizes : ReallocLookup(c, p, n)
       \/ Continue(c)

Spec == Init /\ [][Next]_vars

(* Code that holds the lock runs with interrupts off to its end; a context in
   the middle of a call goes on when the processor returns to it. *)
Fairness == WF_vars(LockedStep) /\ \A c \in Contexts : SF_vars(Continue(c))

FairSpec == Spec /\ Fairness

-----------------------------------------------------------------------------
(* Properties.                                                             *)

Exps  == MINEXP..(MAXEXP - 1)
Phase == {"idle", "search", "carve", "melt_left", "melt_right"}

TagRecord ==
  [size : Nat, real_size : Nat, index : {-1} \cup Exps,
   split_left : Nat, split_right : Nat, next : Nat, prev : Nat]

ClientRecord ==
  [op : {"none", "calloc", "realloc"}, ph : {"none", "lookup", "malloc", "write"},
   p : Nat, n : Nat, len : Nat, ptr : Nat]

(* The kinds of values the variables hold. *)
TypeOK ==
  /\ DOMAIN tag \subseteq Nat \ {0} /\ tag \in [DOMAIN tag -> TagRecord]
  /\ l_freePages \in [Exps -> Nat]
  /\ l_completePages \in [Exps -> Int]
  /\ DOMAIN runs \subseteq Nat \ {0} /\ runs \in [DOMAIN runs -> Nat \ {0}]
  /\ DOMAIN live \subseteq Nat \ {0} /\ live \in [DOMAIN live -> Nat]
  /\ pc \in Phase /\ cur \in Nat /\ req \in Nat /\ who \in Contexts
  /\ client \in [Contexts -> ClientRecord]

(* split_left and split_right (split_tag, melt_left, absorb_right) chain the
   blocks of a run: a right neighbour starts where the block ends, and the two
   links of neighbours point at each other. *)
SplitChain ==
  \A t \in DOMAIN tag :
    /\ tag[t].split_right # NULL =>
         /\ tag[t].split_right \in DOMAIN tag
         /\ tag[t].split_right = t + tag[t].real_size
         /\ tag[tag[t].split_right].split_left = t
    /\ tag[t].split_left # NULL =>
         /\ tag[t].split_left \in DOMAIN tag
         /\ tag[tag[t].split_left].split_right = t

(* The block of t lies in the run at b, and has no neighbour on a side exactly
   when it reaches the end of the run on that side. *)
Inside(t, b) ==
  /\ b <= t /\ t + tag[t].real_size <= b + runs[b] * PageSize
  /\ tag[t].split_left = NULL <=> t = b
  /\ tag[t].split_right = NULL <=> t + tag[t].real_size = b + runs[b] * PageSize

(* The blocks are cut out of the runs liballoc_alloc handed out and never
   overlap, whatever split_tag, melt_left and absorb_right did to them. *)
BlocksInRuns ==
  /\ \A t \in DOMAIN tag :
       /\ tag[t].real_size >= HDR
       /\ \E b \in DOMAIN runs : Inside(t, b)
  /\ \A t, u \in DOMAIN tag :
       t # u => t + tag[t].real_size <= u \/ u + tag[u].real_size <= t

(* insert_tag and remove_tag keep the lists doubly linked: a head has no
   predecessor, neighbours in a list point at each other and are in the same
   list, and a tag that is off the lists has no links left (insert_tag relies
   on that, it sets next only if the list is not empty). *)
ListsLinked ==
  /\ \A i \in Exps : l_freePages[i] # NULL =>
       /\ l_freePages[i] \in DOMAIN tag
       /\ tag[l_freePages[i]].index = i
       /\ tag[l_freePages[i]].prev = NULL
  /\ \A t \in DOMAIN tag :
       /\ ~IsFree(t) => tag[t].next = NULL /\ tag[t].prev = NULL
       /\ IsFree(t) => (tag[t].prev = NULL <=> l_freePages[tag[t].index] = t)
       /\ tag[t].next # NULL =>
            /\ tag[t].next \in DOMAIN tag
            /\ tag[tag[t].next].prev = t
            /\ tag[tag[t].next].index = tag[t].index
       /\ tag[t].prev # NULL =>
            /\ tag[t].prev \in DOMAIN tag
            /\ tag[tag[t].prev].next = t
            /\ tag[tag[t].prev].index = tag[t].index

(* The tags within k links of a list head. *)
Reached[k \in Nat] ==
  IF k = 0
  THEN {l_freePages[i] : i \in Exps} \ {NULL}
  ELSE Reached[k - 1] \cup ({tag[t].next : t \in Reached[k - 1]} \ {NULL})

(* malloc can reach every free block from the head of a list, and nothing else:
   no wrong link of insert_tag or remove_tag loses a block to the allocator. *)
FreeReachable ==
  Reached[Cardinality(DOMAIN tag)] = {t \in DOMAIN tag : IsFree(t)}

(* A free block is in the list of its size class (free, insert_tag), so that
   malloc, which searches one list only, can find it. *)
ListedBySize ==
  \A t \in DOMAIN tag : IsFree(t) => tag[t].index = ListIndex(tag[t].real_size - HDR)

(* free melts completely: two neighbouring blocks are never both free. *)
Coalesced ==
  \A t \in DOMAIN tag :
    IsFree(t) /\ tag[t].split_right # NULL => ~IsFree(tag[t].split_right)

(* l_completePages counts the whole free runs of each list exactly, so that at
   most MAXCOMPLETE of them stand by. *)
CompleteExact ==
  \A i \in Exps :
    /\ l_completePages[i] =
         Cardinality({t \in DOMAIN tag : tag[t].index = i /\ Complete(t)})
    /\ l_completePages[i] <= MAXCOMPLETE

(* When free gives a run back, the address and the number of pages are those of
   the liballoc_alloc call the run came from (the comment of liballoc_free). *)
ReleaseExact ==
  pc = "melt_right" /\ ~RightFree /\ Complete(cur) =>
    cur \in DOMAIN runs /\ runs[cur] = PagesOf(cur)

(* The blocks callers own overlap neither each other nor any boundary tag, and
   lie in memory that was handed out. *)
LiveApart ==
  /\ \A p, q \in DOMAIN live : p # q => p + live[p] <= q \/ q + live[q] <= p
  /\ \A p \in DOMAIN live, t \in DOMAIN tag : p + live[p] <= t \/ t + HDR <= p
  /\ \A p \in DOMAIN live : \E b \in DOMAIN runs :
       b + HDR <= p /\ p + live[p] <= b + runs[b] * PageSize

(* Nothing leaks: a block that is neither free nor in the hands of the holder
   of the lock is owned by a caller, and the other way round. *)
Busy == IF pc \in {"carve", "melt_left", "melt_right"} THEN {cur} ELSE {}

NoLeak ==
  /\ \A t \in DOMAIN tag : ~IsFree(t) /\ t \notin Busy => t + HDR \in DOMAIN live
  /\ \A p \in DOMAIN live :
       /\ p - HDR \in DOMAIN tag /\ p - HDR \notin Busy
       /\ ~IsFree(p - HDR)
       /\ tag[p - HDR].size = live[p]
       /\ HDR + live[p] <= tag[p - HDR].real_size

(* realloc copies `len' bytes, computed before the lock was dropped; when it
   copies, both blocks are still there and that long, whatever other contexts
   did in between. *)
CopyInBounds ==
  \A c \in Contexts : client[c].op = "realloc" =>
    /\ client[c].p \in DOMAIN live /\ client[c].len <= live[client[c].p]
    /\ client[c].ph = "write" /\ client[c].ptr # NULL =>
         /\ client[c].ptr \in DOMAIN live \ {client[c].p}
         /\ client[c].len <= live[client[c].ptr]

(* Runs do not overlap, and have at least the pages allocate_new_tag asks for. *)
RunsApart ==
  /\ \A b, c \in DOMAIN runs :
       b # c => b + runs[b] * PageSize <= c \/ c + runs[c] * PageSize <= b
  /\ \A b \in DOMAIN runs : runs[b] >= PageCount

(* What the holder of the lock knows of its local variables: in the walk of
   malloc, between taking a block and splitting it, and in the loops of free. *)
HolderOK ==
  /\ pc = "search" =>
       /\ req \in Sizes
       /\ cur # NULL => cur \in DOMAIN tag /\ tag[cur].index = ListIndex(req)
  /\ pc \in {"carve", "melt_left", "melt_right"} => cur \in DOMAIN tag /\ ~IsFree(cur)
  /\ pc = "carve" =>
       /\ req \in Sizes /\ tag[cur].size = req /\ HDR + req <= tag[cur].real_size
       /\ ~LeftFree /\ ~RightFree
  /\ pc = "melt_right" => ~LeftFree

(* What an unfinished calloc or realloc knows: its request, its old block that
   no other call works on, and the block malloc returned. *)
ClientOK ==
  \A c \in Contexts :
    /\ client[c].op = "none" => client[c] = Idle
    /\ client[c].op # "none" =>
         /\ client[c].n \in Sizes /\ client[c].len <= client[c].n
         /\ client[c].ph # "write" => client[c].ptr = NULL
    /\ client[c].ph = "malloc" =>
         who = c /\ pc \in {"search", "carve"} /\ req = client[c].n
    /\ who = c /\ pc \in {"search", "carve"} =>
         client[c].op = "none" \/ client[c].ph = "malloc"
    /\ client[c].op = "realloc" =>
         /\ client[c].p \in DOMAIN live /\ client[c].len <= live[client[c].p]
         /\ \A d \in Contexts \ {c} :
              client[d].p # client[c].p /\ client[d].ptr # client[c].p
    /\ client[c].op = "realloc" /\ client[c].ptr # NULL =>
         /\ client[c].ptr \in DOMAIN live \ {client[c].p}
         /\ client[c].len <= live[client[c].ptr]

(* The inductive invariant: after every step of malloc, free, calloc and realloc
   the boundary tags chain neighbours inside runs that are apart, the lists hold
   exactly the free blocks of their size, no two neighbours are free, nothing
   leaks, and the local variables of unfinished calls still name blocks that are
   theirs. *)
IInv ==
  /\ TypeOK /\ RunsApart /\ SplitChain /\ BlocksInRuns /\ ListsLinked
  /\ ListedBySize /\ Coalesced /\ NoLeak /\ HolderOK /\ ClientOK

(* The callers see an allocator: every step is one of Allocator's or leaves the
   set of owned blocks unchanged. *)
Abstract == INSTANCE Allocator WITH live <- live, Sizes <- Sizes
Implements == Abstract!Spec

(* A call that took the lock gives it back: the walk along a list and the two
   melting loops end. *)
LockReleased == pc # "idle" ~> pc = "idle"

(* Every calloc and realloc returns. *)
CallsReturn == \A c \in Contexts : client[c].op # "none" ~> client[c].op = "none"

(* The standard realloc leaves the old block alone when it returns NULL. *)
FailedReallocKeepsBlock ==
  [][\A c \in Contexts :
       client[c].ph = "write" /\ client[c].ptr = NULL /\ client[c].op = "realloc" =>
         client[c].p \in DOMAIN live']_vars
=============================================================================
