------------------------------ MODULE ARSMemory ------------------------------
(***************************************************************************)
(* The frame allocator of the interpreter: src/Core/Memory.cpp, and the    *)
(* three instructions of src/Core/INTERPRETER.cpp that drive it (call,     *)
(* ret, hlt).  All tasks share one array, runMem, cut into blocks; a block *)
(* is a Magic header followed by its payload, and the headers carry two    *)
(* kinds of doubly linked list in the same two fields: the free list, and  *)
(* one list per task of the frames of its active subroutines.              *)
(*                                                                         *)
(* Every global of Memory.cpp is a field of one record, and every function *)
(* of Memory.cpp is an operator from that record to the record it leaves.  *)
(* Addresses are offsets into runMem.                                      *)
(***************************************************************************)
EXTENDS Integers, FiniteSets, Iteration

CONSTANTS
  Task,      \* the task slots 0 .. OS_MAX_TASK - 1
  OS_MAX_MEM,\* bytes of runMem
  HDR,       \* sizeof(Magic)
  CTX,       \* bytes of the return address kept at the start of a payload
  SLACK,     \* a fitting block with fewer spare bytes than this is not split
  Traced     \* addresses whose bytes are followed: all, or none where the
             \* contents of memory do not matter

ASSUME TaskAssumption  == IsFiniteSet(Task) /\ Task # {}
ASSUME SizesAssumption == /\ OS_MAX_MEM \in Nat \ {0} /\ HDR \in Nat \ {0}
                          /\ CTX \in Nat /\ SLACK \in Nat
\* A spare block must at least hold its own header (50 >= 21 in the code).
ASSUME SlackAssumption == HDR <= SLACK

NULL   == -1                       \* the null pointer; no offset is negative
Addr   == 0 .. OS_MAX_MEM - 1
Link   == Addr \cup {NULL}

ASSUME TracedAssumption == Traced \subseteq Addr

Header == [magic : {"SPLT", "FREE"}, id : Task, len : Nat,
           last : Link, next : Link]

Cells(a, n) == (a .. a + n - 1) \cap Traced
Without(f, a) == [x \in DOMAIN f \ {a} |-> f[x]]
With(f, a, v) == [x \in DOMAIN f \cup {a} |-> IF x = a THEN v ELSE f[x]]

(***************************************************************************)
(* m.hdr maps the address of each block to its header; m.nz is the set of  *)
(* traced addresses that may hold a non-zero byte.  m.alive[t] says        *)
(* CurCmd[t] # 0.                                                          *)
(***************************************************************************)
init_mem_info(cells) ==
  [hdr      |-> [a \in {} |-> NULL],
   nz       |-> cells,
   FreeHead |-> NULL, FreeTail |-> NULL, LastMEM |-> 0,
   MemHead  |-> [t \in Task |-> NULL],
   MemTail  |-> [t \in Task |-> NULL],
   MemLevel |-> [t \in Task |-> -1],
   alive    |-> [t \in Task |-> FALSE]]

Ends(m, a) == a + HDR + m.hdr[a].len            \* first address after block a
IsFree(m, a) == m.hdr[a].magic = "FREE"

(***************************************************************************)
(* Walks along next_block.  Walk(m, a, stop)[n] is where a scan that       *)
(* starts at a stands after n hops: at null, or at a block of stop.        *)
(***************************************************************************)
Hop(m, stop) ==
  [a \in DOMAIN m.hdr \cup {NULL} |->
     IF a = NULL \/ a \in stop THEN a ELSE m.hdr[a].next]
Hops(m) == Cardinality(DOMAIN m.hdr)
Walk(m, a, stop) == Iterate(Hop(m, stop), a)
Reached(m, a) == {Walk(m, a, {})[n] : n \in 0 .. Hops(m)} \ {NULL}
Listed(m) == Reached(m, m.FreeHead)

SetNext(hdr, a, v) == IF a = NULL THEN hdr ELSE [hdr EXCEPT ![a].next = v]
SetLast(hdr, a, v) == IF a = NULL THEN hdr ELSE [hdr EXCEPT ![a].last = v]

\* Mutant: a merge at the end of the list forgets FreeTail.
Relink_keepsTail(m, a, f, g) ==
  [m EXCEPT !.hdr = SetLast(SetNext(@, @[a].last, f), @[a].next, g),
            !.FreeHead = IF @ = a THEN f ELSE @]

\* Listed block a leaves the free list: the pointers to it from its left now
\* read f and those from its right g (its neighbours', or FreeHead and FreeTail).
Relink(m, a, f, g) ==
  [m EXCEPT !.hdr = SetLast(SetNext(@, @[a].last, f), @[a].next, g),
            !.FreeHead = IF @ = a THEN f ELSE @,
            !.FreeTail = IF @ = a THEN g ELSE @]

\* Mutant: the swallowed header keeps its bytes.
Erase_keepsBytes(m, a) == [m EXCEPT !.hdr = Without(@, a)]

\* The header at a is overwritten with zeros: a is a block no more.
Erase(m, a) == [m EXCEPT !.hdr = Without(@, a), !.nz = @ \ Cells(a, HDR)]

(***************************************************************************)
(* SuperFree, with what both its callers do when it asks to append: freed  *)
(* block b is merged with the listed blocks it touches, or goes to the     *)
(* tail of the list.                                                       *)
(***************************************************************************)
MergeBoth(m, p, b, s) ==
  LET grow == 2 * HDR + m.hdr[b].len + m.hdr[s].len
      cut  == Relink(m, s, m.hdr[s].next, m.hdr[s].last)
  IN  Erase(Erase([cut EXCEPT !.hdr[p].len = @ + grow], b), s)

MergePrev(m, p, b) ==
  Erase([m EXCEPT !.hdr[p].len = @ + HDR + m.hdr[b].len], b)

MergeNext(m, b, s) ==
  LET taken == [m.hdr[s] EXCEPT !.len = @ + HDR + m.hdr[b].len]
  IN  Erase([Relink(m, s, b, b) EXCEPT !.hdr[b] = taken], s)

AppendFree(m, b) ==
  [m EXCEPT !.hdr = [SetNext(@, m.FreeTail, b) EXCEPT ![b].next = NULL,
                                                      ![b].last = m.FreeTail],
            !.FreeHead = IF @ = NULL THEN b ELSE @,
            !.FreeTail = b]

\* Mutant: a block that closes a gap is merged with its predecessor only.
SuperFree_prevOnly(m, b) ==
  LET prev == {p \in Listed(m) : Ends(m, p) = b}
      next == {s \in Listed(m) : Ends(m, b) = s}
  IN  IF prev # {} THEN MergePrev(m, CHOOSE p \in prev : TRUE, b)
      ELSE IF next # {} THEN MergeNext(m, b, CHOOSE s \in next : TRUE)
      ELSE AppendFree(m, b)

\* Mutant: the neighbours are looked up in memory, not on the free list.
SuperFree_anyNeighbour(m, b) ==
  LET prev == {p \in DOMAIN m.hdr : Ends(m, p) = b}
  IN  IF prev # {} THEN MergePrev(m, CHOOSE p \in prev : TRUE, b)
      ELSE AppendFree(m, b)

SuperFree(m, b) ==
  LET prev == {p \in Listed(m) : Ends(m, p) = b}
      next == {s \in Listed(m) : Ends(m, b) = s}
      p == CHOOSE x \in prev : TRUE
      s == CHOOSE x \in next : TRUE
  IN  CASE prev # {} /\ next # {} -> MergeBoth(m, p, b, s)
        [] prev # {} /\ next = {} -> MergePrev(m, p, b)
        [] prev = {} /\ next # {} -> MergeNext(m, b, s)
        [] OTHER                  -> AppendFree(m, b)

\* One block of a task is given back: marked, its payload zeroed, listed.
Release(m, b) ==
  SuperFree([m EXCEPT !.hdr[b].magic = "FREE",
                      !.nz = @ \ Cells(b + HDR, m.hdr[b].len)], b)

(***************************************************************************)
(* ReArrangeMemAndTask: every frame of task t is released, oldest first,   *)
(* and the slot is reset.  A slot that owns nothing is left as it is.      *)
(***************************************************************************)
Frames(m, t) == Reached(m, m.MemHead[t])

ReleaseAll(m, t) ==
  LET frame == Walk(m, m.MemHead[t], {})
      count == Cardinality(Frames(m, t))
      freed[n \in 0 .. count] == IF n = 0 THEN m ELSE Release(freed[n - 1], frame[n - 1])
  IN  freed[count]

ReArrangeMemAndTask(m, t) ==
  IF m.MemHead[t] = NULL THEN m
  ELSE [ReleaseAll(m, t) EXCEPT !.alive[t] = FALSE,  !.MemHead[t] = NULL,
                                !.MemTail[t] = NULL, !.MemLevel[t] = -1]

(***************************************************************************)
(* DelLastFuncMem: the newest frame is unlinked from its caller's and      *)
(* released; the frame of a main program takes the whole task with it.     *)
(***************************************************************************)
\* Mutant: the caller's frame keeps pointing at the released one.
DelLastFuncMem_keepsNext(m, t) ==
  LET b == m.MemTail[t] IN
  IF b # NULL /\ m.MemLevel[t] > 0
  THEN [Release([m EXCEPT !.MemTail[t] = m.hdr[b].last], b) EXCEPT !.MemLevel[t] = @ - 1]
  ELSE ReArrangeMemAndTask(m, t)

DelLastFuncMem(m, t) ==
  LET b == m.MemTail[t]
      caller == m.hdr[b].last
      unlinked == [m EXCEPT !.hdr = SetNext(@, caller, NULL),
                            !.MemTail[t] = IF caller = NULL THEN @ ELSE caller]
  IN  CASE b = NULL -> m
        [] b # NULL /\ m.MemLevel[t] > 0 ->
             [Release(unlinked, b) EXCEPT !.MemLevel[t] = @ - 1]
        [] OTHER -> ReArrangeMemAndTask(m, t)

(***************************************************************************)
(* findFreeMemById: first fit along the free list, else fresh memory at    *)
(* LastMEM.  ttl is the payload asked for, the return address included.    *)
(***************************************************************************)
\* Mutant: the comparison the comment at Memory.cpp:357 warns of.
FirstFit_strict(m, ttl) ==
  LET fits == {a \in DOMAIN m.hdr : IsFree(m, a) /\ m.hdr[a].len > ttl}
  IN  Walk(m, m.FreeHead, fits)[Hops(m)]

FirstFit(m, ttl) ==
  LET fits == {a \in DOMAIN m.hdr : IsFree(m, a) /\ m.hdr[a].len >= ttl}
  IN  Walk(m, m.FreeHead, fits)[Hops(m)]

\* Mutant: the bound is off by one.
CanGrow_offByOne(m, ttl) == m.LastMEM + HDR + ttl <= OS_MAX_MEM

CanGrow(m, ttl) == m.LastMEM + HDR + ttl < OS_MAX_MEM
\* A running task that owns no frame is refused (NO_MEM_TAIL).
CanAllocate(m, t, ttl) ==
  /\ m.alive[t] => m.MemTail[t] # NULL
  /\ FirstFit(m, ttl) # NULL \/ CanGrow(m, ttl)

\* Block a of n bytes becomes the newest frame of t.
Own(m, t, a, n) ==
  LET caller == IF m.alive[t] THEN m.MemTail[t] ELSE NULL
      frame == [magic |-> "SPLT", id |-> t, len |-> n,
                last |-> caller, next |-> NULL]
  IN  [m EXCEPT !.hdr = With(SetNext(@, caller, a), a, frame),
                !.nz  = @ \cup Cells(a, HDR),
                !.MemHead[t] = IF m.alive[t] THEN @ ELSE a,
                !.MemTail[t] = a]

\* Mutant: the spare block's length forgets its own header.
Split_longRest(m, a, ttl) ==
  LET spare == a + HDR + ttl
      rest  == [m.hdr[a] EXCEPT !.len = @ - ttl]
      cut   == Relink(m, a, spare, spare)
  IN  [cut EXCEPT !.hdr = With(@, spare, rest), !.nz = @ \cup Cells(spare, HDR)]

\* Mutant: the spare block begins inside the frame.
Split_early(m, a, ttl) ==
  LET spare == a + ttl
      rest  == [m.hdr[a] EXCEPT !.len = @ - ttl]
      cut   == Relink(m, a, spare, spare)
  IN  [cut EXCEPT !.hdr = With(@, spare, rest), !.nz = @ \cup Cells(spare, HDR)]

\* What is left of listed block a beyond its first ttl bytes is a block itself
\* and takes a's place in the list.
Split(m, a, ttl) ==
  LET spare == a + HDR + ttl
      rest  == [m.hdr[a] EXCEPT !.len = @ - ttl - HDR]
      cut   == Relink(m, a, spare, spare)
  IN  [cut EXCEPT !.hdr = With(@, spare, rest), !.nz = @ \cup Cells(spare, HDR)]

findFreeMemById(m, t, ttl) ==
  LET a == FirstFit(m, ttl) IN
  CASE a = NULL ->
         [Own(m, t, m.LastMEM, ttl) EXCEPT !.LastMEM = @ + HDR + ttl]
    [] a # NULL /\ m.hdr[a].len - ttl < SLACK ->
         Own(Relink(m, a, m.hdr[a].next, m.hdr[a].last), t, a, m.hdr[a].len)
    [] OTHER -> Own(Split(m, a, ttl), t, a, ttl)

(***************************************************************************)
(* call, once its frame is there: return address, parameters and, later,   *)
(* the stores of the subroutine may fill the whole payload.  call does not *)
(* look at what findFreeMemById returned: without a frame it goes on all   *)
(* the same, one level deeper, writing where CurPhyMem was left (NoFrame). *)
(***************************************************************************)
Deeper(m, t) == [m EXCEPT !.MemLevel[t] = @ + 1]

call(m, t, ttl) ==
  LET got == findFreeMemById(Deeper(m, t), t, ttl)
      b == got.MemTail[t]
  IN  [got EXCEPT !.alive[t] = TRUE,
                  !.nz = @ \cup Cells(b + HDR, got.hdr[b].len)]

NoFrame(m, t) == [Deeper(m, t) EXCEPT !.alive[t] = TRUE]

\* ret always ends by pointing CurCmd at the saved return address, also when
\* the frame it took that address from was the main program's.
ret(m, t) == [DelLastFuncMem(m, t) EXCEPT !.alive[t] = TRUE]

hlt(m, t) == ReArrangeMemAndTask(m, t)

-----------------------------------------------------------------------------
(***************************************************************************)
(* What it means for the record to be a heap in order, named for the       *)
(* properties of the modules that run tasks on it.                         *)
(***************************************************************************)
FreeBlocks(m) == {a \in DOMAIN m.hdr : IsFree(m, a)}
OwnedBy(m, t) == {a \in DOMAIN m.hdr : ~IsFree(m, a) /\ m.hdr[a].id = t}
Payload(m, a) == Cells(a + HDR, m.hdr[a].len)

\* The blocks follow each other without gap or overlap up to LastMEM.
Apart(m) == \A a, b \in DOMAIN m.hdr : a < b => Ends(m, a) <= b
Gapless(m) ==
  {Ends(m, a) : a \in DOMAIN m.hdr} \cup {0} = DOMAIN m.hdr \cup {m.LastMEM}
Tiled(m) == Apart(m) /\ Gapless(m)

\* The blocks of S, if any, are doubly linked from head to tail.
Linked(m, S, head, tail) ==
  IF S = {} THEN head = NULL /\ tail = NULL
  ELSE /\ head \in S /\ tail \in S
       /\ \A a \in S :
            /\ (m.hdr[a].last = NULL) <=> (a = head)
            /\ (m.hdr[a].next = NULL) <=> (a = tail)
            /\ a # tail => /\ m.hdr[a].next \in S
                           /\ m.hdr[m.hdr[a].next].last = a

FreeListed(m) == /\ Listed(m) = FreeBlocks(m)
                 /\ Linked(m, FreeBlocks(m), m.FreeHead, m.FreeTail)

\* No two neighbouring blocks are free.
Merged(m) == \A a \in FreeBlocks(m) : Ends(m, a) \notin FreeBlocks(m)

\* Every task's list is the blocks it owns; a task that does not run owns none.
FramesListed(m) == \A t \in Task :
  /\ Frames(m, t) = OwnedBy(m, t)
  /\ Linked(m, OwnedBy(m, t), m.MemHead[t], m.MemTail[t])
  /\ OwnedBy(m, t) # {} => m.alive[t]

\* One frame for every level of MemLevel.
Levels(m) == \A t \in Task : m.MemLevel[t] = Cardinality(OwnedBy(m, t)) - 1

\* What may be non-zero below LastMEM: the headers, and the payloads of live
\* frames.  What lies above LastMEM may hold the bytes of an earlier life of the
\* heap: init_mem_info does not clear runMem.
Below(m) == Cells(0, m.LastMEM)
Zeroed(m) == m.nz \cap Below(m) =
    (UNION {Cells(a, HDR) : a \in DOMAIN m.hdr})
      \cup (UNION {Payload(m, a) : a \in DOMAIN m.hdr \ FreeBlocks(m)})
=============================================================================
