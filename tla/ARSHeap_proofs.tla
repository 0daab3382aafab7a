--------------------------- MODULE ARSHeap_proofs ---------------------------
(***************************************************************************)
(* Theorems about ARSHeap, for any number of task slots, any size of       *)
(* runMem, of a header and of the slack, and any memory requests.          *)
(***************************************************************************)
EXTENDS ARSHeap, ARSMemory_proofs, SequenceTheorems

(***************************************************************************)
(* The inductive invariant: the heap is in order, every byte below LastMEM *)
(* outside its headers and frames is zero, and until a stray store has     *)
(* happened every level of MemLevel has its frame.  That the heap is in    *)
(* order after a stray store is true of the model, where the store has no  *)
(* effect, and of nothing else: the properties say nothing of it.          *)
(***************************************************************************)
Inv == /\ InOrder(mem) /\ Clean(mem, Used(mem))
       /\ wild \in BOOLEAN /\ (~wild => Levels(mem))

\* Requests that call makes (context and frame) are natural numbers.
LEMMA TtlNat == Ttl \subseteq Nat
  BY SizesAssumption, FrameSizeAssumption DEF Ttl

\* init_mem_info leaves an empty heap, no frames and no task that runs.
LEMMA InitInv == Init => Inv
<1> SUFFICES ASSUME Init PROVE Inv OBVIOUS
<1>1. mem = init_mem_info({}) /\ wild = FALSE BY DEF Init
<1>2. InOrder(mem) /\ Levels(mem) BY <1>1, FreshInOrder
<1>3. Clean(mem, Used(mem)) BY <1>1, FreshInOrder
<1> QED BY <1>1, <1>2, <1>3 DEF Inv

(***************************************************************************)
(* What an operation for task t may do.  q is the memory once what the     *)
(* operation gives back is given back: the memory before, or that memory   *)
(* without the newest frame, or without all the frames, of t.              *)
(***************************************************************************)
Ended(q, t) == q.MemHead[t] = NULL
\* From q to the memory after: nothing, or one frame more.
Stays(q, r, t) == SameStore(q, r) /\ r.MemHead = q.MemHead /\ r.MemTail = q.MemTail
Gains(q, r, t) == Pushed(q, r, t) /\ \E ttl \in Nat : Grows(q, r, t, ttl)

Does(m, q, r, t) ==
  /\ InOrder(q) /\ Shrinks(m, q, t) /\ InOrder(r) /\ StaysClean(q, r) /\ OthersKept(q, r, t)
  /\ \/ q = m /\ Gains(q, r, t)
     \/ Ended(q, t) /\ Gains(q, r, t)
     \/ Stays(q, r, t) /\ (q = m \/ Ended(q, t) \/ Popped(m, q, t))

\* A heap in order gives nothing back to become itself.
LEMMA ShrinksSelf ==
  ASSUME NEW m, InOrder(m), NEW t \in Task
  PROVE  Shrinks(m, m, t)
<1>1. Heap(m, Used(m)) BY DEF InOrder
<1>2. Roomier(m, m, Used(m), Used(m)) BY <1>1, RoomierSelf
<1> QED BY <1>2 DEF Shrinks, OthersKept, Untouched, StaysClean

\* A task's flag is raised, or falls when it has no frames: nothing moves.
LEMMA AliveStays ==
  ASSUME NEW q, InOrder(q), NEW t \in Task, NEW v \in BOOLEAN, v \/ q.MemHead[t] = NULL
  PROVE  LET r == [q EXCEPT !.alive[t] = v] IN
         /\ InOrder(r) /\ (Levels(q) => Levels(r)) /\ StaysClean(q, r)
         /\ Stays(q, r, t) /\ OthersKept(q, r, t)
<1> DEFINE r == [q EXCEPT !.alive[t] = v]
<1>1. InOrder(r) /\ (Levels(q) => Levels(r)) BY AliveInOrder
<1>2. /\ SameStore(q, r) /\ r.MemHead = q.MemHead /\ r.MemTail = q.MemTail
      /\ r.MemLevel = q.MemLevel
      /\ \A u \in Task : r.alive[u] = IF u = t THEN v ELSE q.alive[u]
  BY AliveInOrder
<1> HIDE DEF r
<1>3. StaysClean(q, r) /\ \A u \in Task : OwnedBy(r, u) = OwnedBy(q, u)
  BY <1>2, SameStoreFacts
<1>4. OthersKept(q, r, t) BY <1>2, <1>3 DEF OthersKept, Untouched, SameStore
<1> QED BY <1>1, <1>2, <1>3, <1>4 DEF Stays, r

\* call, on the heap q that is left of m.
LEMMA EnterDoes ==
  ASSUME NEW m, NEW q, InOrder(q), Levels(q), NEW t \in Task, NEW ttl \in Ttl,
         Shrinks(m, q, t), q = m \/ Ended(q, t), wild = FALSE, Enter(q, t, ttl)
  PROVE  Does(m, q, mem', t) /\ wild' \in BOOLEAN /\ (~wild' => Levels(mem'))
<1>1. CASE CanAllocate(q, t, ttl)
  <2>1. mem' = call(q, t, ttl) /\ wild' = FALSE /\ ttl \in Nat BY <1>1, TtlNat DEF Enter
  <2>2. InOrder(mem') /\ Levels(mem') BY <1>1, <2>1, CallInOrder
  <2>3. OthersKept(q, mem', t) /\ StaysClean(q, mem') BY <1>1, <2>1, CallInOrder
  <2>4. Pushed(q, mem', t) /\ Grows(q, mem', t, ttl) BY <1>1, <2>1, CallInOrder
  <2> QED BY <2>1, <2>2, <2>3, <2>4 DEF Does, Gains
<1>2. CASE ~CanAllocate(q, t, ttl)
  <2>1. mem' = NoFrame(q, t) /\ wild' = TRUE BY <1>2 DEF Enter
  <2>2. InOrder(mem') /\ SameStore(q, mem') BY <2>1, NoFrameInOrder
  <2>3. OthersKept(q, mem', t) BY <2>1, NoFrameInOrder
  <2>4. mem'.MemHead = q.MemHead /\ mem'.MemTail = q.MemTail BY <2>1 DEF NoFrame, Deeper
  <2>5. StaysClean(q, mem') BY <2>2, SameStoreFacts
  <2> QED BY <2>1, <2>2, <2>3, <2>4, <2>5 DEF Does, Stays
<1> QED BY <1>1, <1>2

Step(m, t) == \E q : Does(m, q, mem', t)

\* reboot_all leaves an empty heap, whatever bytes runMem holds.
LEMMA Rebooted ==
  ASSUME InOrder(mem), RebootAll
  PROVE  /\ InOrder(mem') /\ Clean(mem', Used(mem')) /\ Levels(mem')
         /\ mem'.LastMEM = 0 /\ \A t \in Task : Ended(mem', t)
<1>1. mem' = init_mem_info(mem.nz) BY DEF RebootAll
<1>2. mem.nz \subseteq Addr BY DEF InOrder, Heap, Memory
<1>3. InOrder(mem') /\ Clean(mem', Used(mem')) /\ Levels(mem') BY <1>1, <1>2, FreshInOrder
<1>4. mem'.LastMEM = 0 /\ \A t \in Task : mem'.MemHead[t] = NULL BY <1>1 DEF init_mem_info
<1> QED BY <1>3, <1>4 DEF Ended

\* Each step of Next is one operation for one task: one case for each operation;
\* the allocator's part of each case is a lemma of ARSMemory_proofs.
LEMMA NextDoes ==
  ASSUME Inv, Next
  PROVE  /\ UNCHANGED vars \/ RebootAll \/ \E t \in Task : mem' = mem \/ Step(mem, t)
         /\ wild' \in BOOLEAN /\ (~wild' => Levels(mem'))
<1>1. InOrder(mem) /\ wild \in BOOLEAN /\ (~wild => Levels(mem)) BY DEF Inv
<1> DEFINE Fine(t) == /\ mem' = mem \/ Step(mem, t)
                      /\ wild' \in BOOLEAN /\ (~wild' => Levels(mem'))
<1>2. ASSUME NEW t \in Task, NEW ttl \in Ttl, Call(t, ttl) \/ Start(t, ttl) PROVE Fine(t)
  <2>1. wild = FALSE /\ Enter(mem, t, ttl) BY <1>1, <1>2 DEF Call, Start, Running
  <2>2. Does(mem, mem, mem', t) /\ wild' \in BOOLEAN /\ (~wild' => Levels(mem'))
    BY <1>1, <2>1, ShrinksSelf, EnterDoes
  <2> QED BY <2>2 DEF Step
<1>3. ASSUME NEW t \in Task, NEW ttl \in Ttl, Restart(t, ttl) PROVE Fine(t)
  <2> DEFINE q == ReArrangeMemAndTask(mem, t)
  <2>1. wild = FALSE /\ Enter(q, t, ttl) BY <1>1, <1>3 DEF Restart
  <2>2. InOrder(q) /\ Levels(q) /\ Shrinks(mem, q, t) /\ q.MemHead[t] = NULL
    BY <1>1, <2>1, ReArrangeInOrder
  <2> HIDE DEF q
  <2>3. Does(mem, q, mem', t) /\ wild' \in BOOLEAN /\ (~wild' => Levels(mem'))
    BY <2>1, <2>2, EnterDoes DEF Ended
  <2> QED BY <2>3 DEF Step
<1>4. ASSUME NEW t \in Task, Ret(t) PROVE Fine(t)
  <2> DEFINE q == DelLastFuncMem(mem, t)
  <2>1. wild = FALSE /\ mem' = ret(mem, t) /\ wild' = wild BY <1>1, <1>4 DEF Ret, Running
  <2>2. InOrder(q) /\ Levels(q) /\ Shrinks(mem, q, t) BY <1>1, <2>1, DelLastInOrder
  <2>3. q = mem \/ Ended(q, t) \/ Popped(mem, q, t)
    BY <1>1, <2>1, DelLastInOrder DEF Ended
  <2> HIDE DEF q
  <2>4. mem' = [q EXCEPT !.alive[t] = TRUE] BY <2>1 DEF ret, q
  <2>5. InOrder(mem') /\ Levels(mem') /\ StaysClean(q, mem')
    BY <2>2, <2>4, AliveStays
  <2>6. Stays(q, mem', t) /\ OthersKept(q, mem', t) BY <2>2, <2>4, AliveStays
  <2>7. Does(mem, q, mem', t) BY <2>2, <2>3, <2>5, <2>6 DEF Does
  <2> QED BY <2>1, <2>5, <2>7 DEF Step
<1>5. ASSUME NEW t \in Task, Hlt(t) PROVE Fine(t)
  <2>1. wild = FALSE /\ mem' = ReArrangeMemAndTask(mem, t) /\ wild' = wild
    BY <1>1, <1>5 DEF Hlt, Running, hlt
  <2>2. InOrder(mem') /\ Levels(mem') /\ Shrinks(mem, mem', t) /\ mem'.MemHead[t] = NULL
    BY <1>1, <2>1, ReArrangeInOrder
  <2>3. Shrinks(mem', mem', t) BY <2>2, ShrinksSelf
  <2>4. Does(mem, mem', mem', t)
    BY <2>2, <2>3 DEF Does, Shrinks, Stays, SameStore, Ended
  <2> QED BY <2>1, <2>2, <2>4 DEF Step
<1>6. ASSUME NEW t \in Task, Stray(t) PROVE Fine(t)
  BY <1>1, <1>6 DEF Stray
<1>7. ASSUME NEW t \in Task, Kill(t) PROVE Fine(t)
  <2> DEFINE q == ReArrangeMemAndTask(mem, t)
  <2>1. wild = FALSE /\ mem' = [q EXCEPT !.alive[t] = FALSE] /\ wild' = wild
    BY <1>1, <1>7 DEF Kill
  <2>2. InOrder(q) /\ Levels(q) /\ Shrinks(mem, q, t) /\ q.MemHead[t] = NULL
    BY <1>1, <2>1, ReArrangeInOrder
  <2> HIDE DEF q
  <2>3. InOrder(mem') /\ Levels(mem') /\ StaysClean(q, mem')
    BY <2>1, <2>2, AliveStays
  <2>4. Stays(q, mem', t) /\ OthersKept(q, mem', t) BY <2>1, <2>2, AliveStays
  <2>5. Does(mem, q, mem', t) BY <2>2, <2>3, <2>4 DEF Does, Ended
  <2> QED BY <2>1, <2>3, <2>5 DEF Step
<1>8. CASE Lost BY <1>1, <1>8 DEF Lost, vars
<1>10. CASE RebootAll BY <1>1, <1>10, Rebooted DEF RebootAll
<1> HIDE DEF Fine
<1>9. UNCHANGED vars \/ RebootAll \/ \E t \in Task : Fine(t)
  BY <1>2, <1>3, <1>4, <1>5, <1>6, <1>7 DEF Next, Lost
<1> QED BY <1>8, <1>9, <1>10, <1>1 DEF Fine, vars

\* Each step keeps the invariant.
LEMMA NextInv == Inv /\ [Next]_vars => Inv'
<1> SUFFICES ASSUME Inv, [Next]_vars PROVE Inv' OBVIOUS
<1>1. CASE UNCHANGED vars BY <1>1 DEF Inv, vars
<1>2. CASE Next /\ ~UNCHANGED vars
  <2>1. /\ RebootAll \/ \E t \in Task : mem' = mem \/ Step(mem, t)
        /\ wild' \in BOOLEAN /\ (~wild' => Levels(mem'))
    BY <1>2, NextDoes
  <2>2. ASSUME NEW t \in Task, NEW q, Does(mem, q, mem', t)
        PROVE  InOrder(mem') /\ Clean(mem', Used(mem'))
    BY <2>2 DEF Does, Shrinks, StaysClean, Inv
  <2>3. InOrder(mem') /\ Clean(mem', Used(mem'))
    <3>1. InOrder(mem) /\ Clean(mem, Used(mem)) BY DEF Inv
    <3>2. CASE mem' = mem BY <3>1, <3>2
    <3>3. CASE RebootAll BY <3>1, <3>3, Rebooted
    <3> QED BY <2>1, <2>2, <3>2, <3>3 DEF Step
  <2> QED BY <2>1, <2>3 DEF Inv
<1> QED BY <1>1, <1>2

\* The inductive invariant: the heap and the lists of frames are in order between any
\* two operations, nothing but headers and frames holds data, and while no write went
\* astray there is one frame per level.
THEOREM Invariance == Spec => []Inv
  BY InitInv, NextInv, PTL DEF Spec

-----------------------------------------------------------------------------
\* The globals of Memory.cpp always hold what their C types and null allow:
\* every link is null or an offset in runMem, and LastMEM stays inside it.
THEOREM TypeCorrect == Spec => []TypeOK
<1>1. Inv => TypeOK
  <2> SUFFICES ASSUME Inv PROVE TypeOK OBVIOUS
  <2>1. mem \in Memory /\ wild \in BOOLEAN BY DEF Inv, InOrder, Heap
  <2>2. mem.hdr \in [DOMAIN mem.hdr -> Header] /\ DOMAIN mem.hdr \subseteq Addr
    BY <2>1, HeadersFacts
  <2>3. /\ mem.nz \subseteq Addr /\ mem.FreeHead \in Link /\ mem.FreeTail \in Link
        /\ mem.LastMEM \in Addr
        /\ mem.MemHead \in [Task -> Link] /\ mem.MemTail \in [Task -> Link]
        /\ mem.MemLevel \in [Task -> Int] /\ mem.alive \in [Task -> BOOLEAN]
    BY <2>1 DEF Memory
  <2> QED BY <2>1, <2>2, <2>3 DEF TypeOK
<1> QED BY <1>1, Invariance, PTL

\* Whatever is split, merged, taken and given back, in whatever order tasks call,
\* return, halt, are started, killed and restarted, and reboot_all starts over: until
\* a write goes astray no byte of runMem below LastMEM is in two blocks or in none.
THEOREM MemoryTiled == Spec => []Tiling
<1>1. Inv => Tiling BY OrderTiled DEF Inv, Tiling
<1> QED BY <1>1, Invariance, PTL

\* The free list is exactly the blocks marked FREE, doubly linked.
THEOREM FreeListCorrect == Spec => []FreeListExact
<1>1. Inv => FreeListExact BY OrderFreeListed DEF Inv, FreeListExact
<1> QED BY <1>1, Invariance, PTL

\* SuperFree never leaves two free blocks side by side, whichever of its neighbours
\* a frame finds free when it is given back.
THEOREM FreeBlocksMerged == Spec => []Coalesced
<1>1. Inv => Coalesced BY OrderMerged DEF Inv, Coalesced
<1> QED BY <1>1, Invariance, PTL

\* Every task's list is exactly the frames it owns, one per level: an ended task
\* leaves none behind, and no operation for one task touches another's list.
THEOREM FramesCorrect == Spec => []FramesExact
<1>1. Inv => FramesExact BY OrderFramesListed DEF Inv, FramesExact
<1> QED BY <1>1, Invariance, PTL

\* What a task gives back is cleared: whatever was cut, merged or given back, and also
\* when reboot_all has left old bytes above LastMEM, no byte below LastMEM outside the
\* headers and the live frames keeps what some task stored there.
THEOREM FreedIsZero == Spec => []ZeroOutsideFrames
<1>1. Inv => ZeroOutsideFrames BY CleanZeroed DEF Inv, ZeroOutsideFrames
<1> QED BY <1>1, Invariance, PTL

-----------------------------------------------------------------------------
\* LastMEM moves only when no block of the free list is large enough, in a restart
\* too, which first gives back the frames of the old program.
THEOREM FirstFitFirst == Spec => GrowsOnlyWhenNothingFits
<1> DEFINE Fits == mem'.LastMEM > mem.LastMEM =>
             \A a \in Listed(mem) : mem.hdr[a].len < mem'.LastMEM - mem.LastMEM - HDR
<1>1. ASSUME Inv, [Next]_vars PROVE Fits
  <2>1. CASE mem' = mem
    <3>1. mem.LastMEM \in Nat BY <1>1, AddrNat DEF Inv, InOrder, Heap, Memory
    <3> QED BY <2>1, <3>1
  <2>2. ASSUME NEW t \in Task, NEW q, Does(mem, q, mem', t) PROVE Fits
    <3>1. InOrder(mem) /\ InOrder(q) BY <1>1, <2>2 DEF Inv, Does
    <3>2. q.LastMEM = mem.LastMEM /\ Roomier(mem, q, Used(mem), Used(q))
      BY <2>2 DEF Does, Shrinks
    <3>3. mem.LastMEM \in Nat /\ HDR \in Nat
      BY <3>1, AddrNat, SizesAssumption DEF InOrder, Heap, Memory
    <3>4. CASE SameStore(q, mem') BY <3>2, <3>3, <3>4 DEF SameStore
    <3>5. CASE \E ttl \in Nat : Grows(q, mem', t, ttl)
      <4> PICK ttl \in Nat : Grows(q, mem', t, ttl) BY <3>5
      <4>1. CASE FirstFit(q, ttl) # NULL BY <3>2, <3>3, <4>1 DEF Grows
      <4>2. CASE FirstFit(q, ttl) = NULL
        <5>1. /\ mem'.LastMEM - mem.LastMEM - HDR = ttl
              /\ \A y \in Spare(q, Used(q)) : q.hdr[y].len < ttl
          BY <3>2, <3>3, <4>2 DEF Grows
        <5>2. ASSUME NEW a \in Listed(mem) PROVE mem.hdr[a].len < ttl
          <6>1. a \in Spare(mem, Used(mem)) /\ a \in DOMAIN mem.hdr BY <3>1, OrderSpare
          <6>2. PICK y \in Spare(q, Used(q)) : q.hdr[y].len >= mem.hdr[a].len
            BY <3>2, <6>1 DEF Roomier
          <6>3. y \in DOMAIN q.hdr BY DEF Spare
          <6>4. Heap(mem, Used(mem)) /\ Heap(q, Used(q)) BY <3>1 DEF InOrder
          <6>5. q.hdr[y].len \in Nat /\ mem.hdr[a].len \in Nat
            BY <6>1, <6>3, <6>4, BlockFacts
          <6> QED BY <5>1, <6>2, <6>5
        <5> QED BY <5>1, <5>2
      <4> QED BY <4>1, <4>2
    <3> QED BY <2>2, <3>4, <3>5 DEF Does, Gains, Stays
  <2> HIDE DEF Fits
  <2>3. CASE Next /\ mem' # mem
    <3>1. RebootAll \/ \E t \in Task : Step(mem, t) BY <1>1, <2>3, NextDoes DEF vars
    <3>2. CASE RebootAll
      <4>1. mem'.LastMEM = 0 /\ mem.LastMEM \in Nat
        BY <1>1, <3>2, Rebooted, AddrNat DEF Inv, InOrder, Heap, Memory
      <4> QED BY <4>1 DEF Fits
    <3> QED BY <2>2, <3>1, <3>2 DEF Step
  <2> QED BY <1>1, <2>1, <2>3 DEF vars
<1>2. Inv /\ [Next]_vars => [Fits]_vars
  <2> HIDE DEF Fits
  <2> QED BY <1>1
<1> QED BY <1>2, Invariance, PTL DEF Spec, GrowsOnlyWhenNothingFits

\* What an operation for t does to a frame of another task: nothing.
LEMMA DoesSpares ==
  ASSUME NEW m, NEW q, NEW r, NEW t \in Task, Does(m, q, r, t),
         NEW u \in Task, u # t
  PROVE  Untouched(m, r, u)
<1>1. Untouched(m, q, u) /\ Untouched(q, r, u) BY DEF Does, Shrinks, OthersKept
<1> QED BY <1>1 DEF Untouched

\* No operation for one task moves, resizes, relinks or clears a frame of another, and
\* but for reboot_all every operation is for one task.
THEOREM TasksApart == Spec => OneTaskAtATime
<1> DEFINE Spared(t) == \A a \in DOMAIN mem.hdr :
              (~IsFree(mem, a) /\ mem.hdr[a].id # t) =>
                /\ a \in DOMAIN mem'.hdr /\ mem'.hdr[a] = mem.hdr[a]
                /\ Payload(mem, a) \cap mem.nz \subseteq mem'.nz
<1>1. ASSUME Inv, [Next]_vars, ~RebootAll PROVE \E t \in Task : Spared(t)
  <2>1. CASE mem' = mem
    <3>1. PICK t \in Task : TRUE BY TaskAssumption
    <3> QED BY <2>1, <3>1
  <2>2. ASSUME NEW t \in Task, NEW q, Does(mem, q, mem', t) PROVE Spared(t)
    <3> SUFFICES ASSUME NEW a \in DOMAIN mem.hdr, ~IsFree(mem, a), mem.hdr[a].id # t
                 PROVE  /\ a \in DOMAIN mem'.hdr /\ mem'.hdr[a] = mem.hdr[a]
                        /\ Payload(mem, a) \subseteq mem'.nz
      OBVIOUS
    <3> DEFINE u == mem.hdr[a].id
    <3>1. u \in Task
      <4>1. mem \in Memory BY <1>1 DEF Inv, InOrder, Heap
      <4> QED BY <4>1, HeadersFacts DEF Header
    <3>2. a \in OwnedBy(mem, u) BY DEF OwnedBy
    <3> HIDE DEF u
    <3>3. Untouched(mem, mem', u) BY <2>2, <3>1, DoesSpares DEF u
    <3>4. a \in OwnedBy(mem', u) /\ mem'.hdr[a] = mem.hdr[a] BY <3>2, <3>3 DEF Untouched
    <3>5. a \in Used(mem') /\ a \in DOMAIN mem'.hdr BY <3>4 DEF OwnedBy, Used
    <3>6. Inv' BY <1>1, NextInv
    <3>7. Clean(mem', Used(mem')) BY <3>6 DEF Inv
    <3>8. Payload(mem', a) \subseteq mem'.nz BY <3>5, <3>7 DEF Clean, PayloadCells
    <3>9. Payload(mem', a) = Payload(mem, a) BY <3>4 DEF Payload
    <3> QED BY <3>4, <3>5, <3>8, <3>9
  <2> HIDE DEF Spared
  <2>3. CASE Next /\ mem' # mem
    <3>1. \E t \in Task : Step(mem, t) BY <1>1, <2>3, NextDoes DEF vars
    <3> QED BY <2>2, <3>1 DEF Step
  <2> QED BY <1>1, <2>1, <2>3 DEF vars
<1>2. Inv /\ [Next]_vars => [~RebootAll /\ ~wild' => \E t \in Task : Spared(t)]_vars
  <2> HIDE DEF Spared
  <2> QED BY <1>1
<1> QED BY <1>2, Invariance, PTL DEF Spec, OneTaskAtATime
-----------------------------------------------------------------------------
(***************************************************************************)
(* The heap implements FrameStacks.  Row(m, t) is the stack of task t as a *)
(* function of the memory m: where the blocks of t's list lie, in order.   *)
(***************************************************************************)
Place(m, a) == [base |-> a + HDR, size |-> m.hdr[a].len]
Row(m, t) == [i \in 1 .. Cardinality(Frames(m, t)) |->
                Place(m, Walk(m, m.MemHead[t], {})[i - 1])]
Places == [base : Nat, size : Nat]

\* s lists the n frames of t.
IsRow(m, t, s, n) ==
  /\ IsList(m.hdr, OwnedBy(m, t), m.MemHead[t], m.MemTail[t], n, s)
  /\ Row(m, t) \in Seq(Places) /\ Len(Row(m, t)) = n
  /\ \A i \in 1 .. n : Row(m, t)[i] = Place(m, s[i])

\* In a heap in order there is such a list.
LEMMA RowExists ==
  ASSUME NEW m, InOrder(m), NEW t \in Task
  PROVE  \E s, n : IsRow(m, t, s, n)
<1> DEFINE F == OwnedBy(m, t)
           n == Cardinality(F)
           h == m.MemHead[t]
<1>1. Heap(m, Used(m)) /\ F \subseteq DOMAIN m.hdr /\ F \subseteq Nat /\ n \in Nat
  BY OwnedFacts DEF InOrder
<1>2. Frames(m, t) = F BY OrderFramesListed DEF FramesListed
<1>3. HasList(m.hdr, F, h, m.MemTail[t], n) BY DEF InOrder, TaskList
<1> HIDE DEF F, n, h
<1>4. PICK s : IsList(m.hdr, F, h, m.MemTail[t], n, s) BY <1>3 DEF HasList
<1>5. WalkIs(m, h, n, s) BY <1>1, <1>4, ListWalk
<1> DEFINE W == Walk(m, h, {})
<1>6. \A i \in 1 .. n : W[i - 1] = s[i]
  <2> HIDE DEF W
  <2> SUFFICES ASSUME NEW i \in 1 .. n PROVE W[i - 1] = s[i] OBVIOUS
  <2>1. i - 1 \in Nat /\ i - 1 < n /\ (i - 1) + 1 = i BY <1>1
  <2>2. W[i - 1] = s[(i - 1) + 1] BY <1>5, <2>1 DEF WalkIs, W
  <2> QED BY <2>1, <2>2
<1> DEFINE R == [i \in 1 .. n |-> Place(m, W[i - 1])]
<1>7. Row(m, t) = R BY <1>2 DEF Row, n, h
<1> HIDE DEF W
<1>8. \A i \in 1 .. n : s[i] \in F BY <1>4 DEF IsList
<1>9. \A i \in 1 .. n : R[i] = Place(m, s[i]) BY <1>6
<1>10. \A a \in F : Place(m, a) \in Places
  <2> SUFFICES ASSUME NEW a \in F PROVE a + HDR \in Nat /\ m.hdr[a].len \in Nat
    BY DEF Place, Places
  <2>1. m.hdr[a].len \in Nat BY <1>1, BlockFacts
  <2> QED BY <1>1, <2>1, HdrPositive
<1>11. R \in [1 .. n -> Places] BY <1>8, <1>9, <1>10
<1>12. R \in Seq(Places) BY <1>1, <1>11, SeqDef
<1>13. Len(R) = n
  <2>1. DOMAIN R = 1 .. n OBVIOUS
  <2> HIDE DEF R
  <2> QED BY <1>1, <1>12, <2>1, LenProperties
<1> HIDE DEF R
<1>14. IsRow(m, t, s, n) BY <1>4, <1>7, <1>9, <1>12, <1>13 DEF IsRow, F, h
<1> QED BY <1>14

\* Two lists from the same head run together as long as the links of the first
\* are those of the second.
LEMMA SamePrefix ==
  ASSUME NEW hdr, NEW hdr2, NEW S, NEW S2, NEW h, NEW h2, NEW e, NEW e2, NEW n, NEW n2,
         NEW s, NEW s2, IsList(hdr, S, h, e, n, s), IsList(hdr2, S2, h2, e2, n2, s2),
         n <= n2, n > 0 => h2 = h,
         \A a \in S : a # e => hdr2[a].next = hdr[a].next
  PROVE  \A i \in 1 .. n : s2[i] = s[i]
<1>1. /\ n \in Nat /\ n2 \in Nat /\ \A i \in 1 .. n : s[i] \in S
      /\ \A i, j \in 1 .. n : s[i] = s[j] => i = j
  BY DEF IsList
<1> DEFINE K == {k \in Nat : k + 1 <= n => s2[k + 1] = s[k + 1]}
<1>2. 0 \in K
  <2> SUFFICES ASSUME 1 <= n PROVE s2[1] = s[1] BY <1>1
  <2> QED BY <1>1 DEF IsList
<1>3. ASSUME NEW k \in Nat, k \in K PROVE k + 1 \in K
  <2> SUFFICES ASSUME (k + 1) + 1 <= n PROVE s2[(k + 1) + 1] = s[(k + 1) + 1] BY <1>1
  <2> DEFINE j == k + 1
  <2>1. j \in 1 .. n /\ j \in 1 .. n2 /\ j # n /\ j # n2 /\ n \in 1 .. n BY <1>1
  <2>2. s2[j] = s[j] BY <1>1, <1>3
  <2> HIDE DEF j
  <2>3. hdr[s[j]].next = s[j + 1] /\ hdr2[s2[j]].next = s2[j + 1] BY <2>1 DEF IsList
  <2>4. s[j] \in S /\ s[j] # e BY <1>1, <2>1 DEF IsList
  <2>5. hdr2[s[j]].next = hdr[s[j]].next BY <2>4
  <2>6. s2[j + 1] = s[j + 1] BY <2>2, <2>3, <2>5
  <2> QED BY <2>6 DEF j
<1>4. Nat \subseteq K
  <2> HIDE DEF K
  <2> QED BY <1>2, <1>3, SetInduction
<1>5. ASSUME NEW i \in 1 .. n PROVE s2[i] = s[i]
  <2>1. i - 1 \in K /\ (i - 1) + 1 = i /\ i <= n BY <1>1, <1>4
  <2> QED BY <2>1
<1> QED BY <1>5

\* The frames of u are the same in m and in r.
SameFrames(m, r, u) ==
  /\ OwnedBy(r, u) = OwnedBy(m, u) /\ \A a \in OwnedBy(m, u) : r.hdr[a] = m.hdr[a]
  /\ r.MemHead[u] = m.MemHead[u] /\ r.MemTail[u] = m.MemTail[u]

\* Then so is its stack.
LEMMA RowSame ==
  ASSUME NEW m, NEW r, InOrder(m), InOrder(r), NEW u \in Task, SameFrames(m, r, u)
  PROVE  Row(r, u) = Row(m, u)
<1> DEFINE F == OwnedBy(m, u)
<1>1. PICK s, n : IsRow(m, u, s, n) BY RowExists
<1>2. PICK s2, n2 : IsRow(r, u, s2, n2) BY RowExists
<1>3. /\ IsList(m.hdr, F, m.MemHead[u], m.MemTail[u], n, s)
      /\ IsList(r.hdr, F, m.MemHead[u], m.MemTail[u], n2, s2)
      /\ Row(m, u) \in Seq(Places) /\ Len(Row(m, u)) = n
      /\ Row(r, u) \in Seq(Places) /\ Len(Row(r, u)) = n2
      /\ \A i \in 1 .. n : Row(m, u)[i] = Place(m, s[i])
      /\ \A i \in 1 .. n2 : Row(r, u)[i] = Place(r, s2[i])
  BY <1>1, <1>2 DEF IsRow, SameFrames
<1>4. n = Cardinality(F) /\ n2 = Cardinality(F) /\ n \in Nat
  <2> HIDE DEF F
  <2> QED BY <1>3, ListCard DEF HasList
<1>5. \A i \in 1 .. n : s2[i] = s[i]
  <2>1. \A a \in F : r.hdr[a].next = m.hdr[a].next BY DEF SameFrames
  <2> HIDE DEF F
  <2> QED BY <1>3, <1>4, <2>1, SamePrefix
<1>6. \A i \in 1 .. n : Place(r, s2[i]) = Place(m, s[i])
  <2>1. \A i \in 1 .. n : s[i] \in F BY <1>3 DEF IsList
  <2>2. \A a \in F : r.hdr[a].len = m.hdr[a].len BY DEF SameFrames
  <2> QED BY <1>5, <2>1, <2>2 DEF Place
<1>7. \A i \in 1 .. n : Row(r, u)[i] = Row(m, u)[i] BY <1>3, <1>4, <1>6
<1> QED BY <1>3, <1>4, <1>7, SeqEqual

\* A task without frames has the empty stack.
LEMMA RowEnded ==
  ASSUME NEW m, InOrder(m), NEW t \in Task, Ended(m, t)
  PROVE  Row(m, t) = <<>> /\ OwnedBy(m, t) = {}
<1>1. PICK s, n : IsRow(m, t, s, n) BY RowExists
<1>2. OwnedBy(m, t) = {} BY OwnedFacts DEF Ended
<1>3. n = 0
  <2>1. n \in Nat /\ s \in [1 .. n -> {}] BY <1>1, <1>2 DEF IsRow, IsList
  <2>2. n > 0 => s[1] \in {} BY <2>1
  <2> QED BY <2>1, <2>2
<1>4. Row(m, t) \in Seq(Places) /\ Len(Row(m, t)) = 0 BY <1>1, <1>3 DEF IsRow
<1> QED BY <1>2, <1>4, EmptySeq

\* A new frame goes on top of the stack.
LEMMA RowPushed ==
  ASSUME NEW m, NEW r, InOrder(m), InOrder(r), NEW t \in Task, Pushed(m, r, t)
  PROVE  LET x == Place(r, r.MemTail[t]) IN
         /\ Row(r, t) = Append(Row(m, t), x)
         /\ Row(r, t) # <<>> /\ Row(r, t)[Len(Row(r, t))] = x
         /\ r.MemTail[t] \in OwnedBy(r, t)
<1> DEFINE F == OwnedBy(m, t)
           b == r.MemTail[t]
           x == Place(r, b)
<1>1. PICK s, n : IsRow(m, t, s, n) BY RowExists
<1>2. PICK s2, n2 : IsRow(r, t, s2, n2) BY RowExists
<1>3. /\ IsList(m.hdr, F, m.MemHead[t], m.MemTail[t], n, s)
      /\ Row(m, t) \in Seq(Places) /\ Len(Row(m, t)) = n
      /\ \A i \in 1 .. n : Row(m, t)[i] = Place(m, s[i])
  BY <1>1 DEF IsRow
<1>4. /\ IsList(r.hdr, F \cup {b}, r.MemHead[t], b, n2, s2)
      /\ Row(r, t) \in Seq(Places) /\ Len(Row(r, t)) = n2
      /\ \A i \in 1 .. n2 : Row(r, t)[i] = Place(r, s2[i])
  BY <1>2 DEF IsRow, Pushed, PushedAt
<1>5. b \notin F
  <2>1. b \notin Used(m) BY DEF Pushed, PushedAt
  <2> QED BY <2>1, OwnedFacts
<1>6. /\ F # {} => r.MemHead[t] = m.MemHead[t]
      /\ \A a \in F : r.hdr[a].len = m.hdr[a].len
      /\ \A a \in F : a # m.MemTail[t] => r.hdr[a].next = m.hdr[a].next
  <2>1. PushedAt(m, r, t, b) BY DEF Pushed
  <2>2. SameRow(m, r, F, m.MemTail[t]) BY <2>1 DEF PushedAt
  <2>3. F # {} => r.MemHead[t] = m.MemHead[t] BY <2>1 DEF PushedAt
  <2> HIDE DEF F
  <2> QED BY <2>2, <2>3 DEF SameRow
<1> HIDE DEF F, b
<1>7. /\ n \in Nat /\ IsFiniteSet(F) /\ Cardinality(F) = n
      /\ n2 \in Nat /\ Cardinality(F \cup {b}) = n2
  BY <1>3, <1>4, ListCard DEF HasList
<1>8. n2 = n + 1 BY <1>5, <1>7, FS_AddElement
<1>9. n > 0 => F # {} BY <1>3 DEF IsList
<1>10. \A i \in 1 .. n : s2[i] = s[i]
  BY <1>3, <1>4, <1>6, <1>7, <1>8, <1>9, SamePrefix
<1>11. \A i \in 1 .. n : Place(r, s2[i]) = Place(m, s[i])
  <2>1. \A i \in 1 .. n : s[i] \in F BY <1>3 DEF IsList
  <2> QED BY <1>6, <1>10, <2>1 DEF Place
<1>12. n2 \in 1 .. n2 /\ s2[n2] = b BY <1>4, <1>7, <1>8 DEF IsList
<1>13. Row(r, t)[n2] = x BY <1>4, <1>12
<1>14. \A i \in 1 .. n : Row(r, t)[i] = Row(m, t)[i]
  <2>1. \A i \in 1 .. n : i \in 1 .. n2 BY <1>7, <1>8
  <2> QED BY <1>3, <1>4, <1>11, <2>1
<1>15. x \in Places BY <1>4, <1>12, <1>13, ElementOfSeq
<1> HIDE DEF x
<1> DEFINE A == Append(Row(m, t), x)
<1>16. A \in Seq(Places) /\ Len(A) = n2 /\ A[n2] = x /\ \A i \in 1 .. n : A[i] = Row(m, t)[i]
  BY <1>3, <1>7, <1>8, <1>15
<1> HIDE DEF A
<1>17. \A i \in 1 .. n2 : Row(r, t)[i] = A[i]
  <2>1. \A i \in 1 .. n2 : i = n2 \/ i \in 1 .. n BY <1>7, <1>8
  <2> QED BY <1>13, <1>14, <1>16, <2>1
<1>18. Row(r, t) = A BY <1>4, <1>16, <1>17, SeqEqual
<1>19. Row(r, t) # <<>> BY <1>4, <1>7, <1>8, EmptySeq
<1>20. b \in OwnedBy(r, t) BY DEF Pushed, PushedAt, b
<1> QED BY <1>4, <1>13, <1>18, <1>19, <1>20 DEF A, x, b

\* The newest frame comes off the top of the stack.
LEMMA RowPopped ==
  ASSUME NEW m, NEW r, InOrder(m), InOrder(r), NEW t \in Task, Popped(m, r, t)
  PROVE  Row(m, t) # <<>> /\ Row(r, t) = SubSeq(Row(m, t), 1, Len(Row(m, t)) - 1)
<1> DEFINE F == OwnedBy(r, t)
           b == m.MemTail[t]
<1>1. PICK s, n : IsRow(r, t, s, n) BY RowExists
<1>2. PICK s2, n2 : IsRow(m, t, s2, n2) BY RowExists
<1>3. b \notin F /\ OwnedBy(m, t) = F \cup {b} BY DEF Popped, PoppedAt
<1>4. /\ IsList(r.hdr, F, r.MemHead[t], r.MemTail[t], n, s)
      /\ Row(r, t) \in Seq(Places) /\ Len(Row(r, t)) = n
      /\ \A i \in 1 .. n : Row(r, t)[i] = Place(r, s[i])
  BY <1>1 DEF IsRow
<1>5. /\ IsList(m.hdr, F \cup {b}, m.MemHead[t], b, n2, s2)
      /\ Row(m, t) \in Seq(Places) /\ Len(Row(m, t)) = n2
      /\ \A i \in 1 .. n2 : Row(m, t)[i] = Place(m, s2[i])
  BY <1>2, <1>3 DEF IsRow
<1>6. /\ r.MemHead[t] = m.MemHead[t]
      /\ \A a \in F : r.hdr[a].len = m.hdr[a].len
      /\ \A a \in F : a # r.MemTail[t] => m.hdr[a].next = r.hdr[a].next
  <2>1. PoppedAt(m, r, t, b) BY DEF Popped
  <2>2. SameRow(m, r, F, r.MemTail[t]) BY <2>1 DEF PoppedAt
  <2>3. r.MemHead[t] = m.MemHead[t] BY <2>1 DEF PoppedAt
  <2> HIDE DEF F
  <2> QED BY <2>2, <2>3 DEF SameRow
<1> HIDE DEF F, b
<1>7. /\ n \in Nat /\ IsFiniteSet(F) /\ Cardinality(F) = n
      /\ n2 \in Nat /\ Cardinality(F \cup {b}) = n2
  BY <1>4, <1>5, ListCard DEF HasList
<1>8. n2 = n + 1 BY <1>3, <1>7, FS_AddElement
<1>9. \A i \in 1 .. n : s2[i] = s[i]
  BY <1>4, <1>5, <1>6, <1>7, <1>8, SamePrefix
<1>10. \A i \in 1 .. n : Place(m, s2[i]) = Place(r, s[i])
  <2>1. \A i \in 1 .. n : s[i] \in F BY <1>4 DEF IsList
  <2> QED BY <1>6, <1>9, <2>1 DEF Place
<1>11. \A i \in 1 .. n : Row(r, t)[i] = Row(m, t)[i]
  <2>1. \A i \in 1 .. n : i \in 1 .. n2 BY <1>7, <1>8
  <2> QED BY <1>4, <1>5, <1>10, <2>1
<1> DEFINE A == SubSeq(Row(m, t), 1, n)
<1>12. A \in Seq(Places) /\ Len(A) = n /\ \A i \in 1 .. n : A[i] = Row(m, t)[i]
  <2>1. \A i \in 1 .. n : Row(m, t)[i] \in Places
    <3>1. \A i \in 1 .. n : i \in 1 .. n2 BY <1>7, <1>8
    <3> QED BY <1>5, <3>1, ElementOfSeq
  <2>2. 1 \in Int /\ n \in Int BY <1>7
  <2>3. /\ A \in Seq(Places) /\ Len(A) = IF 1 <= n THEN n - 1 + 1 ELSE 0
        /\ \A i \in 1 .. n - 1 + 1 : A[i] = Row(m, t)[1 + i - 1]
    BY <2>1, <2>2, SubSeqProperties
  <2> HIDE DEF A
  <2> QED BY <1>7, <2>3
<1> HIDE DEF A
<1>13. Row(r, t) = A BY <1>4, <1>11, <1>12, SeqEqual
<1>14. Row(m, t) # <<>> BY <1>5, <1>7, <1>8, EmptySeq
<1>15. Len(Row(m, t)) - 1 = n BY <1>5, <1>7, <1>8
<1> QED BY <1>13, <1>14, <1>15 DEF A

\* The payloads of two blocks lie in memory and do not touch.
LEMMA PlacesApart ==
  ASSUME NEW m, InOrder(m), NEW a \in DOMAIN m.hdr, NEW c \in DOMAIN m.hdr, a # c
  PROVE  /\ Stacks!Interval(Place(m, a)) \subseteq 0 .. OS_MAX_MEM - 1
         /\ Stacks!Interval(Place(m, a)) \cap Stacks!Interval(Place(m, c)) = {}
<1> DEFINE la == m.hdr[a].len
           lc == m.hdr[c].len
<1>1. Heap(m, Used(m)) BY DEF InOrder
<1>2. /\ a \in Nat /\ c \in Nat /\ la \in Nat /\ lc \in Nat /\ HDR \in Nat
      /\ EndsOf(m)[a] = a + HDR + la /\ EndsOf(m)[c] = c + HDR + lc
  BY <1>1, BlockFacts, HdrPositive
<1>3. /\ a < c => EndsOf(m)[a] <= c
      /\ c < a => EndsOf(m)[c] <= a
      /\ EndsOf(m)[a] <= m.LastMEM
  BY <1>1 DEF Heap, Tiles
<1>4. m.LastMEM \in Nat /\ m.LastMEM < OS_MAX_MEM
  BY <1>1, SizesAssumption DEF Heap, Memory, Addr
<1> HIDE DEF la, lc
<1>5. /\ a + HDR .. a + HDR + la - 1 \subseteq 0 .. OS_MAX_MEM - 1
      /\ (a + HDR .. a + HDR + la - 1) \cap (c + HDR .. c + HDR + lc - 1) = {}
  BY <1>2, <1>3, <1>4, SizesAssumption
<1> QED BY <1>5 DEF Stacks!Interval, Place, la, lc

\* A frame given to t touches no frame that was live before, except those of the
\* program it replaces.
LEMMA PushPlaced ==
  ASSUME NEW m, NEW q, NEW r, NEW t \in Task, Does(m, q, r, t), Pushed(q, r, t)
  PROVE  LET f == Place(r, r.MemTail[t]) IN
         /\ Stacks!Interval(f) \subseteq 0 .. OS_MAX_MEM - 1
         /\ \A u \in Task : u # t \/ q = m =>
              \A c \in OwnedBy(m, u) :
                Stacks!Interval(f) \cap Stacks!Interval(Place(m, c)) = {}
<1> DEFINE a == r.MemTail[t]
           f == Place(r, a)
<1>1. /\ InOrder(q) /\ InOrder(r) /\ OthersKept(m, q, t) /\ OthersKept(q, r, t)
  BY DEF Does, Shrinks
<1>2. /\ a \notin Used(q) /\ Used(r) = Used(q) \cup {a}
      /\ SameRow(q, r, OwnedBy(q, t), q.MemTail[t])
  BY DEF Pushed, PushedAt
<1> HIDE DEF a
<1>3. a \in DOMAIN r.hdr BY <1>2 DEF Used
<1>4. Stacks!Interval(f) \subseteq 0 .. OS_MAX_MEM - 1
  <2> DEFINE la == r.hdr[a].len
  <2>1. Heap(r, Used(r)) BY <1>1 DEF InOrder
  <2>2. a \in Nat /\ la \in Nat /\ EndsOf(r)[a] = a + HDR + la
    BY <1>3, <2>1, BlockFacts
  <2>3. EndsOf(r)[a] <= r.LastMEM BY <1>3, <2>1 DEF Heap, Tiles
  <2>4. r.LastMEM \in Nat /\ r.LastMEM < OS_MAX_MEM
    BY <2>1, SizesAssumption DEF Heap, Memory, Addr
  <2> HIDE DEF la
  <2>5. a + HDR .. a + HDR + la - 1 \subseteq 0 .. OS_MAX_MEM - 1
    BY <2>2, <2>3, <2>4, SizesAssumption
  <2> QED BY <2>5 DEF Stacks!Interval, Place, la
<1>5. ASSUME NEW u \in Task, u # t \/ q = m, NEW c \in OwnedBy(m, u)
      PROVE  Stacks!Interval(f) \cap Stacks!Interval(Place(m, c)) = {}
  <2>1. c \in OwnedBy(q, u) /\ q.hdr[c] = m.hdr[c]
    BY <1>1, <1>5 DEF OthersKept, Untouched
  <2>2. r.hdr[c].len = q.hdr[c].len
    <3>1. CASE u = t BY <1>2, <2>1, <3>1 DEF SameRow
    <3>2. CASE u # t BY <1>1, <2>1, <3>2 DEF OthersKept, Untouched
    <3> QED BY <3>1, <3>2
  <2>3. c \in Used(q) BY <2>1 DEF OwnedBy, Used
  <2>4. c # a /\ c \in DOMAIN r.hdr BY <1>2, <2>3 DEF Used
  <2>5. Place(m, c) = Place(r, c) BY <2>1, <2>2 DEF Place
  <2> QED BY <1>1, <1>3, <2>4, <2>5, PlacesApart
<1> QED BY <1>4, <1>5 DEF a

\* The entries of a stack are the places of the frames.
LEMMA RowRange ==
  ASSUME NEW m, InOrder(m), NEW t \in Task
  PROVE  \A i \in DOMAIN Row(m, t) : \E c \in OwnedBy(m, t) : Row(m, t)[i] = Place(m, c)
<1>1. PICK s, n : IsRow(m, t, s, n) BY RowExists
<1>2. /\ Row(m, t) \in Seq(Places) /\ Len(Row(m, t)) = n
      /\ \A i \in 1 .. n : Row(m, t)[i] = Place(m, s[i])
      /\ \A i \in 1 .. n : s[i] \in OwnedBy(m, t)
  BY <1>1 DEF IsRow, IsList
<1>3. DOMAIN Row(m, t) = 1 .. n BY <1>2, LenProperties
<1> QED BY <1>2, <1>3

\* The stacks of all the tasks; an operation for t changes only that of t.
Stack(m) == [t \in Task |-> Row(m, t)]

LEMMA StackIs == FrameSeqs = Stack(mem) /\ FrameSeqs' = Stack(mem')
  BY DEF FrameSeqs, FrameSeq, Stack, Row, Place

LEMMA StackBecomes ==
  ASSUME NEW m, NEW q, NEW r, NEW t \in Task, InOrder(m), Does(m, q, r, t)
  PROVE  Stack(r) = [Stack(m) EXCEPT ![t] = Row(r, t)]
<1>1. InOrder(r) BY DEF Does
<1>2. ASSUME NEW u \in Task, u # t PROVE Row(r, u) = Row(m, u)
  <2>1. Untouched(m, r, u) BY <1>2, DoesSpares
  <2>2. SameFrames(m, r, u) BY <2>1 DEF Untouched, SameFrames
  <2> QED BY <1>1, <2>2, RowSame
<1> QED BY <1>2 DEF Stack

\* Each operation pushes, pops, drops, restarts, or leaves the stacks as they are.
LEMMA DoesRow ==
  ASSUME NEW m, NEW q, NEW r, NEW t \in Task, InOrder(m), Does(m, q, r, t)
  PROVE  LET f == Place(r, r.MemTail[t]) IN
         \/ /\ q = m /\ Pushed(q, r, t) /\ Row(r, t) = Append(Row(m, t), f)
            /\ Row(r, t) # <<>> /\ Row(r, t)[Len(Row(r, t))] = f
         \/ /\ Pushed(q, r, t) /\ Row(r, t) = <<f>>
            /\ Row(r, t) # <<>> /\ Row(r, t)[Len(Row(r, t))] = f
         \/ Row(r, t) = Row(m, t)
         \/ Row(r, t) = <<>>
         \/ /\ Row(m, t) # <<>>
            /\ Row(r, t) = SubSeq(Row(m, t), 1, Len(Row(m, t)) - 1)
<1>1. InOrder(q) /\ InOrder(r) BY DEF Does
<1>2. CASE q = m /\ Pushed(q, r, t) BY <1>1, <1>2, RowPushed
<1>3. CASE Ended(q, t) /\ Pushed(q, r, t)
  <2> DEFINE f == Place(r, r.MemTail[t])
  <2>1. Row(q, t) = <<>> BY <1>1, <1>3, RowEnded
  <2>2. Row(r, t) = Append(Row(q, t), f) BY <1>1, <1>3, RowPushed
  <2>3. Row(r, t) # <<>> /\ Row(r, t)[Len(Row(r, t))] = f BY <1>1, <1>3, RowPushed
  <2> HIDE DEF f
  <2>4. Append(<<>>, f) = <<f>> OBVIOUS
  <2> QED BY <1>3, <2>1, <2>2, <2>3, <2>4 DEF f
<1>4. CASE Stays(q, r, t) /\ (q = m \/ Ended(q, t) \/ Popped(m, q, t))
  <2>1. SameFrames(q, r, t) BY <1>4, SameStoreFacts DEF Stays, SameStore, SameFrames
  <2>2. Row(r, t) = Row(q, t) BY <1>1, <2>1, RowSame
  <2>3. CASE q = m BY <2>2, <2>3
  <2>4. CASE Ended(q, t) BY <1>1, <2>2, <2>4, RowEnded
  <2>5. CASE Popped(m, q, t) BY <1>1, <2>2, <2>5, RowPopped
  <2> QED BY <1>4, <2>3, <2>4, <2>5
<1> QED BY <1>2, <1>3, <1>4 DEF Does, Gains

\* An operation of the allocator is a step of FrameStacks, or none.
LEMMA StackNext ==
  ASSUME Inv, NEW q, NEW t \in Task, Does(mem, q, mem', t)
  PROVE  Stacks!Next \/ FrameSeqs' = FrameSeqs
<1> DEFINE S == Stack(mem)
           N == Stack(mem')
           f == Place(mem', mem'.MemTail[t])
<1>1. FrameSeqs = S /\ FrameSeqs' = N BY StackIs
<1>2. InOrder(mem) /\ InOrder(mem') BY DEF Inv, Does
<1>3. N = [S EXCEPT ![t] = N[t]] /\ S[t] = Row(mem, t) /\ N[t] = Row(mem', t)
  <2>1. N[t] = Row(mem', t) /\ S[t] = Row(mem, t) BY DEF Stack
  <2>2. N = [S EXCEPT ![t] = Row(mem', t)] BY <1>2, StackBecomes
  <2> QED BY <2>1, <2>2
<1>4. ASSUME NEW u \in Task, NEW g \in Stacks!FramesOf(u)
      PROVE  \E c \in OwnedBy(mem, u) : g = Place(mem, c)
  <2>1. Stacks!FramesOf(u) = {S[u][i] : i \in DOMAIN S[u]} BY <1>1 DEF Stacks!FramesOf
  <2>2. S[u] = Row(mem, u) BY DEF Stack
  <2> HIDE DEF S
  <2>3. PICK i \in DOMAIN Row(mem, u) : g = Row(mem, u)[i] BY <1>4, <2>1, <2>2
  <2> QED BY <1>2, <2>3, RowRange
<1>5. S = [S EXCEPT ![t] = S[t]] BY DEF Stack
<1> HIDE DEF S, N, f
<1>6. ASSUME Pushed(q, mem', t)
      PROVE  /\ Stacks!Placed(f, Stacks!Live \ Stacks!FramesOf(t))
             /\ q = mem => Stacks!Placed(f, Stacks!Live)
  <2>1. /\ Stacks!Interval(f) \subseteq 0 .. OS_MAX_MEM - 1
        /\ \A u \in Task : u # t \/ q = mem =>
              \A c \in OwnedBy(mem, u) :
                Stacks!Interval(f) \cap Stacks!Interval(Place(mem, c)) = {}
    BY <1>6, PushPlaced DEF f
  <2>2. ASSUME NEW u \in Task, u # t \/ q = mem, NEW g \in Stacks!FramesOf(u)
        PROVE  Stacks!Interval(f) \cap Stacks!Interval(g) = {}
    <3>1. PICK c \in OwnedBy(mem, u) : g = Place(mem, c) BY <1>4
    <3> QED BY <2>1, <2>2, <3>1
  <2>3. \A g \in Stacks!Live : \E u \in Task : g \in Stacks!FramesOf(u) BY DEF Stacks!Live
  <2> QED BY <2>1, <2>2, <2>3 DEF Stacks!Placed
<1>7. CASE /\ Pushed(q, mem', t) /\ N[t] # <<>> /\ N[t][Len(N[t])] = f
           /\ (q = mem /\ N[t] = Append(S[t], f)) \/ N[t] = <<f>>
  <2>1. Stacks!Newest[t] = f BY <1>1, <1>7 DEF Stacks!Newest
  <2>2. ASSUME q = mem, N[t] = Append(S[t], f) PROVE Stacks!Push(t)
    BY <1>1, <1>3, <1>6, <1>7, <2>1, <2>2 DEF Stacks!Push, Stacks!Becomes
  <2>3. ASSUME N[t] = <<f>> PROVE Stacks!Restart(t)
    BY <1>1, <1>3, <1>6, <1>7, <2>1, <2>3 DEF Stacks!Restart, Stacks!Becomes
  <2> QED BY <1>7, <2>2, <2>3 DEF Stacks!Next
<1>8. CASE N[t] = S[t] BY <1>1, <1>3, <1>5, <1>8
<1>9. CASE N[t] = <<>>
  <2>1. Stacks!Drop(t) BY <1>1, <1>3, <1>9 DEF Stacks!Drop, Stacks!Becomes
  <2> QED BY <2>1 DEF Stacks!Next
<1>10. CASE S[t] # <<>> /\ N[t] = SubSeq(S[t], 1, Len(S[t]) - 1)
  <2>1. Stacks!Pop(t) BY <1>1, <1>3, <1>10 DEF Stacks!Pop, Stacks!Becomes
  <2> QED BY <2>1 DEF Stacks!Next
<1> QED BY <1>2, <1>3, <1>7, <1>8, <1>9, <1>10, DoesRow DEF f

\* The allocator implements FrameStacks: a call is given an interval that no live
\* frame touches, a return takes the newest frame of its task and no other, the end
\* of a task takes all of its frames and reboot_all those of every task.
THEOREM HeapIsFrameStacks == Spec => IsFrameStacks
<1>1. Init => Stacks!Init
  <2> SUFFICES ASSUME Init PROVE Stacks!Init OBVIOUS
  <2>1. mem = init_mem_info({}) BY DEF Init
  <2>2. InOrder(mem) /\ \A t \in Task : Ended(mem, t)
    <3>1. \A t \in Task : mem.MemHead[t] = NULL BY <2>1 DEF init_mem_info
    <3> QED BY <2>1, <3>1, FreshInOrder DEF Ended
  <2>3. \A t \in Task : Row(mem, t) = <<>> BY <2>2, RowEnded
  <2>4. FrameSeqs = [t \in Task |-> <<>>] BY <2>3, StackIs DEF Stack
  <2> QED BY <2>4 DEF Stacks!Init
<1>2. Inv /\ [Next]_vars => [Stacks!Next]_FrameSeqs
  <2> SUFFICES ASSUME Inv, [Next]_vars PROVE Stacks!Next \/ FrameSeqs' = FrameSeqs OBVIOUS
  <2>1. CASE mem' = mem
    <3>1. FrameSeqs' = FrameSeqs BY <2>1, StackIs
    <3> QED BY <3>1
  <2>2. CASE Next /\ mem' # mem
    <3>1. RebootAll \/ \E t \in Task : Step(mem, t) BY <2>2, NextDoes DEF vars
    <3>2. CASE RebootAll
      <4>1. InOrder(mem') /\ \A t \in Task : Ended(mem', t) BY <3>2, Rebooted DEF Inv
      <4>2. \A t \in Task : Row(mem', t) = <<>> BY <4>1, RowEnded
      <4>3. FrameSeqs' = [t \in Task |-> <<>>] BY <4>2, StackIs DEF Stack
      <4> QED BY <4>3 DEF Stacks!Next, Stacks!Reboot
    <3> QED BY <3>1, <3>2, StackNext DEF Step
  <2> QED BY <2>1, <2>2 DEF vars
<1> QED BY <1>1, <1>2, Invariance, PTL DEF Spec, IsFrameStacks, Stacks!Spec
=============================================================================
