------------------------------- MODULE ARSHeap -------------------------------
(***************************************************************************)
(* Tasks running on the frame allocator.  The interpreter executes one     *)
(* instruction of one task at a time, and between two instructions the     *)
(* host may start, kill or restart a task (src/Core/ARSSCHED.cpp), so the  *)
(* heap sees an arbitrary interleaving of the operations of ARSMemory.     *)
(*                                                                         *)
(* A program may call, return or halt whenever it runs; what it may not do *)
(* in this module is store outside its own frame.  The interpreter itself  *)
(* does store outside it when it runs a task that has no frame; what       *)
(* runMem holds from then on is not determined by the allocator, and the   *)
(* variable wild records that this has happened.                           *)
(***************************************************************************)
EXTENDS ARSMemory, Sequences

CONSTANT FrameSize       \* memory requests a program's subroutines make

ASSUME FrameSizeAssumption == FrameSize \subseteq Nat

VARIABLES mem, wild
vars == <<mem, wild>>

Ttl == {CTX + s : s \in FrameSize}

Init == mem = init_mem_info({}) /\ wild = FALSE

Running(t) == mem.alive[t] /\ ~wild
\* A running task whose frames are gone (see Ret) or never came (see NoFrame).
Homeless(t) == mem.MemTail[t] = NULL

\* The effect of call on memory state m, for task t.
Enter(m, t, ttl) ==
  IF CanAllocate(m, t, ttl) THEN mem' = call(m, t, ttl) /\ UNCHANGED wild
  ELSE mem' = NoFrame(m, t) /\ wild' = TRUE

\* Instruction CALL.
Call(t, ttl) == Running(t) /\ Enter(mem, t, ttl)

\* Instruction RET in a subroutine, and in a main program.
Ret(t) ==
  /\ Running(t) /\ ~Homeless(t)
  /\ mem' = ret(mem, t)
  /\ UNCHANGED wild

\* Instruction HLT: a running task without frames runs on past it.
Hlt(t) ==
  /\ Running(t)
  /\ mem' = hlt(mem, t)
  /\ UNCHANGED wild

\* Any instruction that loads or stores a variable, and RET, in a task without
\* frames: FindPhyMemOffByID fails, nobody looks, and the stale CurPhyMem is used.
Stray(t) ==
  /\ Running(t) /\ Homeless(t)
  /\ wild' = TRUE
  /\ UNCHANGED mem

\* arssched_start (and arssched_load at boot): a slot that does not run.
Start(t, ttl) == ~wild /\ ~mem.alive[t] /\ Enter(mem, t, ttl)

\* arssched_killId.
Kill(t) ==
  /\ ~wild
  /\ mem' = [ReArrangeMemAndTask(mem, t) EXCEPT !.alive[t] = FALSE]
  /\ UNCHANGED wild

\* arssched_restart: the old program's frames are released, then call.
Restart(t, ttl) == ~wild /\ Enter(ReArrangeMemAndTask(mem, t), t, ttl)

\* arssched_rebootAll: the allocator forgets every block and every task, and runMem
\* keeps its bytes; the programs arssched_load then starts are Starts.
RebootAll == ~wild /\ mem' = init_mem_info(mem.nz) /\ UNCHANGED wild

\* Nothing is claimed of a memory that was written at random.
Lost == wild /\ UNCHANGED vars

Next ==
  \/ \E t \in Task : \/ \E ttl \in Ttl : Call(t, ttl) \/ Start(t, ttl) \/ Restart(t, ttl)
                     \/ Ret(t) \/ Hlt(t) \/ Stray(t) \/ Kill(t)
  \/ RebootAll
  \/ Lost

Spec == Init /\ [][Next]_vars

-----------------------------------------------------------------------------
\* The fields of Memory.cpp's globals hold what their C types and null allow.
TypeOK ==
  /\ wild \in BOOLEAN
  /\ DOMAIN mem.hdr \subseteq Addr
  /\ mem.hdr \in [DOMAIN mem.hdr -> Header]
  /\ mem.nz \subseteq Addr
  /\ mem.FreeHead \in Link /\ mem.FreeTail \in Link
  /\ mem.LastMEM \in Addr
  /\ mem.MemHead \in [Task -> Link] /\ mem.MemTail \in [Task -> Link]
  /\ mem.MemLevel \in [Task -> Int]
  /\ mem.alive \in [Task -> BOOLEAN]

\* Memory.cpp never loses or shares a byte: the blocks, free or owned, follow
\* each other without gap or overlap from the start of runMem up to LastMEM.
Tiling == ~wild => Tiled(mem)

\* The free list holds exactly the blocks marked FREE, and is doubly linked
\* between FreeHead and FreeTail, whatever was split, merged or taken from it.
FreeListExact == ~wild => FreeListed(mem)

\* SuperFree leaves no two neighbouring free blocks behind: a task that ends
\* gives back room for as large a frame as its place allows.
Coalesced == ~wild => Merged(mem)

\* No frame outlives its task and no task loses one of its frames: the frames
\* on the list from MemHead to MemTail are all the blocks the task owns, one
\* per level of MemLevel.
FramesExact == ~wild => FramesListed(mem) /\ Levels(mem)

\* Memory that was given back is zero: below LastMEM nothing but the headers and
\* the payloads of live frames holds a non-zero byte, so a frame cut from the free
\* list starts from zero.  One put at LastMEM does so only until the first
\* reboot_all, which takes LastMEM back to the start and clears nothing.
ZeroOutsideFrames == ~wild => Zeroed(mem)

\* LastMEM, which comes down with reboot_all alone, only goes up when no listed
\* block would have done: calling the same subroutine again and again does not
\* eat the memory.
GrowsOnlyWhenNothingFits ==
  [][mem'.LastMEM > mem.LastMEM =>
       \A a \in Listed(mem) : mem.hdr[a].len < mem'.LastMEM - mem.LastMEM - HDR]_vars

\* One operation works for one task (reboot_all alone for all of them): the frames
\* of the others keep their place, their length, their links and their bytes.
OneTaskAtATime ==
  [][~RebootAll /\ ~wild' => \E t \in Task : \A a \in DOMAIN mem.hdr :
       (~IsFree(mem, a) /\ mem.hdr[a].id # t) =>
          /\ a \in DOMAIN mem'.hdr /\ mem'.hdr[a] = mem.hdr[a]
          /\ Payload(mem, a) \cap mem.nz \subseteq mem'.nz]_vars

\* The allocator implements FrameStacks: a frame is an interval no live frame
\* touches, ret pops the newest and the end of a task drops all of its frames.
FrameSeq(t) ==
  [i \in 1 .. Cardinality(Frames(mem, t)) |->
     LET a == Walk(mem, mem.MemHead[t], {})[i - 1]
     IN  [base |-> a + HDR, size |-> mem.hdr[a].len]]
FrameSeqs == [t \in Task |-> FrameSeq(t)]
Stacks == INSTANCE FrameStacks WITH stack <- FrameSeqs
IsFrameStacks == Stacks!Spec
=============================================================================
