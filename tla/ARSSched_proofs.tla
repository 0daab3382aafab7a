--------------------------- MODULE ARSSched_proofs ---------------------------
(***************************************************************************)
(* Theorems about ARSSched, for any number of slots, any size of runMem,   *)
(* of the parameter stacks and of a header, and any programs, SCHEDULE and *)
(* messages.  What the allocator does is cited from ARSMemory_proofs.      *)
(***************************************************************************)
EXTENDS ARSSched, ARSMemory_proofs

\* The globals of the kernel.
System ==
  [mem : Memory, wild : BOOLEAN, IndexOfSPS : [Task -> 0 .. OS_MAX_PARAM],
   Msgs : [Task -> Letter \cup {NONE}], taskName : [Task -> Name \cup {NONE}],
   gSchedTasks : 0 .. OS_MAX_TASK]

(***************************************************************************)
(* The inductive invariant: the kernel's globals have their types, the     *)
(* heap is in order, and until a stray write every level of MemLevel has   *)
(* its frame.                                                              *)
(***************************************************************************)
Sound(s) == s \in System /\ InOrder(s.mem) /\ (~s.wild => Levels(s.mem))
Inv == /\ Sound(sys) /\ tid \in Task
       /\ file \in [Name -> MainSize \cup {NOFILE}] /\ schedule \in Schedule

-----------------------------------------------------------------------------
\* What a change of slot t leaves of slot u.
SlotKept(s, r, u) ==
  /\ Untouched(s.mem, r.mem, u)
  /\ r.IndexOfSPS[u] = s.IndexOfSPS[u] /\ r.taskName[u] = s.taskName[u]
SlotsKept(s, r, t) == \A u \in Task \ {t} : SlotKept(s, r, u)

\* Slots that are kept twice are kept.
LEMMA KeptKept ==
  ASSUME NEW s, NEW q, NEW r, NEW u, SlotKept(s, q, u), SlotKept(q, r, u)
  PROVE  SlotKept(s, r, u)
  BY DEF SlotKept, Untouched

\* How many tasks run is a number of slots.
LEMMA CountSlots == \A s : aliveCount(s) \in 0 .. OS_MAX_TASK
<1> SUFFICES ASSUME NEW s PROVE aliveCount(s) \in 0 .. OS_MAX_TASK OBVIOUS
<1> DEFINE S == {t \in Task : alive(s, t)}
<1>1. IsFiniteSet(Task) /\ Cardinality(Task) = OS_MAX_TASK
  BY SlotAssumption, FS_Interval
<1>2. S \subseteq Task OBVIOUS
<1> HIDE DEF S
<1>3. Cardinality(S) \in Nat /\ Cardinality(S) <= OS_MAX_TASK
  BY <1>1, <1>2, FS_Subset, FS_CardinalityType
<1> QED BY <1>3, SlotAssumption DEF aliveCount, S

\* The count is stored beside the rest.
LEMMA CountedSound ==
  ASSUME NEW s, Sound(s), NEW n \in 0 .. OS_MAX_TASK
  PROVE  LET r == [s EXCEPT !.gSchedTasks = n] IN
         /\ Sound(r) /\ r.mem = s.mem /\ r.wild = s.wild /\ r.IndexOfSPS = s.IndexOfSPS
         /\ r.Msgs = s.Msgs /\ r.taskName = s.taskName /\ \A u \in Task : SlotKept(s, r, u)
<1> DEFINE r == [s EXCEPT !.gSchedTasks = n]
<1>1. s \in System BY DEF Sound
<1>2. /\ r \in System /\ r.mem = s.mem /\ r.wild = s.wild /\ r.IndexOfSPS = s.IndexOfSPS
      /\ r.Msgs = s.Msgs /\ r.taskName = s.taskName
  BY <1>1 DEF System
<1> HIDE DEF r
<1>3. Sound(r) BY <1>2 DEF Sound
<1>4. \A u \in Task : SlotKept(s, r, u) BY <1>2 DEF SlotKept, Untouched
<1> QED BY <1>2, <1>3, <1>4 DEF r

\* The heap of a sound system becomes another heap in order.
LEMMA MemSound ==
  ASSUME NEW s, Sound(s), NEW m, InOrder(m), ~s.wild => Levels(m)
  PROVE  LET r == [s EXCEPT !.mem = m] IN
         /\ Sound(r) /\ r.mem = m /\ r.wild = s.wild /\ r.IndexOfSPS = s.IndexOfSPS
         /\ r.Msgs = s.Msgs /\ r.taskName = s.taskName
<1> DEFINE r == [s EXCEPT !.mem = m]
<1>1. s \in System /\ m \in Memory BY DEF Sound, InOrder, Heap
<1>2. /\ r \in System /\ r.mem = m /\ r.wild = s.wild /\ r.IndexOfSPS = s.IndexOfSPS
      /\ r.Msgs = s.Msgs /\ r.taskName = s.taskName
  BY <1>1 DEF System
<1> HIDE DEF r
<1>3. Sound(r) BY <1>2 DEF Sound
<1> QED BY <1>2, <1>3 DEF r

-----------------------------------------------------------------------------
\* The memory after call in slot t, with or without a frame for it.
CallMem(s, t, size) ==
  IF CanAllocate(s.mem, t, CTX + size) THEN call(s.mem, t, CTX + size) ELSE NoFrame(s.mem, t)

LEMMA CallMemSound ==
  ASSUME NEW s, Sound(s), NEW t \in Task, NEW size \in Nat
  PROVE  LET m == CallMem(s, t, size) IN
         /\ InOrder(m) /\ OthersKept(s.mem, m, t) /\ m.alive[t]
         /\ (Levels(s.mem) /\ CanAllocate(s.mem, t, CTX + size) => Levels(m))
<1>1. InOrder(s.mem) /\ CTX + size \in Nat BY SizesAssumption DEF Sound
<1>2. CASE CanAllocate(s.mem, t, CTX + size)
  <2> DEFINE e == call(s.mem, t, CTX + size)
  <2>1. InOrder(e) /\ (Levels(s.mem) => Levels(e)) /\ e.alive[t]
    BY <1>1, <1>2, CallInOrder
  <2>2. OthersKept(s.mem, e, t) BY <1>1, <1>2, CallInOrder
  <2> HIDE DEF e
  <2>3. CallMem(s, t, size) = e BY <1>2 DEF CallMem, e
  <2> QED BY <2>1, <2>2, <2>3
<1>3. CASE ~CanAllocate(s.mem, t, CTX + size)
  <2> DEFINE e == NoFrame(s.mem, t)
  <2>1. InOrder(e) /\ OthersKept(s.mem, e, t) /\ e.alive[t] BY <1>1, NoFrameInOrder
  <2> HIDE DEF e
  <2>2. CallMem(s, t, size) = e BY <1>3 DEF CallMem, e
  <2> QED BY <1>3, <2>1, <2>2
<1> QED BY <1>2, <1>3

\* call in slot t: the slots of the others, their stacks and mailboxes stay.
Called(s, r, t, size) ==
  /\ Sound(r) /\ r.mem = CallMem(s, t, size) /\ r.mem.alive[t]
  /\ r.Msgs = s.Msgs /\ r.taskName = s.taskName /\ SlotsKept(s, r, t)
  /\ (s.wild \/ ~CanAllocate(s.mem, t, CTX + size)) => r.wild

LEMMA CallInSound ==
  ASSUME NEW s, Sound(s), NEW t \in Task, NEW size \in Nat
  PROVE  Called(s, CallIn(s, t, size), t, size)
<1> DEFINE ok == CanAllocate(s.mem, t, CTX + size)
           m == CallMem(s, t, size)
           over == ok /\ CTX + s.IndexOfSPS[t] > m.hdr[m.MemTail[t]].len
           w == s.wild \/ ~ok \/ over
           r == CallIn(s, t, size)
<1>1. r = [s EXCEPT !.mem = m, !.wild = w, !.IndexOfSPS[t] = 0]
  BY DEF CallIn, CallMem
<1>2. /\ InOrder(m) /\ OthersKept(s.mem, m, t) /\ m.alive[t]
      /\ (Levels(s.mem) /\ ok => Levels(m))
  BY CallMemSound
<1>3. w \in BOOLEAN /\ (s.wild \/ ~ok => w) OBVIOUS
<1> HIDE DEF w, m, ok, r
<1>4. s \in System /\ m \in Memory /\ 0 \in 0 .. OS_MAX_PARAM
  BY <1>2, ParamAssumption DEF Sound, InOrder, Heap
<1>5. /\ r \in System /\ r.mem = m /\ r.wild = w /\ r.Msgs = s.Msgs /\ r.taskName = s.taskName
      /\ \A u \in Task : u # t => r.IndexOfSPS[u] = s.IndexOfSPS[u]
  BY <1>1, <1>3, <1>4 DEF System
<1>6. Sound(r) BY <1>2, <1>3, <1>5 DEF Sound
<1>7. SlotsKept(s, r, t) BY <1>2, <1>5 DEF SlotsKept, SlotKept, OthersKept
<1> QED BY <1>2, <1>3, <1>5, <1>6, <1>7 DEF Called, m, r, ok

\* A program begins in slot t: its name stands in the table.
Begun(s, r, t, n) ==
  /\ Sound(r) /\ r.mem = CallMem(s, t, file[n]) /\ r.mem.alive[t]
  /\ r.Msgs = s.Msgs /\ r.taskName[t] = n /\ SlotsKept(s, r, t)
  /\ (s.wild \/ ~CanAllocate(s.mem, t, CTX + file[n])) => r.wild

LEMMA BeginSound ==
  ASSUME NEW s, Sound(s), NEW t \in Task, NEW n \in Name, file[n] \in Nat
  PROVE  Begun(s, Begin(s, t, n), t, n)
<1> DEFINE c == CallIn(s, t, file[n])
           r == Begin(s, t, n)
<1>1. Called(s, c, t, file[n]) BY CallInSound
<1>2. r = [c EXCEPT !.taskName[t] = n] BY DEF Begin
<1> HIDE DEF c, r
<1>3. c \in System /\ Sound(c) BY <1>1 DEF Called, Sound
<1>4. /\ r \in System /\ r.mem = c.mem /\ r.wild = c.wild /\ r.Msgs = c.Msgs
      /\ r.IndexOfSPS = c.IndexOfSPS
      /\ \A u \in Task : r.taskName[u] = IF u = t THEN n ELSE c.taskName[u]
  BY <1>2, <1>3 DEF System
<1>5. Sound(r) BY <1>3, <1>4 DEF Sound
<1>6. SlotsKept(s, r, t) BY <1>1, <1>4 DEF Called, SlotsKept, SlotKept
<1> QED BY <1>1, <1>4, <1>5, <1>6 DEF Called, Begun, r

-----------------------------------------------------------------------------
\* killid t.
Kills(s, r, t) ==
  /\ Sound(r) /\ r.Msgs = s.Msgs /\ r.wild = s.wild
  /\ r.taskName[t] = NONE /\ OwnedBy(r.mem, t) = {} /\ SlotsKept(s, r, t)

LEMMA KilledSound ==
  ASSUME NEW s, Sound(s), ~s.wild, NEW t \in Task
  PROVE  Kills(s, Killed(s, t), t)
<1> DEFINE q == ReArrangeMemAndTask(s.mem, t)
           m == [q EXCEPT !.alive[t] = FALSE]
           off == [s EXCEPT !.mem = m, !.taskName[t] = NONE]
           r == Killed(s, t)
<1>1. r = [off EXCEPT !.gSchedTasks = aliveCount(off)] BY DEF Killed
<1>2. InOrder(s.mem) /\ Levels(s.mem) /\ s \in System BY DEF Sound
<1>3. InOrder(q) /\ q.MemHead[t] = NULL /\ Levels(q) /\ Shrinks(s.mem, q, t)
  BY <1>2, ReArrangeInOrder
<1> HIDE DEF q
<1>4. InOrder(m) /\ Levels(m) /\ SameStore(q, m) BY <1>3, AliveInOrder
<1>5. /\ m.MemHead = q.MemHead /\ m.MemTail = q.MemTail /\ m.MemLevel = q.MemLevel
      /\ \A u \in Task : m.alive[u] = IF u = t THEN FALSE ELSE q.alive[u]
  BY <1>3, AliveInOrder
<1> HIDE DEF m
<1>6. OthersKept(s.mem, m, t)
  <2>1. \A u \in Task : OwnedBy(m, u) = OwnedBy(q, u) BY <1>4, SameStoreFacts
  <2>2. OthersKept(s.mem, q, t) BY <1>3 DEF Shrinks
  <2> QED BY <1>4, <1>5, <2>1, <2>2, ZenonT(40) DEF OthersKept, Untouched, SameStore
<1>7. OwnedBy(m, t) = {}
  <2>1. m.MemHead[t] = NULL BY <1>3, <1>5
  <2> QED BY <1>4, <2>1, OwnedFacts
<1>8. m \in Memory BY <1>4 DEF InOrder, Heap
<1>9. /\ off \in System /\ off.mem = m /\ off.wild = s.wild /\ off.Msgs = s.Msgs
      /\ off.IndexOfSPS = s.IndexOfSPS
      /\ \A u \in Task : off.taskName[u] = IF u = t THEN NONE ELSE s.taskName[u]
  BY <1>2, <1>8 DEF System
<1> HIDE DEF off, r
<1>10. Sound(off) BY <1>4, <1>9 DEF Sound
<1>11. /\ Sound(r) /\ r.mem = off.mem /\ r.wild = off.wild /\ r.IndexOfSPS = off.IndexOfSPS
       /\ r.Msgs = off.Msgs /\ r.taskName = off.taskName
  BY <1>1, <1>10, CountSlots, CountedSound
<1>12. SlotsKept(s, r, t) BY <1>6, <1>9, <1>11 DEF SlotsKept, SlotKept, OthersKept
<1> QED BY <1>7, <1>9, <1>11, <1>12 DEF Kills, r

-----------------------------------------------------------------------------
(***************************************************************************)
(* arssched_load.                                                          *)
(***************************************************************************)
\* All of t's memory is one frame of len bytes.
OnlyFrame(m, t, len) == OwnedBy(m, t) = {m.MemTail[t]} /\ m.hdr[m.MemTail[t]].len = len
Packed(m) == Spare(m, Used(m)) = {}

\* While no memory has been given back, a program that begins in a slot without
\* frames gets one of exactly the size it asks for.
LEMMA BeginFresh ==
  ASSUME NEW s, Sound(s), NEW t \in Task, NEW n \in Name, file[n] \in Nat,
         Packed(s.mem), OwnedBy(s.mem, t) = {}
  PROVE  LET r == Begin(s, t, n) IN
         Packed(r.mem) /\ (~r.wild => OnlyFrame(r.mem, t, CTX + file[n]))
<1> DEFINE r == Begin(s, t, n)
<1>1. /\ r.mem = CallMem(s, t, file[n])
      /\ ~CanAllocate(s.mem, t, CTX + file[n]) => r.wild
  BY BeginSound DEF Begun
<1>2. InOrder(s.mem) /\ CTX + file[n] \in Nat BY SizesAssumption DEF Sound
<1> HIDE DEF r
<1>3. CASE CanAllocate(s.mem, t, CTX + file[n])
  <2> DEFINE m == call(s.mem, t, CTX + file[n])
  <2>1. Packed(m) /\ m.hdr[m.MemTail[t]].len = CTX + file[n]
    BY <1>2, <1>3, CallFresh DEF Packed
  <2>2. Pushed(s.mem, m, t) BY <1>2, <1>3, CallInOrder
  <2> HIDE DEF m
  <2>3. r.mem = m BY <1>1, <1>3 DEF CallMem, m
  <2>4. OwnedBy(m, t) = {m.MemTail[t]} BY <2>2 DEF Pushed, PushedAt
  <2> QED BY <2>1, <2>3, <2>4 DEF OnlyFrame, r
<1>4. CASE ~CanAllocate(s.mem, t, CTX + file[n])
  <2> DEFINE m == NoFrame(s.mem, t)
  <2>1. SameStore(s.mem, m) BY <1>2, NoFrameInOrder
  <2> HIDE DEF m
  <2>2. r.mem = m BY <1>1, <1>4 DEF CallMem, m
  <2>3. Packed(m) BY <2>1, SameStoreFacts DEF Packed
  <2> QED BY <1>1, <1>4, <2>2, <2>3 DEF r
<1> QED BY <1>3, <1>4

\* The programs there are.
Programs == {n \in Name : Loadable(n)}

LEMMA ProgramSize ==
  ASSUME file \in [Name -> MainSize \cup {NOFILE}], NEW n \in Programs
  PROVE  n \in Name /\ file[n] \in Nat
<1>1. n \in Name BY DEF Programs
<1>2. file[n] \in MainSize \cup {NOFILE} BY <1>1
<1>3. file[n] # NOFILE BY DEF Programs, Loadable
<1>4. file[n] \in Nat BY <1>2, <1>3, ProgramAssumption
<1> QED BY <1>1, <1>4

\* The lines that are loaded are programs.
LEMMA LinesAre ==
  ASSUME schedule \in Schedule
  PROVE  Lines \in Seq(Programs)
<1> DEFINE n == Len(schedule)
           H == Seq(Programs)
           P(f) == f = [k \in 0 .. n |->
                          CASE k = 0 -> <<>>
                            [] k # 0 /\ Loadable(schedule[k]) -> Append(f[k - 1], schedule[k])
                            [] OTHER -> f[k - 1]]
           kept == CHOOSE f : P(f)
           B == [p \in Nat \X H |-> IF Loadable(schedule[p[1] + 1])
                                     THEN Append(p[2], schedule[p[1] + 1]) ELSE p[2]]
           T == [k \in Nat |-> H]
<1>1. Lines = kept[n] BY DEF Lines
<1>2. /\ schedule \in Seq(Name) /\ n \in Nat
      /\ \A k \in Nat : k < n => schedule[k + 1] \in Name
  BY NameAssumption
<1>3. \A k \in Nat, h \in H :
        B[<<k, h>>] = IF Loadable(schedule[k + 1]) THEN Append(h, schedule[k + 1]) ELSE h
  OBVIOUS
<1>4. T[0] = H /\ \A k \in Nat : T[k] = H /\ T[k + 1] = H OBVIOUS
<1> HIDE DEF B, T, n, kept
<1>5. ASSUME NEW k \in Nat, NEW h \in H, k < n PROVE B[<<k, h>>] \in H
  <2>1. CASE Loadable(schedule[k + 1])
    <3>1. schedule[k + 1] \in Programs BY <1>2, <1>5, <2>1 DEF Programs
    <3>2. Append(h, schedule[k + 1]) \in H BY <3>1
    <3> QED BY <1>3, <2>1, <3>2
  <2>2. CASE ~Loadable(schedule[k + 1]) BY <1>3, <2>2
  <2> QED BY <2>1, <2>2
<1>6. <<>> \in H OBVIOUS
<1> HIDE DEF H
<1>7. Stages(n, H, B, T, <<>>) BY <1>2, <1>4, <1>5, <1>6 DEF Stages
<1>8. P(kept)
  <2>1. PICK f \in [0 .. n -> H] : /\ f[0] = <<>>
                                   /\ \A k \in 1 .. n : f[k] = B[<<k - 1, f[k - 1]>>]
    BY <1>7, StagesExist
  <2>2. ASSUME NEW k \in 0 .. n, k # 0
        PROVE  f[k] = IF Loadable(schedule[k]) THEN Append(f[k - 1], schedule[k]) ELSE f[k - 1]
    <3>1. k \in 1 .. n /\ k - 1 \in Nat /\ k - 1 \in 0 .. n /\ (k - 1) + 1 = k BY <1>2, <2>2
    <3>2. f[k - 1] \in H BY <2>1, <3>1
    <3> QED BY <1>3, <2>1, <3>1, <3>2
  <2>3. P(f) BY <2>1, <2>2
  <2> HIDE DEF P
  <2> QED BY <2>3 DEF kept
<1>9. kept[0] = <<>> BY <1>2, <1>8
<1>10. ASSUME NEW k \in 1 .. n, kept[k - 1] \in H PROVE kept[k] = B[<<k - 1, kept[k - 1]>>]
  <2>1. k \in 0 .. n /\ k # 0 /\ k - 1 \in Nat /\ (k - 1) + 1 = k BY <1>2
  <2>2. kept[k] = IF Loadable(schedule[k]) THEN Append(kept[k - 1], schedule[k])
                  ELSE kept[k - 1]
    BY <1>8, <2>1
  <2> HIDE DEF P
  <2> QED BY <1>3, <1>10, <2>1, <2>2
<1> HIDE DEF P
<1>11. \A k \in 0 .. n : kept[k] \in H BY <1>7, <1>9, <1>10, StagesHold
<1> QED BY <1>1, <1>2, <1>11 DEF H

LEMMA LoadedIs ==
  ASSUME schedule \in Schedule
  PROVE  /\ Loaded \in 0 .. OS_MAX_TASK
         /\ \A k \in Nat : k < Loaded => k \in Task /\ Lines[k + 1] \in Programs
<1>1. Lines \in Seq(Programs) /\ Len(Lines) \in Nat BY LinesAre
<1>2. OS_MAX_TASK \in Nat /\ Task = 0 .. OS_MAX_TASK - 1 BY SlotAssumption
<1>3. Loaded \in 0 .. OS_MAX_TASK /\ Loaded <= Len(Lines) BY <1>1, <1>2 DEF Loaded
<1> QED BY <1>1, <1>2, <1>3

\* The program of line t + 1 runs in slot t, alone and in one frame.
Runs(r, t) ==
  /\ r.mem.alive[t] /\ r.taskName[t] = Lines[t + 1]
  /\ ~r.wild => OnlyFrame(r.mem, t, CTX + file[Lines[t + 1]])
Vacant(r, t) == ~r.mem.alive[t] /\ OwnedBy(r.mem, t) = {}

\* s, after the first k lines have been loaded.
LoadedSoFar(s, r, k) ==
  /\ Sound(r) /\ Packed(r.mem) /\ r.Msgs = s.Msgs
  /\ \A t \in Task : (t < k => Runs(r, t)) /\ (t >= k => Vacant(r, t))

LEMMA LoadStep ==
  ASSUME file \in [Name -> MainSize \cup {NOFILE}], schedule \in Schedule,
         NEW s, NEW q, NEW k \in Nat, k < Loaded, LoadedSoFar(s, q, k)
  PROVE  LoadedSoFar(s, Begin(q, k, Lines[k + 1]), k + 1)
<1> DEFINE n == Lines[k + 1]
           r == Begin(q, k, n)
<1>1. k \in Task /\ n \in Name /\ file[n] \in Nat BY LoadedIs, ProgramSize
<1>2. Sound(q) /\ Packed(q.mem) /\ q.Msgs = s.Msgs /\ Vacant(q, k)
  <2>1. k >= k OBVIOUS
  <2> QED BY <1>1, <2>1 DEF LoadedSoFar
<1> HIDE DEF n
<1>3. Begun(q, r, k, n) BY <1>1, <1>2, BeginSound
<1>4. Packed(r.mem) /\ (~r.wild => OnlyFrame(r.mem, k, CTX + file[n]))
  BY <1>1, <1>2, BeginFresh DEF Vacant
<1> HIDE DEF r
<1>5. Runs(r, k) BY <1>3, <1>4 DEF Runs, Begun, n
<1>6. ASSUME NEW t \in Task, t # k PROVE (t < k => Runs(r, t)) /\ (t > k => Vacant(r, t))
  <2>1. SlotKept(q, r, t) BY <1>3, <1>6 DEF Begun, SlotsKept
  <2>2. ASSUME Runs(q, t) PROVE Runs(r, t)
    <3>1. r.mem.alive[t] /\ r.taskName[t] = Lines[t + 1]
      BY <2>1, <2>2 DEF Runs, SlotKept, Untouched
    <3>2. ASSUME ~r.wild PROVE OnlyFrame(r.mem, t, CTX + file[Lines[t + 1]])
      <4>1. OnlyFrame(q.mem, t, CTX + file[Lines[t + 1]]) BY <1>3, <2>2, <3>2 DEF Begun, Runs
      <4> QED BY <2>1, <4>1 DEF OnlyFrame, SlotKept, Untouched
    <3> QED BY <3>1, <3>2 DEF Runs
  <2>3. Vacant(q, t) => Vacant(r, t) BY <2>1 DEF Vacant, SlotKept, Untouched
  <2>4. t \in Nat /\ (t > k => t >= k) BY SlotAssumption
  <2> QED BY <2>2, <2>3, <2>4 DEF LoadedSoFar
<1>7. \A t \in Task : /\ t < k + 1 => t < k \/ t = k
                      /\ t >= k + 1 => t > k /\ t # k
                      /\ t < k => t # k
  BY SlotAssumption
<1>8. \A t \in Task : (t < k + 1 => Runs(r, t)) /\ (t >= k + 1 => Vacant(r, t))
  BY <1>5, <1>6, <1>7, SMTT(30)
<1> QED BY <1>2, <1>3, <1>4, <1>8 DEF LoadedSoFar, Begun, r, n

\* The table after a reset.
Empty(s) == Sound(s) /\ Packed(s.mem) /\ \A t \in Task : Vacant(s, t)

LEMMA AllLoaded ==
  ASSUME file \in [Name -> MainSize \cup {NOFILE}], schedule \in Schedule, schedule # <<>>,
         NEW s, Empty(s)
  PROVE  \E q : /\ LoadedSoFar(s, q, Loaded)
                /\ arssched_load(s) =
                     [q EXCEPT !.taskName = [t \in Task |-> IF t < Loaded THEN @[t] ELSE NONE],
                               !.gSchedTasks = Loaded]
<1> DEFINE H == {q \in System : Sound(q)}
           P(f) == f = [k \in 0 .. Loaded |->
                          IF k = 0 THEN s ELSE Begin(f[k - 1], k - 1, Lines[k])]
           after == CHOOSE f : P(f)
           B == [p \in Nat \X H |-> Begin(p[2], p[1], Lines[p[1] + 1])]
           T == [k \in Nat |-> {q \in H : LoadedSoFar(s, q, k)}]
<1>1. arssched_load(s) =
        [after[Loaded] EXCEPT !.taskName = [t \in Task |-> IF t < Loaded THEN @[t] ELSE NONE],
                              !.gSchedTasks = Loaded]
  BY DEF arssched_load
<1>2. Loaded \in Nat BY LoadedIs, SlotAssumption
<1>3. \A q : Sound(q) => q \in H BY DEF Sound
<1>4. \A k \in Nat, h \in H : B[<<k, h>>] = Begin(h, k, Lines[k + 1]) OBVIOUS
<1>5. \A k \in Nat : T[k] = {q \in H : LoadedSoFar(s, q, k)} OBVIOUS
<1> HIDE DEF H, B, T, after
<1>6. s \in H /\ s \in T[0]
  <2>1. s \in H BY <1>3 DEF Empty
  <2>2. \A t \in Task : ~(t < 0) BY SlotAssumption
  <2>3. LoadedSoFar(s, s, 0) BY <2>2 DEF LoadedSoFar, Empty
  <2> QED BY <1>5, <2>1, <2>3
<1>7. ASSUME NEW k \in Nat, NEW h \in H, k < Loaded, h \in T[k]
      PROVE  B[<<k, h>>] \in H /\ B[<<k, h>>] \in T[k + 1]
  <2>1. LoadedSoFar(s, h, k) BY <1>5, <1>7
  <2>2. LoadedSoFar(s, B[<<k, h>>], k + 1) BY <1>4, <1>7, <2>1, LoadStep
  <2>3. B[<<k, h>>] \in H BY <1>3, <2>2 DEF LoadedSoFar
  <2> QED BY <1>5, <2>2, <2>3
<1>8. Stages(Loaded, H, B, T, s) BY <1>2, <1>6, <1>7 DEF Stages
<1>9. P(after)
  <2>1. PICK f \in [0 .. Loaded -> H] :
          f[0] = s /\ \A k \in 1 .. Loaded : f[k] = B[<<k - 1, f[k - 1]>>]
    BY <1>8, StagesExist
  <2>2. ASSUME NEW k \in 0 .. Loaded, k # 0 PROVE f[k] = Begin(f[k - 1], k - 1, Lines[k])
    <3>1. k \in 1 .. Loaded /\ k - 1 \in Nat /\ k - 1 \in 0 .. Loaded /\ (k - 1) + 1 = k
      BY <1>2, <2>2
    <3>2. f[k - 1] \in H BY <2>1, <3>1
    <3> QED BY <1>4, <2>1, <3>1, <3>2
  <2>3. P(f) BY <2>1, <2>2
  <2> HIDE DEF P
  <2> QED BY <2>3 DEF after
<1>10. after[0] = s BY <1>2, <1>9
<1>11. ASSUME NEW k \in 1 .. Loaded, after[k - 1] \in H
       PROVE  after[k] = B[<<k - 1, after[k - 1]>>]
  <2>1. k \in 0 .. Loaded /\ k # 0 /\ k - 1 \in Nat /\ (k - 1) + 1 = k BY <1>2
  <2>2. after[k] = Begin(after[k - 1], k - 1, Lines[k]) BY <1>9, <2>1
  <2> HIDE DEF P
  <2> QED BY <1>4, <1>11, <2>1, <2>2
<1> HIDE DEF P
<1>12. \A k \in 0 .. Loaded : after[k] \in H /\ after[k] \in T[k]
  BY <1>8, <1>10, <1>11, StagesHold
<1>13. LoadedSoFar(s, after[Loaded], Loaded) BY <1>2, <1>5, <1>12
<1> QED BY <1>1, <1>13

\* What arssched_load leaves, and what of it the table of tasks says.
Loads(s, r) ==
  /\ Sound(r) /\ r.Msgs = s.Msgs
  /\ \A t \in Task : (t < Loaded => Runs(r, t)) /\ (t >= Loaded => Vacant(r, t))

LEMMA LoadSound ==
  ASSUME file \in [Name -> MainSize \cup {NOFILE}], schedule \in Schedule,
         NEW s, Empty(s)
  PROVE  Loads(s, arssched_load(s))
<1> DEFINE r == arssched_load(s)
<1>0. Loaded \in 0 .. OS_MAX_TASK BY LoadedIs
<1>1. CASE schedule = <<>>
  <2>1. r = s BY <1>1 DEF arssched_load
  <2>2. Loaded = 0
    <3>1. Lines = <<>>
      <4> DEFINE P(f) == f = [k \in 0 .. Len(schedule) |->
                          CASE k = 0 -> <<>>
                            [] k # 0 /\ Loadable(schedule[k]) -> Append(f[k - 1], schedule[k])
                            [] OTHER -> f[k - 1]]
                 kept == CHOOSE f : P(f)
      <4>1. Lines = kept[Len(schedule)] BY DEF Lines
      <4>2. Len(schedule) = 0 /\ 0 .. 0 = {0} BY <1>1
      <4> DEFINE f == [k \in {0} |-> <<>>]
      <4>3. P(f) BY <4>2
      <4> HIDE DEF f, P
      <4>4. P(kept) BY <4>3
      <4> HIDE DEF kept
      <4>5. kept[0] = <<>> BY <4>2, <4>4 DEF P
      <4> QED BY <4>1, <4>2, <4>5
    <3> QED BY <3>1, SlotAssumption DEF Loaded
  <2>3. \A t \in Task : ~(t < 0) BY SlotAssumption
  <2> QED BY <2>1, <2>2, <2>3 DEF Empty, Loads
<1>2. CASE schedule # <<>>
  <2>1. PICK q : /\ LoadedSoFar(s, q, Loaded)
                 /\ r = [q EXCEPT !.taskName = [t \in Task |-> IF t < Loaded THEN @[t] ELSE NONE],
                                  !.gSchedTasks = Loaded]
    BY <1>2, AllLoaded
  <2> HIDE DEF r
  <2>2. q \in System /\ Sound(q) BY <2>1, SMTT(30) DEF LoadedSoFar, Sound
  <2>3. /\ r \in System /\ r.mem = q.mem /\ r.wild = q.wild /\ r.Msgs = q.Msgs
        /\ \A t \in Task : t < Loaded => r.taskName[t] = q.taskName[t]
    BY <1>0, <2>1, <2>2 DEF System
  <2>4. Sound(r) BY <2>2, <2>3 DEF Sound
  <2>5. \A t \in Task : /\ t < Loaded /\ Runs(q, t) => Runs(r, t)
                        /\ Vacant(q, t) => Vacant(r, t)
    BY <2>3 DEF Runs, Vacant
  <2> QED BY <2>1, <2>3, <2>4, <2>5 DEF LoadedSoFar, Loads, r
<1> QED BY <1>1, <1>2

-----------------------------------------------------------------------------
(***************************************************************************)
(* kill n.                                                                 *)
(***************************************************************************)
\* sys, after the slots of n below k have been killed.
KilledSoFar(r, n, k) ==
  /\ Sound(r) /\ ~r.wild /\ r.Msgs = sys.Msgs
  /\ \A t \in Task : IF t \in Named(n) /\ t < k
                     THEN r.taskName[t] = NONE /\ OwnedBy(r.mem, t) = {}
                     ELSE SlotKept(sys, r, t)

LEMMA KillStep ==
  ASSUME NEW n \in Name, NEW k \in Nat, k < OS_MAX_TASK, NEW q, KilledSoFar(q, n, k)
  PROVE  KilledSoFar(IF k \in Named(n) THEN Killed(q, k) ELSE q, n, k + 1)
<1>1. k \in Task /\ \A t \in Task : t < k + 1 <=> t < k \/ t = k BY SlotAssumption
<1>2. CASE k \in Named(n)
  <2> DEFINE r == Killed(q, k)
  <2>1. Kills(q, r, k) BY <1>1, KilledSound DEF KilledSoFar
  <2> HIDE DEF r
  <2>2. ASSUME NEW t \in Task, t # k
        PROVE  IF t \in Named(n) /\ t < k + 1
               THEN r.taskName[t] = NONE /\ OwnedBy(r.mem, t) = {}
               ELSE SlotKept(sys, r, t)
    <3>1. SlotKept(q, r, t) BY <2>1, <2>2 DEF Kills, SlotsKept
    <3>2. CASE t \in Named(n) /\ t < k
      <4>1. q.taskName[t] = NONE /\ OwnedBy(q.mem, t) = {} BY <3>2 DEF KilledSoFar
      <4> QED BY <1>1, <3>1, <3>2, <4>1 DEF SlotKept, Untouched
    <3>3. CASE ~(t \in Named(n) /\ t < k)
      <4>1. SlotKept(sys, q, t) BY <3>3 DEF KilledSoFar
      <4> QED BY <1>1, <2>2, <3>1, <3>3, <4>1, KeptKept
    <3> QED BY <3>2, <3>3
  <2> QED BY <1>1, <1>2, <2>1, <2>2 DEF KilledSoFar, Kills, r
<1>3. CASE k \notin Named(n) BY <1>1, <1>3 DEF KilledSoFar
<1> QED BY <1>2, <1>3

\* Nothing has happened to a slot yet.
LEMMA KeptSelf == \A s : \A u \in Task : SlotKept(s, s, u) BY DEF SlotKept, Untouched

LEMMA AllKilled ==
  ASSUME Sound(sys), NEW n \in Name, arssched_kill(n)
  PROVE  KilledSoFar(sys', n, OS_MAX_TASK)
<1> DEFINE N == OS_MAX_TASK
           H == {q \in System : Sound(q)}
           P(f) == f = [k \in 0 .. N |->
                          CASE k = 0 -> sys
                            [] k # 0 /\ k - 1 \in Named(n) -> Killed(f[k - 1], k - 1)
                            [] OTHER -> f[k - 1]]
           after == CHOOSE f : P(f)
           B == [p \in Nat \X H |-> IF p[1] \in Named(n) THEN Killed(p[2], p[1]) ELSE p[2]]
           T == [k \in Nat |-> {q \in H : KilledSoFar(q, n, k)}]
<1>1. sys' = after[N] BY DEF arssched_kill
<1>2. N \in Nat BY SlotAssumption
<1>3. \A q : Sound(q) => q \in H BY DEF Sound
<1>4. \A k \in Nat, h \in H :
        B[<<k, h>>] = IF k \in Named(n) THEN Killed(h, k) ELSE h
  OBVIOUS
<1>5. \A k \in Nat : T[k] = {q \in H : KilledSoFar(q, n, k)} OBVIOUS
<1> HIDE DEF H, B, T, after, N
<1>6. sys \in H /\ sys \in T[0]
  <2>1. \A t \in Task : ~(t < 0) BY SlotAssumption
  <2>2. ~sys.wild BY DEF arssched_kill, Host
  <2>3. KilledSoFar(sys, n, 0) BY <2>1, <2>2, KeptSelf DEF KilledSoFar
  <2> QED BY <1>3, <1>5, <2>3
<1>7. ASSUME NEW k \in Nat, NEW h \in H, k < N, h \in T[k]
      PROVE  B[<<k, h>>] \in H /\ B[<<k, h>>] \in T[k + 1]
  <2>1. KilledSoFar(h, n, k) BY <1>5, <1>7
  <2>2. KilledSoFar(B[<<k, h>>], n, k + 1) BY <1>4, <1>7, <2>1, KillStep DEF N
  <2>3. B[<<k, h>>] \in H BY <1>3, <2>2 DEF KilledSoFar
  <2> QED BY <1>5, <2>2, <2>3
<1>8. Stages(N, H, B, T, sys) BY <1>2, <1>6, <1>7 DEF Stages
<1>9. P(after)
  <2>1. PICK f \in [0 .. N -> H] :
          f[0] = sys /\ \A k \in 1 .. N : f[k] = B[<<k - 1, f[k - 1]>>]
    BY <1>8, StagesExist
  <2>2. ASSUME NEW k \in 0 .. N, k # 0
        PROVE  f[k] = IF k - 1 \in Named(n) THEN Killed(f[k - 1], k - 1) ELSE f[k - 1]
    <3>1. k \in 1 .. N /\ k - 1 \in Nat /\ k - 1 \in 0 .. N BY <1>2, <2>2
    <3>2. f[k - 1] \in H BY <2>1, <3>1
    <3> QED BY <1>4, <2>1, <3>1, <3>2
  <2>3. P(f) BY <2>1, <2>2
  <2> HIDE DEF P
  <2> QED BY <2>3 DEF after
<1>10. after[0] = sys BY <1>2, <1>9
<1>11. ASSUME NEW k \in 1 .. N, after[k - 1] \in H
       PROVE  after[k] = B[<<k - 1, after[k - 1]>>]
  <2>1. k \in 0 .. N /\ k # 0 /\ k - 1 \in Nat BY <1>2
  <2>2. after[k] = IF k - 1 \in Named(n) THEN Killed(after[k - 1], k - 1) ELSE after[k - 1]
    BY <1>9, <2>1
  <2> HIDE DEF P
  <2> QED BY <1>4, <1>11, <2>1, <2>2
<1> HIDE DEF P
<1>12. \A k \in 0 .. N : after[k] \in H /\ after[k] \in T[k]
  BY <1>8, <1>10, <1>11, StagesHold
<1>13. N \in Nat /\ N \in 0 .. N BY <1>2
<1>14. KilledSoFar(after[N], n, N) BY <1>5, <1>12, <1>13
<1> QED BY <1>1, <1>14 DEF N

-----------------------------------------------------------------------------
(***************************************************************************)
(* What each action does.                                                  *)
(***************************************************************************)
\* The first slot of a set of slots is one of them.
LEMMA LeastIn ==
  ASSUME NEW S, S \subseteq Task, S # {} PROVE Least(S) \in S
<1>1. S \subseteq Nat BY SlotAssumption
<1>2. \E t \in S : \A u \in S : t <= u BY <1>1, LeastNat
<1> QED BY <1>2 DEF Least

\* A mailbox keeps its message, or its owner has emptied it.
MailStays(t) == \A u \in Task : sys.Msgs[u] # NONE =>
  sys'.Msgs[u] = sys.Msgs[u] \/ (u = t /\ sys'.Msgs[u] = NONE)
OthersRun(t) == \A u \in Task \ {t} : sys'.mem.alive[u] = sys.mem.alive[u]

\* The globals beside the heap change.
LEMMA BesideHeap ==
  ASSUME Sound(sys), ~sys.wild, sys' \in System, sys'.mem = sys.mem, NEW t
  PROVE  Sound(sys') /\ OthersRun(t)
  BY DEF Sound, OthersRun

LEMMA ComputeDoes ==
  ASSUME Sound(sys), ~sys.wild, NEW t \in Task, Compute(t)
  PROVE  Sound(sys') /\ OthersRun(t) /\ MailStays(t)
<1>1. Homeless(sys, t) \in BOOLEAN BY DEF Homeless
<1>2. sys' \in System /\ sys'.mem = sys.mem /\ sys'.Msgs = sys.Msgs
  BY <1>1 DEF Compute, Sound, System
<1> QED BY <1>2, BesideHeap DEF MailStays

LEMMA PushpDoes ==
  ASSUME Sound(sys), ~sys.wild, NEW t \in Task, Pushp(t)
  PROVE  Sound(sys') /\ OthersRun(t) /\ MailStays(t)
<1>1. PICK w \in Width : /\ sys.IndexOfSPS[t] + w <= OS_MAX_PARAM
                         /\ sys' = [sys EXCEPT !.IndexOfSPS[t] = @ + w]
  BY DEF Pushp
<1>2. sys \in System /\ sys.IndexOfSPS \in [Task -> 0 .. OS_MAX_PARAM]
  BY DEF Sound, System
<1>3. sys.IndexOfSPS[t] + w \in 0 .. OS_MAX_PARAM BY <1>1, <1>2, ParamAssumption
<1>4. sys' \in System /\ sys'.mem = sys.mem /\ sys'.Msgs = sys.Msgs
  BY <1>1, <1>2, <1>3 DEF System
<1> QED BY <1>4, BesideHeap DEF MailStays

LEMMA AbiDoes ==
  ASSUME Sound(sys), ~sys.wild, NEW t \in Task, Abi(t)
  PROVE  Sound(sys') /\ OthersRun(t) /\ MailStays(t)
<1>1. 0 \in 0 .. OS_MAX_PARAM BY ParamAssumption
<1>2. sys' \in System /\ sys'.mem = sys.mem /\ sys'.Msgs = sys.Msgs
  BY <1>1 DEF Abi, Sound, System
<1> QED BY <1>2, BesideHeap DEF MailStays

LEMMA CallDoes ==
  ASSUME Sound(sys), NEW t \in Task, Call(t)
  PROVE  Sound(sys') /\ OthersRun(t) /\ MailStays(t)
<1>1. PICK size \in SubSize : sys' = CallIn(sys, t, size) BY DEF Call
<1>2. Called(sys, sys', t, size) BY <1>1, CallInSound, ProgramAssumption
<1>3. OthersRun(t) BY <1>2 DEF Called, SlotsKept, SlotKept, Untouched, OthersRun
<1> QED BY <1>2, <1>3 DEF Called, MailStays

\* A task that has not lost its memory returns or halts: the heap stays in order.
LEMMA HeapGivesBack ==
  ASSUME Sound(sys), NEW t \in Task, NEW q, NEW m, Shrinks(sys.mem, q, t),
         InOrder(m), Levels(m), \A u \in Task : u # t => m.alive[u] = q.alive[u],
         sys' = [sys EXCEPT !.mem = m]
  PROVE  Sound(sys') /\ OthersRun(t) /\ MailStays(t)
<1>1. Sound(sys') /\ sys'.mem = m /\ sys'.Msgs = sys.Msgs BY MemSound
<1>2. OthersRun(t) BY <1>1 DEF Shrinks, OthersKept, Untouched, OthersRun
<1> QED BY <1>1, <1>2 DEF MailStays

LEMMA RetDoes ==
  ASSUME Sound(sys), ~sys.wild, NEW t \in Task, Ret(t)
  PROVE  Sound(sys') /\ OthersRun(t) /\ MailStays(t)
<1>1. CASE Homeless(sys, t)
  <2>1. sys' \in System /\ sys'.mem = sys.mem /\ sys'.Msgs = sys.Msgs
    BY <1>1 DEF Ret, Sound, System
  <2> QED BY <2>1, BesideHeap DEF MailStays
<1>2. CASE ~Homeless(sys, t)
  <2> DEFINE q == DelLastFuncMem(sys.mem, t)
             m == [q EXCEPT !.alive[t] = TRUE]
  <2>1. InOrder(q) /\ Levels(q) /\ Shrinks(sys.mem, q, t) BY DelLastInOrder DEF Sound
  <2> HIDE DEF q
  <2>2. /\ InOrder(m) /\ Levels(m)
        /\ \A u \in Task : m.alive[u] = IF u = t THEN TRUE ELSE q.alive[u]
    BY <2>1, AliveInOrder
  <2> HIDE DEF m
  <2>3. \A u \in Task : u # t => m.alive[u] = q.alive[u] BY <2>2
  <2>4. sys' = [sys EXCEPT !.mem = m] BY <1>2 DEF Ret, ret, m, q
  <2> QED BY <2>1, <2>2, <2>3, <2>4, HeapGivesBack
<1> QED BY <1>1, <1>2

LEMMA HltDoes ==
  ASSUME Sound(sys), ~sys.wild, NEW t \in Task, Hlt(t)
  PROVE  Sound(sys') /\ OthersRun(t) /\ MailStays(t)
<1> DEFINE q == ReArrangeMemAndTask(sys.mem, t)
<1>1. InOrder(q) /\ Levels(q) /\ Shrinks(sys.mem, q, t) BY ReArrangeInOrder DEF Sound
<1> HIDE DEF q
<1>2. sys' = [sys EXCEPT !.mem = q] BY DEF Hlt, hlt, q
<1> QED BY <1>1, <1>2, HeapGivesBack

LEMMA IpcSendDoes ==
  ASSUME Sound(sys), ~sys.wild, NEW t \in Task, IpcSend(t)
  PROVE  Sound(sys') /\ OthersRun(t) /\ MailStays(t)
<1>1. PICK u \in Task, x \in Letter :
        sys' = [sys EXCEPT !.Msgs[u] = IF @ = NONE THEN x ELSE @]
  BY DEF IpcSend
<1>2. sys \in System /\ sys.Msgs[u] \in Letter \cup {NONE} BY DEF Sound, System
<1>3. /\ sys' \in System /\ sys'.mem = sys.mem
      /\ \A v \in Task : sys'.Msgs[v] = IF v = u /\ sys.Msgs[u] = NONE THEN x ELSE sys.Msgs[v]
  BY <1>1, <1>2 DEF System
<1> QED BY <1>3, BesideHeap DEF MailStays

LEMMA IpcRecvDoes ==
  ASSUME Sound(sys), ~sys.wild, NEW t \in Task, IpcRecv(t)
  PROVE  Sound(sys') /\ OthersRun(t) /\ MailStays(t)
<1>1. Homeless(sys, t) \in BOOLEAN BY DEF Homeless
<1>2. /\ sys' \in System /\ sys'.mem = sys.mem
      /\ \A v \in Task : sys'.Msgs[v] = IF v = t THEN NONE ELSE sys.Msgs[v]
  BY <1>1 DEF IpcRecv, Sound, System
<1> QED BY <1>2, BesideHeap DEF MailStays

\* A turn of the round robin.
LEMMA LoopDoes ==
  ASSUME Inv, arssched_loop
  PROVE  Inv' /\ OthersRun(tid) /\ MailStays(tid)
<1>1. Sound(sys) /\ ~sys.wild /\ tid \in Task BY DEF Inv, arssched_loop
<1>2. Sound(sys') /\ OthersRun(tid) /\ MailStays(tid)
  <2>1. CASE Instruction(tid)
    BY <1>1, <2>1, ComputeDoes, PushpDoes, AbiDoes, CallDoes, RetDoes, HltDoes,
       IpcSendDoes, IpcRecvDoes DEF Instruction
  <2>2. CASE sys' = sys BY <1>1, <2>2 DEF OthersRun, MailStays
  <2> QED BY <2>1, <2>2 DEF arssched_loop
<1>3. tid' \in Task BY <1>1, SlotAssumption DEF arssched_loop
<1> QED BY <1>2, <1>3 DEF Inv, arssched_loop

\* start n: no slot that runs is touched.
Starts == /\ Sound(sys') /\ sys'.Msgs = sys.Msgs
          /\ \A u \in Task : alive(sys, u) => SlotKept(sys, sys', u)

LEMMA StartDoes ==
  ASSUME Inv, NEW n \in Name, arssched_start(n)
  PROVE  Starts
<1> DEFINE t == Least(Idle)
           q == Begin(sys, t, n)
<1>1. t \in Task /\ ~alive(sys, t)
  <2>1. Idle \subseteq Task /\ Idle # {} BY DEF Idle, arssched_start, StartOk
  <2>2. t \in Idle BY <2>1, LeastIn
  <2> QED BY <2>2 DEF Idle
<1>2. n \in Programs /\ Sound(sys) BY DEF arssched_start, StartOk, Programs, Inv
<1>3. file[n] \in Nat BY <1>2, ProgramSize DEF Inv
<1> HIDE DEF t
<1>4. Begun(sys, q, t, n) BY <1>1, <1>2, <1>3, BeginSound
<1> HIDE DEF q
<1>5. sys' = [q EXCEPT !.gSchedTasks = aliveCount(q)] BY DEF arssched_start, q, t
<1>6. /\ Sound(sys') /\ sys'.mem = q.mem /\ sys'.IndexOfSPS = q.IndexOfSPS
      /\ sys'.Msgs = q.Msgs /\ sys'.taskName = q.taskName
  BY <1>4, <1>5, CountSlots, CountedSound DEF Begun
<1>7. \A u \in Task \ {t} : SlotKept(sys, sys', u) BY <1>4, <1>6 DEF Begun, SlotsKept, SlotKept
<1> QED BY <1>1, <1>4, <1>6, <1>7 DEF Begun, Starts

\* reboot n: one slot of that name is touched, and it runs.
Restarts(t) == /\ Sound(sys') /\ sys'.Msgs = sys.Msgs
               /\ sys'.mem.alive[t] /\ SlotsKept(sys, sys', t)

LEMMA RestartDoes ==
  ASSUME Inv, NEW n \in Name, arssched_restart(n)
  PROVE  LET t == Least(Named(n)) IN t \in Named(n) /\ Restarts(t)
<1> DEFINE t == Least(Named(n))
           m == ReArrangeMemAndTask(sys.mem, t)
           q == [sys EXCEPT !.mem = m]
<1>1. t \in Named(n) /\ t \in Task
  <2>1. Named(n) \subseteq Task /\ Named(n) # {} BY DEF Named, arssched_restart, RestartOk
  <2>2. t \in Named(n) BY <2>1, LeastIn
  <2> QED BY <2>1, <2>2
<1>2. n \in Programs /\ Sound(sys) /\ ~sys.wild
  BY DEF arssched_restart, RestartOk, Programs, Inv, Host
<1>3. file[n] \in Nat BY <1>2, ProgramSize DEF Inv
<1> HIDE DEF t
<1>4. InOrder(m) /\ Levels(m) /\ OthersKept(sys.mem, m, t)
  BY <1>1, <1>2, ReArrangeInOrder DEF Sound, Shrinks
<1>5. sys' = Begin(q, t, n) BY DEF arssched_restart, t
<1> HIDE DEF m
<1>6. /\ Sound(q) /\ q.mem = m /\ q.IndexOfSPS = sys.IndexOfSPS
      /\ q.Msgs = sys.Msgs /\ q.taskName = sys.taskName
  BY <1>2, <1>4, MemSound
<1>7. SlotsKept(sys, q, t) BY <1>4, <1>6 DEF SlotsKept, SlotKept, OthersKept
<1> HIDE DEF q
<1>8. Begun(q, sys', t, n) BY <1>1, <1>3, <1>5, <1>6, BeginSound
<1>9. SlotsKept(sys, sys', t) BY <1>7, <1>8, KeptKept DEF Begun, SlotsKept
<1> QED BY <1>1, <1>6, <1>8, <1>9 DEF Begun, Restarts, t

\* reboot_all: what SCHEDULE lists runs, and nothing else.
LEMMA ResetEmpty ==
  ASSUME NEW s \in System, ~s.wild
  PROVE  LET r == [s EXCEPT !.mem = init_mem_info(@.nz)] IN Empty(r) /\ r.Msgs = s.Msgs
<1> DEFINE m == init_mem_info(s.mem.nz)
           r == [s EXCEPT !.mem = m]
<1>1. s.mem \in Memory /\ s.mem.nz \subseteq Addr BY DEF System, Memory
<1>2. InOrder(m) /\ Levels(m) /\ Packed(m) /\ \A t \in Task : OwnedBy(m, t) = {}
  BY <1>1, FreshInOrder DEF Packed
<1>3. \A t \in Task : ~m.alive[t] BY DEF init_mem_info
<1> HIDE DEF m
<1>4. m \in Memory BY <1>2 DEF InOrder, Heap
<1>5. r \in System /\ r.mem = m /\ r.Msgs = s.Msgs BY <1>4 DEF System
<1> HIDE DEF r
<1>6. Sound(r) BY <1>2, <1>5 DEF Sound
<1> QED BY <1>2, <1>3, <1>5, <1>6 DEF Empty, Vacant, r, m

LEMMA RebootAllDoes ==
  ASSUME Inv, arssched_rebootAll
  PROVE  Loads(sys, sys')
<1> DEFINE r == [sys EXCEPT !.mem = init_mem_info(@.nz)]
<1>1. Empty(r) /\ r.Msgs = sys.Msgs BY ResetEmpty DEF Inv, Sound, arssched_rebootAll, Host
<1>2. sys' = arssched_load(r) BY DEF arssched_rebootAll
<1> HIDE DEF r
<1>3. Loads(r, sys') BY <1>1, <1>2, LoadSound DEF Inv
<1> QED BY <1>1, <1>3 DEF Loads

-----------------------------------------------------------------------------
(***************************************************************************)
(* The theorems.                                                           *)
(***************************************************************************)
LEMMA InitInv == Init => Inv
<1> SUFFICES ASSUME Init PROVE Inv OBVIOUS
<1>1. /\ file \in [Name -> MainSize \cup {NOFILE}] /\ schedule \in Schedule
      /\ sys = arssched_load(Boot) /\ tid = 0
  BY DEF Init
<1>2. Empty(Boot)
  <2>1. /\ InOrder(Boot.mem) /\ Levels(Boot.mem) /\ Packed(Boot.mem)
        /\ \A t \in Task : OwnedBy(Boot.mem, t) = {}
    <3> DEFINE m == init_mem_info({})
    <3>1. InOrder(m) /\ Levels(m) /\ Packed(m) /\ \A t \in Task : OwnedBy(m, t) = {}
      BY FreshInOrder DEF Packed
    <3> HIDE DEF m
    <3> QED BY <3>1 DEF Boot, m
  <2>2. \A t \in Task : ~Boot.mem.alive[t] BY DEF Boot, init_mem_info
  <2>3. Boot \in System
    <3> DEFINE m == init_mem_info({})
    <3>1. Boot.mem = m BY DEF Boot
    <3>2. m \in Memory BY <2>1, <3>1 DEF InOrder, Heap
    <3> HIDE DEF m
    <3>3. 0 \in 0 .. OS_MAX_PARAM /\ 0 \in 0 .. OS_MAX_TASK
      BY ParamAssumption, SlotAssumption
    <3> QED BY <3>2, <3>3 DEF Boot, System, m
  <2> QED BY <2>1, <2>2, <2>3 DEF Empty, Vacant, Sound
<1>3. Sound(sys) BY <1>1, <1>2, LoadSound DEF Loads
<1>4. 0 \in Task BY SlotAssumption
<1> QED BY <1>1, <1>3, <1>4 DEF Inv

\* Every action keeps the invariant.
LEMMA Preserved ==
  ASSUME Inv, [Next]_vars
  PROVE  Inv'
<1>1. CASE arssched_loop BY <1>1, LoopDoes
<1>2. ASSUME NEW n \in Name, arssched_start(n) PROVE Inv'
  <2>1. Sound(sys') BY <1>2, StartDoes DEF Starts
  <2> QED BY <1>2, <2>1 DEF Inv, arssched_start, Host
<1>3. ASSUME NEW n \in Name, arssched_kill(n) PROVE Inv'
  <2>1. Sound(sys') BY <1>3, AllKilled DEF KilledSoFar, Inv
  <2> QED BY <1>3, <2>1 DEF Inv, arssched_kill, Host
<1>4. ASSUME NEW n \in Name, arssched_restart(n) PROVE Inv'
  <2>1. Sound(sys') BY <1>4, RestartDoes DEF Restarts
  <2> QED BY <1>4, <2>1 DEF Inv, arssched_restart, Host
<1>5. ASSUME NEW n \in Name, Update(n) PROVE Inv'
  BY <1>5 DEF Inv, Update, Host
<1>6. ASSUME NEW t \in Task, arssched_killId(t) PROVE Inv'
  <2>1. Sound(sys') BY <1>6, KilledSound DEF Kills, Inv, arssched_killId, Host
  <2> QED BY <1>6, <2>1 DEF Inv, arssched_killId, Host
<1>7. CASE arssched_rebootAll
  <2>1. Sound(sys') BY <1>7, RebootAllDoes DEF Loads
  <2> QED BY <1>7, <2>1 DEF Inv, arssched_rebootAll, Host
<1>8. CASE UpdateSchedule BY <1>8 DEF Inv, UpdateSchedule, Host
<1>9. CASE UNCHANGED vars BY <1>9 DEF Inv, vars
<1> QED BY <1>1, <1>2, <1>3, <1>4, <1>5, <1>6, <1>7, <1>8, <1>9 DEF Next, Command, Lost

\* In every state the program can reach, the kernel's globals are in order.
THEOREM Invariance == Spec => []Inv
BY InitInv, Preserved, PTL DEF Spec

\* Every global keeps its type, and no parameter stack outgrows its array.
THEOREM TypeCorrect == Spec => []TypeOK
<1>1. Inv => TypeOK BY DEF Inv, Sound, System, TypeOK
<1> QED BY <1>1, Invariance, PTL

\* Until a write goes astray, no start, kill, restart, reload or instruction leaves a
\* heap with a gap, an overlap, a lost block or a frame nobody owns.
THEOREM HeapStaysConsistent == Spec => []HeapConsistent
<1>1. Inv => HeapConsistent
  BY OrderTiled, OrderFreeListed, OrderMerged, OrderFramesListed
  DEF Inv, Sound, HeapConsistent
<1> QED BY <1>1, Invariance, PTL

\* A slot that is kept, with its mailbox, is the same slot.
LEMMA SlotSame ==
  ASSUME NEW s, NEW r, NEW u \in Task, SlotKept(s, r, u), r.Msgs = s.Msgs
  PROVE  Slot(r, u) = Slot(s, u)
<1>1. [a \in OwnedBy(r.mem, u) |-> r.mem.hdr[a]] = [a \in OwnedBy(s.mem, u) |-> s.mem.hdr[a]]
  BY DEF SlotKept, Untouched
<1> QED BY <1>1 DEF Slot, SlotKept, Untouched, alive

\* What changes in a slot that runs is the work of an instruction, of a command for
\* that very slot, or of reboot_all: until a write goes astray, no other slot's
\* frames, parameters, mailbox or name are touched.
THEOREM CommandsHitTheirTarget == Spec => CommandsSpareTheOthers
<1> DEFINE Hit(t) == alive(sys, t) /\ Slot(sys', t) # Slot(sys, t)
           Named0(t) == sys.taskName[t]
           Why(t) == \/ arssched_loop
                     \/ arssched_killId(t)
                     \/ Named0(t) # NONE /\ arssched_kill(Named0(t))
                     \/ /\ Named0(t) # NONE /\ t = Least(Named(Named0(t)))
                        /\ arssched_restart(Named0(t))
                     \/ arssched_rebootAll
<1>1. ASSUME Inv, NEW t \in Task, NEW u \in Task, arssched_killId(u), Hit(t)
      PROVE  arssched_killId(t)
  <2>1. Kills(sys, sys', u) BY <1>1, KilledSound DEF Inv, arssched_killId, Host
  <2>2. t = u BY <1>1, <2>1, SlotSame DEF Kills, SlotsKept
  <2> QED BY <1>1, <2>2
<1>2. ASSUME Inv, NEW t \in Task, NEW n \in Name, arssched_kill(n), Hit(t)
      PROVE  Named0(t) # NONE /\ arssched_kill(Named0(t))
  <2>1. KilledSoFar(sys', n, OS_MAX_TASK) BY <1>2, AllKilled DEF Inv
  <2>2. t \in Named(n) BY <1>2, <2>1, SlotSame DEF KilledSoFar
  <2>3. sys.taskName[t] = n /\ n # NONE BY <2>2, NameAssumption DEF Named
  <2> QED BY <1>2, <2>3
<1>3. ASSUME Inv, NEW t \in Task, NEW n \in Name, arssched_restart(n), Hit(t)
      PROVE  /\ Named0(t) # NONE /\ t = Least(Named(Named0(t)))
             /\ arssched_restart(Named0(t))
  <2>1. Least(Named(n)) \in Named(n) /\ Restarts(Least(Named(n))) BY <1>3, RestartDoes
  <2>2. t = Least(Named(n)) BY <1>3, <2>1, SlotSame DEF Restarts, SlotsKept
  <2>3. sys.taskName[t] = n /\ n # NONE BY <2>1, <2>2, NameAssumption DEF Named
  <2> QED BY <1>3, <2>2, <2>3
<1>4. ASSUME Inv, NEW t \in Task, NEW n \in Name, arssched_start(n), Hit(t) PROVE FALSE
  BY <1>4, StartDoes, SlotSame DEF Starts
<1>5. ASSUME NEW t \in Task, sys' = sys, Hit(t) PROVE FALSE BY <1>5
<1>6. \A n \in Name : Update(n) => sys' = sys BY DEF Update
<1>7. UpdateSchedule \/ Lost \/ UNCHANGED vars => sys' = sys
  BY DEF UpdateSchedule, Lost, vars
<1>8. Inv /\ [Next]_vars => (~sys'.wild => \A t \in Task : Hit(t) => Why(t))
  <2> SUFFICES ASSUME Inv, [Next]_vars, NEW t \in Task, Hit(t) PROVE Why(t) OBVIOUS
  <2> HIDE DEF Hit
  <2> QED BY <1>1, <1>2, <1>3, <1>4, <1>5, <1>6, <1>7 DEF Next, Command
<1>9. Inv /\ [Next]_vars =>
        (~sys'.wild =>
           \A t \in Task : alive(sys, t) /\ Slot(sys', t) # Slot(sys, t) =>
             LET n == sys.taskName[t] IN
             \/ arssched_loop
             \/ arssched_killId(t)
             \/ n # NONE /\ arssched_kill(n)
             \/ n # NONE /\ t = Least(Named(n)) /\ arssched_restart(n)
             \/ arssched_rebootAll)
  BY <1>8
<1> QED BY <1>9, Invariance, PTL DEF Spec, CommandsSpareTheOthers

\* kill n leaves no task of that name, and none of the memory of one.
THEOREM KillIsComplete == Spec => KillLeavesNone
<1>1. ASSUME Inv, NEW n \in Name, arssched_kill(n), NEW t \in Task
      PROVE  sys'.taskName[t] # n /\ (t \in Named(n) => OwnedBy(sys'.mem, t) = {})
  <2>1. KilledSoFar(sys', n, OS_MAX_TASK) BY <1>1, AllKilled DEF Inv
  <2>2. t < OS_MAX_TASK /\ n # NONE BY SlotAssumption, NameAssumption
  <2>3. CASE t \in Named(n) BY <2>1, <2>2, <2>3 DEF KilledSoFar
  <2>4. CASE t \notin Named(n) BY <2>1, <2>4 DEF KilledSoFar, SlotKept, Named
  <2> QED BY <2>3, <2>4
<1>2. Inv => \A n \in Name : arssched_kill(n) =>
               \A t \in Task : /\ sys'.taskName[t] # n
                               /\ t \in Named(n) => OwnedBy(sys'.mem, t) = {}
  BY <1>1
<1> QED BY <1>2, Invariance, PTL DEF KillLeavesNone

\* reboot_all leaves exactly the table that SCHEDULE and the files say, and the
\* frames of that table unless one of them could not hold what was put into it.
THEOREM RebootAllIsExact == Spec => RebootAllFollowsSchedule
<1>1. ASSUME Inv, arssched_rebootAll, NEW t \in Task
      PROVE  IF t < Loaded THEN Runs(sys', t) ELSE Vacant(sys', t)
  <2>1. Loads(sys, sys') BY <1>1, RebootAllDoes
  <2>2. t < Loaded \/ t >= Loaded
    <3>1. Loaded \in 0 .. OS_MAX_TASK BY <1>1, LoadedIs DEF Inv
    <3> QED BY <3>1, SlotAssumption
  <2> QED BY <2>1, <2>2 DEF Loads
<1>2. Inv => (arssched_rebootAll => \A t \in Task :
       IF t < Loaded
       THEN /\ alive(sys', t) /\ sys'.taskName[t] = Lines[t + 1]
            /\ ~sys'.wild => /\ OwnedBy(sys'.mem, t) = {sys'.mem.MemTail[t]}
                             /\ sys'.mem.hdr[sys'.mem.MemTail[t]].len
                                  = CTX + file[Lines[t + 1]]
       ELSE ~alive(sys', t) /\ (~sys'.wild => OwnedBy(sys'.mem, t) = {}))
  BY <1>1 DEF Runs, Vacant, OnlyFrame, alive
<1> QED BY <1>2, Invariance, PTL DEF RebootAllFollowsSchedule

\* A task ends by its own instruction, by a kill of it, or with reboot_all.
THEOREM TasksEndByName == Spec => EndsByItselfOrKill
<1> DEFINE Gone(t) == alive(sys, t) /\ ~alive(sys', t)
           Why(t) == \/ arssched_loop /\ tid = t
                     \/ arssched_killId(t)
                     \/ sys.taskName[t] # NONE /\ arssched_kill(sys.taskName[t])
                     \/ arssched_rebootAll
<1>1. ASSUME Inv, NEW t \in Task, arssched_loop, Gone(t) PROVE tid = t
  BY <1>1, LoopDoes DEF OthersRun, alive
<1>2. ASSUME Inv, NEW t \in Task, NEW n \in Name, arssched_start(n), Gone(t) PROVE FALSE
  BY <1>2, StartDoes DEF Starts, SlotKept, Untouched, alive
<1>3. ASSUME Inv, NEW t \in Task, NEW n \in Name, arssched_restart(n), Gone(t) PROVE FALSE
  BY <1>3, RestartDoes DEF Restarts, SlotsKept, SlotKept, Untouched, alive
<1>4. ASSUME Inv, NEW t \in Task, NEW n \in Name, arssched_kill(n), Gone(t)
      PROVE  sys.taskName[t] # NONE /\ arssched_kill(sys.taskName[t])
  <2>1. KilledSoFar(sys', n, OS_MAX_TASK) BY <1>4, AllKilled DEF Inv
  <2>2. t \in Named(n) BY <1>4, <2>1 DEF KilledSoFar, SlotKept, Untouched, alive
  <2>3. sys.taskName[t] = n /\ n # NONE BY <2>2, NameAssumption DEF Named
  <2> QED BY <1>4, <2>3
<1>5. ASSUME Inv, NEW t \in Task, NEW u \in Task, arssched_killId(u), Gone(t)
      PROVE  arssched_killId(t)
  <2>1. Kills(sys, sys', u) BY <1>5, KilledSound DEF Inv, arssched_killId, Host
  <2>2. t = u BY <1>5, <2>1 DEF Kills, SlotsKept, SlotKept, Untouched, alive
  <2> QED BY <1>5, <2>2
<1>6. ASSUME NEW t \in Task, sys' = sys, Gone(t) PROVE FALSE BY <1>6
<1>7. \A n \in Name : Update(n) => sys' = sys BY DEF Update
<1>8. UpdateSchedule \/ Lost \/ UNCHANGED vars => sys' = sys
  BY DEF UpdateSchedule, Lost, vars
<1>9. Inv /\ [Next]_vars => \A t \in Task : Gone(t) => Why(t)
  <2> SUFFICES ASSUME Inv, [Next]_vars, NEW t \in Task, Gone(t) PROVE Why(t) OBVIOUS
  <2> HIDE DEF Gone
  <2> QED BY <1>1, <1>2, <1>3, <1>4, <1>5, <1>6, <1>7, <1>8 DEF Next, Command
<1> QED BY <1>9, Invariance, PTL DEF Spec, EndsByItselfOrKill

\* Among instructions, only one of the slot's owner takes a message out of its
\* mailbox, and none overwrites one.
THEOREM MailStaysPut == Spec => MailIsKept
<1>1. Inv => \A t \in Task : sys.Msgs[t] # NONE /\ sys'.Msgs[t] # sys.Msgs[t] /\ arssched_loop
                => tid = t /\ sys'.Msgs[t] = NONE
  BY LoopDoes DEF MailStays
<1> QED BY <1>1, Invariance, PTL DEF MailIsKept
=============================================================================
