------------------------------- MODULE ARSSched -------------------------------
(***************************************************************************)
(* The scheduler, src/Core/ARSSCHED.cpp, over the frame allocator: task    *)
(* slots, the round robin that executes one instruction per turn, and the  *)
(* host commands of src/Core/ARSCMD.cpp that start, kill and restart tasks *)
(* between two turns.  With it, the state of the interpreter that belongs  *)
(* to a slot and not to its frames: the parameter stack and the mailbox.   *)
(*                                                                         *)
(* File contents are abstracted to what the scheduler takes from them: the *)
(* memory the main program asks for.  Programs are compiled ones: they may *)
(* execute any instruction, but the frame a CALL asks for has room for the *)
(* parameters the program has pushed for it.  The kernel's own calls, at   *)
(* start, reboot and reboot_all, have no such care, see CallIn.            *)
(***************************************************************************)
EXTENDS ARSMemory, Sequences

CONSTANTS
  OS_MAX_TASK,   \* number of slots
  OS_MAX_PARAM,  \* bytes of one slot's parameter stack
  Name,          \* program files
  MainSize,      \* memory requests of main programs
  SubSize,       \* memory requests of subroutines
  Width,         \* bytes of a parameter: 1 or 4 in the code
  Schedule,      \* the contents SCHEDULE may have: sequences of names
  Letter,        \* contents of messages between tasks
  NONE           \* no name, no message

ASSUME SlotAssumption == OS_MAX_TASK \in Nat \ {0} /\ Task = 0 .. OS_MAX_TASK - 1
ASSUME ParamAssumption == OS_MAX_PARAM \in Nat /\ Width \subseteq Nat
ASSUME ProgramAssumption == MainSize \subseteq Nat /\ SubSize \subseteq Nat
ASSUME NameAssumption == NONE \notin Name \cup Letter /\ Schedule \subseteq Seq(Name)

NOFILE == -1  \* missing, empty, or too long for a code page (OS_MAX_SGL_PG)

VARIABLES
  sys,       \* globals of the kernel, see Boot
  tid,       \* arssched_loop's static: the slot whose turn is next
  file,      \* file[n]: what the program in file n asks for, or NOFILE
  schedule   \* the lines of SCHEDULE
vars == <<sys, tid, file, schedule>>

(***************************************************************************)
(* wild is set by a write through a stale CurPhyMem or past a frame's end: *)
(* it may have hit the header of another block, nothing is said of runMem  *)
(* from then on, and the run ends.                                         *)
(***************************************************************************)
Boot == [mem         |-> init_mem_info({}),
         wild        |-> FALSE,
         IndexOfSPS  |-> [t \in Task |-> 0],
         Msgs        |-> [t \in Task |-> NONE],    \* NONE: flag not set
         taskName    |-> [t \in Task |-> NONE],
         gSchedTasks |-> 0]

alive(s, t) == s.mem.alive[t]
aliveCount(s) == Cardinality({t \in Task : alive(s, t)})
Least(S) == CHOOSE t \in S : \A u \in S : t <= u
Loadable(n) == file[n] # NOFILE

\* call in slot t: IndexOfSPS bytes of parameters follow the return address, and
\* the parameter stack is emptied.  Those that do not fit into the frame go over
\* the block behind it, and without a frame all go through the stale CurPhyMem.
CallIn(s, t, size) ==
  LET ok   == CanAllocate(s.mem, t, CTX + size)
      m    == IF ok THEN call(s.mem, t, CTX + size) ELSE NoFrame(s.mem, t)
      over == ok /\ CTX + s.IndexOfSPS[t] > m.hdr[m.MemTail[t]].len
  IN  [s EXCEPT !.mem = m, !.wild = @ \/ ~ok \/ over, !.IndexOfSPS[t] = 0]

\* A program file is copied to t's code page and its main program is called.
Begin(s, t, n) ==
  [CallIn(s, t, file[n]) EXCEPT !.taskName[t] = n]

(***************************************************************************)
(* arssched_load: the loadable lines of SCHEDULE, in order, into slots 0,  *)
(* 1, ...; the names of the slots left over are cleared.                   *)
(***************************************************************************)
Lines ==
  LET kept[k \in 0 .. Len(schedule)] ==
        CASE k = 0 -> <<>>
          [] k # 0 /\ Loadable(schedule[k]) -> Append(kept[k - 1], schedule[k])
          [] OTHER -> kept[k - 1]
  IN  kept[Len(schedule)]
Loaded == IF Len(Lines) < OS_MAX_TASK THEN Len(Lines) ELSE OS_MAX_TASK
arssched_load(s) ==
  LET after[k \in 0 .. Loaded] ==
        IF k = 0 THEN s ELSE Begin(after[k - 1], k - 1, Lines[k])
  IN  IF schedule = <<>> THEN s          \* an empty file: nothing is touched
      ELSE [after[Loaded] EXCEPT
              !.taskName = [t \in Task |-> IF t < Loaded THEN @[t] ELSE NONE],
              !.gSchedTasks = Loaded]

Init ==
  /\ file \in [Name -> MainSize \cup {NOFILE}]
  /\ schedule \in Schedule
  /\ sys = arssched_load(Boot)
  /\ tid = 0

-----------------------------------------------------------------------------
(***************************************************************************)
(* arssched_loop: one instruction of slot tid if it is alive, and the turn *)
(* passes on.  Instructions that only compute or touch the task's own      *)
(* variables change nothing here, unless the task has no frame.            *)
(***************************************************************************)
Homeless(s, t) == s.mem.MemTail[t] = NULL

Compute(t) == sys' = [sys EXCEPT !.wild = Homeless(sys, t)]

\* Mutant: the check that used to stand after the write (INTERPRETER.cpp:426).
Pushp_late(t) == \E w \in Width :
  /\ sys.IndexOfSPS[t] < OS_MAX_PARAM
  /\ sys' = [sys EXCEPT !.IndexOfSPS[t] = @ + w]

\* PUSHP writes nothing if the stack has no room left.
Pushp(t) == \E w \in Width :
  /\ sys.IndexOfSPS[t] + w <= OS_MAX_PARAM
  /\ sys' = [sys EXCEPT !.IndexOfSPS[t] = @ + w]

\* ABI_INVOKE hands the parameters to a native function and drops them.
Abi(t) == sys' = [sys EXCEPT !.IndexOfSPS[t] = 0]

Call(t) == \E size \in SubSize :
  /\ sys.IndexOfSPS[t] <= size
  /\ sys' = CallIn(sys, t, size)

Ret(t) == sys' = IF Homeless(sys, t) THEN [sys EXCEPT !.wild = TRUE]
                 ELSE [sys EXCEPT !.mem = ret(@, t)]

Hlt(t) == sys' = [sys EXCEPT !.mem = hlt(@, t)]

IpcSend(t) == \E u \in Task : \E x \in Letter :
  sys' = [sys EXCEPT !.Msgs[u] = IF @ = NONE THEN x ELSE @]

\* Mutant: the operand, a variable's address, is taken for the number of the mailbox.
IpcRecv_operand(t) == \E u \in Task :
  sys' = [sys EXCEPT !.Msgs[u] = NONE, !.wild = Homeless(sys, t)]

IpcRecv(t) == sys' = [sys EXCEPT !.Msgs[t] = NONE, !.wild = Homeless(sys, t)]

Instruction(t) ==
  \/ Compute(t) \/ Pushp(t) \/ Abi(t) \/ Call(t) \/ Ret(t) \/ Hlt(t)
  \/ IpcSend(t) \/ IpcRecv(t)

\* Mutant: the turn stays at a slot that does not run.
arssched_loop_waits ==
  /\ ~sys.wild
  /\ alive(sys, tid) /\ Instruction(tid)
  /\ tid' = (tid + 1) % OS_MAX_TASK
  /\ UNCHANGED <<file, schedule>>

arssched_loop ==
  /\ ~sys.wild
  /\ tid' = (tid + 1) % OS_MAX_TASK
  /\ UNCHANGED <<file, schedule>>
  /\ IF alive(sys, tid) THEN Instruction(tid) ELSE UNCHANGED sys

-----------------------------------------------------------------------------
(***************************************************************************)
(* Host commands, served by arsuart_poll between two turns.                *)
(***************************************************************************)
Host == ~sys.wild /\ UNCHANGED tid

Idle == {t \in Task : ~alive(sys, t)}
StartOk(n) == Idle # {} /\ Loadable(n)

\* Mutant: the first slot is taken, free or not.
arssched_start_anySlot(n) ==
  LET begun == Begin(sys, Least(Task), n)
  IN  /\ Host /\ StartOk(n)
      /\ UNCHANGED <<file, schedule>>
      /\ sys' = [begun EXCEPT !.gSchedTasks = aliveCount(begun)]

\* start n: the first slot that does not run.
arssched_start(n) ==
  LET begun == Begin(sys, Least(Idle), n)
  IN  /\ Host /\ StartOk(n)
      /\ UNCHANGED <<file, schedule>>
      /\ sys' = [begun EXCEPT !.gSchedTasks = aliveCount(begun)]

\* killid t, on the kernel's state.
Known(s, t) == alive(s, t) \/ s.taskName[t] # NONE
Killed(s, t) ==
  LET off == [s EXCEPT !.mem = [ReArrangeMemAndTask(@, t) EXCEPT !.alive[t] = FALSE],
                       !.taskName[t] = NONE]
  IN  [off EXCEPT !.gSchedTasks = aliveCount(off)]

arssched_killId(t) ==
  /\ Host /\ Known(sys, t)
  /\ UNCHANGED <<file, schedule>>
  /\ sys' = Killed(sys, t)

\* kill n: every slot of that name, from slot 0 up.
Named(n) == {t \in Task : sys.taskName[t] = n}
\* Mutant: the search ends at the first slot of that name.
arssched_kill_first(n) ==
  /\ Host /\ Named(n) # {}
  /\ UNCHANGED <<file, schedule>>
  /\ sys' = Killed(sys, Least(Named(n)))

arssched_kill(n) ==
  LET after[k \in 0 .. OS_MAX_TASK] ==
        CASE k = 0 -> sys
          [] k # 0 /\ k - 1 \in Named(n) -> Killed(after[k - 1], k - 1)
          [] OTHER -> after[k - 1]
  IN  /\ Host /\ Named(n) # {}
      /\ UNCHANGED <<file, schedule>>
      /\ sys' = after[OS_MAX_TASK]

\* reboot n: the first slot of that name; the file is read before anything is
\* given up.
RestartOk(n) == Named(n) # {} /\ Loadable(n)

\* Mutant: the old program is given up before the new one is read.
arssched_restart_eager(n) ==
  LET t == Least(Named(n))
      off == [sys EXCEPT !.mem = ReArrangeMemAndTask(@, t)]
  IN  /\ Host /\ Named(n) # {}
      /\ UNCHANGED <<file, schedule>>
      /\ sys' = IF Loadable(n) THEN Begin(off, t, n) ELSE off

arssched_restart(n) ==
  LET t == Least(Named(n)) IN
  /\ Host /\ RestartOk(n)
  /\ UNCHANGED <<file, schedule>>
  /\ sys' = Begin([sys EXCEPT !.mem = ReArrangeMemAndTask(@, t)], t, n)

\* reboot_all: runMem keeps its bytes, the interpreter keeps its parameter
\* stacks and mailboxes.
\* Mutant: the watermark of the former heap stays.
arssched_rebootAll_keepsLastMEM ==
  /\ Host
  /\ UNCHANGED <<file, schedule>>
  /\ sys' = arssched_load([sys EXCEPT !.mem =
                [init_mem_info(@.nz) EXCEPT !.LastMEM = sys.mem.LastMEM]])

\* Mutant: the table is loaded over what runs.
arssched_rebootAll_noReset ==
  /\ Host
  /\ UNCHANGED <<file, schedule>>
  /\ sys' = arssched_load(sys)

arssched_rebootAll ==
  /\ Host
  /\ UNCHANGED <<file, schedule>>
  /\ sys' = arssched_load([sys EXCEPT !.mem = init_mem_info(@.nz)])

\* update and del change files, and nothing that runs.
Update(n) ==
  /\ Host
  /\ \E x \in MainSize \cup {NOFILE} : file' = [file EXCEPT ![n] = x]
  /\ UNCHANGED <<sys, schedule>>

UpdateSchedule ==
  Host /\ schedule' \in Schedule /\ UNCHANGED <<sys, file>>

Command ==
  \/ \E n \in Name : arssched_start(n) \/ arssched_kill(n) \/ arssched_restart(n)
                     \/ Update(n)
  \/ \E t \in Task : arssched_killId(t)
  \/ arssched_rebootAll \/ UpdateSchedule

Lost == sys.wild /\ UNCHANGED vars

Next == arssched_loop \/ Command \/ Lost

\* loop() never blocks and serves a bounded number of commands per turn.
Fairness == WF_vars(arssched_loop)
Spec == Init /\ [][Next]_vars
FairSpec == Spec /\ Fairness

-----------------------------------------------------------------------------
\* The globals hold what their C types allow, and the parameter stack of a slot
\* is never filled past OS_MAX_PARAM.
TypeOK ==
  /\ sys.wild \in BOOLEAN
  /\ sys.IndexOfSPS \in [Task -> 0 .. OS_MAX_PARAM]
  /\ sys.Msgs \in [Task -> Letter \cup {NONE}]
  /\ sys.taskName \in [Task -> Name \cup {NONE}]
  /\ sys.gSchedTasks \in 0 .. OS_MAX_TASK
  /\ tid \in Task
  /\ file \in [Name -> MainSize \cup {NOFILE}]

\* Whatever the host starts, kills, restarts or reloads between two instructions,
\* the blocks tile the memory, the free list and the frame lists are exact: no
\* block of a task that ended or of a former life of the heap is left over, until
\* a write has gone astray.
HeapConsistent ==
  ~sys.wild => /\ Tiled(sys.mem) /\ FreeListed(sys.mem) /\ Merged(sys.mem)
               /\ FramesListed(sys.mem) /\ Levels(sys.mem)

\* A command hits the slot it names and no other: what changes in a slot that runs
\* (its frames, its parameters, its mailbox, its name) is the work of its own
\* killid, of a kill of its name, of a reboot of its name if it is the first slot
\* of that name, or of reboot_all.  start, update and del change none of it.
Slot(s, t) ==
  <<[a \in OwnedBy(s.mem, t) |-> s.mem.hdr[a]], s.mem.MemTail[t], s.mem.MemLevel[t],
    s.mem.alive[t], s.IndexOfSPS[t], s.Msgs[t], s.taskName[t]>>
CommandsSpareTheOthers ==
  [][~sys'.wild =>
       \A t \in Task : alive(sys, t) /\ Slot(sys', t) # Slot(sys, t) =>
         LET n == sys.taskName[t] IN
         \/ arssched_loop
         \/ arssched_killId(t)
         \/ n # NONE /\ arssched_kill(n)
         \/ n # NONE /\ t = Least(Named(n)) /\ arssched_restart(n)
         \/ arssched_rebootAll]_vars

\* Only a program itself and kill end a task: a reboot of it, with whatever file,
\* leaves it running, and so does every other command but reboot_all.
EndsByItselfOrKill ==
  [][\A t \in Task : alive(sys, t) /\ ~alive(sys', t) =>
       \/ arssched_loop /\ tid = t
       \/ arssched_killId(t)
       \/ sys.taskName[t] # NONE /\ arssched_kill(sys.taskName[t])
       \/ arssched_rebootAll]_vars

\* kill n ends every task of that name, twins started by a second line of SCHEDULE
\* or by start included, and takes all their memory back.
KillLeavesNone ==
  [][\A n \in Name : arssched_kill(n) =>
       \A t \in Task : /\ sys'.taskName[t] # n
                       /\ t \in Named(n) => OwnedBy(sys'.mem, t) = {}]_vars

\* reboot_all runs what SCHEDULE lists now, file by file as they are now, and
\* nothing else, each main program in the only frame of its slot.
RebootAllFollowsSchedule ==
  [][arssched_rebootAll => \A t \in Task :
       IF t < Loaded
       THEN /\ alive(sys', t) /\ sys'.taskName[t] = Lines[t + 1]
            /\ ~sys'.wild => /\ OwnedBy(sys'.mem, t) = {sys'.mem.MemTail[t]}
                             /\ sys'.mem.hdr[sys'.mem.MemTail[t]].len
                                  = CTX + file[Lines[t + 1]]
       ELSE ~alive(sys', t) /\ (~sys'.wild => OwnedBy(sys'.mem, t) = {})]_vars

\* No instruction of any task takes or overwrites a message that waits: only the
\* owner of the slot empties its mailbox.  (That no command empties one is the
\* code's doing and not its documentation's, see RebootStaysInItsFrame.)
MailIsKept ==
  [][\A t \in Task : sys.Msgs[t] # NONE /\ sys'.Msgs[t] # sys.Msgs[t] /\ arssched_loop
       => tid = t /\ sys'.Msgs[t] = NONE]_vars

\* The turn comes round: no slot, however many others have halted or been killed,
\* waits for ever (unless the memory has been lost).
EverySlotGetsItsTurn == (\A t \in Task : []<>(tid = t)) \/ <>sys.wild

-----------------------------------------------------------------------------
(***************************************************************************)
(* What the documentation says, and the code does not do.                  *)
(***************************************************************************)

\* README.md:498: reboot touches no byte of the other tasks' memory, so with room
\* for its frame the restarted main program writes inside that frame.  The slot is
\* said to be zeroed (README.md:493), but the parameter stack and the mailbox of
\* the program before are not, and the parameters go into the new frame.
RebootStaysInItsFrame ==
  [][\A n \in Name :
       LET t == Least(Named(n)) IN
       /\ arssched_restart(n)
       /\ CanAllocate(ReArrangeMemAndTask(sys.mem, t), t, CTX + file[n])
       => ~sys'.wild]_vars
=============================================================================
