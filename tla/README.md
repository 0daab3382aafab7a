# ArtisanOS in TLA+

ArtisanOS is a small cooperative operating system for a microcontroller
(RP2040, Arduino core): byte code programs, compiled on a PC, are kept in a flash
file system, loaded into code pages and interpreted one instruction per task and
turn; a host talks to it over a serial line. This directory holds a TLA+ model of
the firmware, the compiler and the terminal, the TLC runs that check it on small
instances, and TLAPS proofs, for every instance, about the allocator, the scheduler, the
file system and its start, the file sessions and the serial line. Paths below are relative
to the root of the repository.

## 1. The system

| component | code | state | operations | talks to |
|---|---|---|---|---|
| frame allocator | `Core/Memory.cpp` | `runMem`, cut into blocks with headers; `FreeMemHead/Tail`; `LastMEM`; per task `MemHead`, `MemTail`, `MemLevel`, `CurPhyMem` | `findFreeMemById`, `DelLastFuncMem`, `ReArrangeMemAndTask`, `SuperFree`, `init_mem_info`, `ResumeMem`, `FindPhyMemOffByID` | called by interpreter and scheduler |
| interpreter | `Core/INTERPRETER.cpp`, `IO_INCLUDE.*`, `ByteCode.h` | per task `CurCmd`, `CalcResu`, parameter stack (`Stack`, `IndexOfSPS`), mailbox (`Msgs`) | one function per opcode | allocator; native functions through `abi_invoke` |
| scheduler | `Core/ARSSCHED.cpp` | `taskName`, `gSchedTasks`, the slot whose turn is next | load of `SCHEDULE`, `arssched_loop`, `start`, `kill`, `killId`, `restart`, `rebootAll` | reads files, calls `call`, frees through the allocator |
| file system | `Core/ARSFS.cpp` | RAM copy of directory (FCBs) and page links, the flash | create, create-at, write, read, delete, format, mount | flash driver |
| host commands | `Core/ARSCMD.cpp` | receive buffer of `update` | one handler per command word | scheduler, file system, transport |
| transport | `Core/ARSUART.cpp` | line buffer, 8 KB transmit ring | `arsuart_poll`, `txPut`, `txBegin` | host |
| file ABI | `Core/Glue.h` | one static open file with its buffer | `gFileOpen/Read/Write/Close` | file system, tasks' frames |
| boot | `Core/main.ino` | - | `ARS_provision`, `deferredBoot`, `loop` | all of the above |
| compiler, IDE | `Compiler/Source` | symbol tables | text to byte code | files, on the PC |
| terminal | `Terminal/ARSTerm.py` | - | sends commands and files | transport |

`loop()` of `main.ino` runs `arsuart_poll` and then `arssched_loop`, for ever. There
is one thread. What is concurrent is the interleaving of the tasks' instructions
with each other and with the host's commands, which come between any two
instructions; and the power may fail at any moment.

What is hard here, and what the properties are for (`PROJECT.json` lists each
hazard at its line):

* **allocator**: blocks are split, merged and given back in any order by several
  tasks; each operation writes into headers of neighbours, which may belong to
  other tasks. Correct means: the blocks tile the memory, the free list and the
  frame lists are exact, freed memory is coalesced and zero, and seen from outside
  each task has a stack of frames.
* **interpreter**: a `call` without memory, a `ret` without a caller, state of a
  slot that outlives the program in it.
* **scheduler**: commands hit tasks in the middle of what they do; a slot's old
  name, parameters and mail meet the new program; no slot starves.
* **file system**: pages share sectors, sectors are erased before they are
  programmed, RAM and flash differ while an operation runs, the power fails, the
  disk fills up. Correct means: the disk is a table of files while the power stays
  on, chains stay sound in any crash, an operation that returned is durable.
* **transport, commands, terminal**: bytes arrive late, answers are not read, an update
  is abandoned in the middle of a chunk and its rest is taken for a command, or the
  next command for its rest. Correct means: the device always comes back to serving
  commands, a file is never made of pieces of two uploads, of an answer nothing is lost
  but a backlog nobody read, and an exchange that begins on a quiet line does what the user is told.
* **file ABI**: one session, shared by all tasks, over a disk that the host changes at
  the same time. Correct means: a read delivers what was asked for and is there of the file
  the session was opened on, a write leaves that file with its cells in place or says that
  it failed.
* **boot**: the demos and their SCHEDULE are laid down by a list of file operations whose
  results nobody looks at. Correct means: whatever the host left and wherever the power
  failed, a lost SCHEDULE comes back, and it is there only when the demos are.
* **compiler and interpreter**: the compiler decides where every variable, parameter,
  table and jump target lies, and the interpreter, written apart from it, has to think
  the same; nothing in the byte code is checked at run time. Correct means: a compiled
  program does what its lines say and stays in its code and its frames.

## 2. The modules

```
Iteration   FrameStacks        FileStore
    \           \              /       \
   ARSMemory -- ARSHeap     ARSFS     FileSession      SerialLine
       |        (MCHeap)    (MCFS)    (MCSession)      (MCSerial)
    ARSSched                  |
    (MCSched)                Boot         ARSSource
                            (MCBoot)      /       \
                                     Compiler    Language
                                          \       /
                                           Interp
                                         (MCProgram)

proofs:  IterationTheorems --> ARSMemory_proofs --> ARSHeap_proofs
                   |                 \
                   |                  --> ARSSched_proofs
                   +-> ARSFS_proofs --> Boot_proofs
         FileSession_proofs         SerialLine_proofs
```

`ARSHeap` implements `FrameStacks`, `ARSFS` implements `FileStore`, `Interp` implements
`Language`; `ARSSched` shares the operators of `ARSMemory` and its predicates of a heap in
order with `ARSHeap`, and `FileSession` stands on the `FileStore` that `ARSFS` implements.

**`ARSMemory`** translates `Memory.cpp` into operators on a record `m`: `hdr`, a
function from the offsets where a block begins to its header (`magic` FREE or
SPLT, `id`, `len`, `last`, `next`); `nz`, the traced bytes that are not known to
be zero; the list ends and levels. A pointer is an offset or `NULL`. `SuperFree`
keeps its three merge cases as `MergeBoth`, `MergePrev`, `MergeNext`;
`findFreeMemById` is first fit (`FirstFit`), then a split (`Split`) or a growth of
`LastMEM`. A list is walked with the recursive *function* of `Iteration`, so that
the proofs can use it. `call`, `ret` and `hlt` are the parts of the interpreter
that change frames.

**`ARSHeap`** is the state machine: tasks execute `Call`, `Ret`, `Hlt`, and the host
does `Start`, `Kill`, `Restart` and `RebootAll`, in any order. `init_mem_info` resets the lists
and `LastMEM` but clears no byte of `runMem`, so after a `RebootAll` a frame put at `LastMEM` holds
what was there before, and only what was given back since is known to be zero
(`ZeroOutsideFrames`). `wild` becomes true when the code
writes through a `CurPhyMem` that does not belong to the running level (a call
that got no memory, an access without a frame). `CurCmd # NULL` is `alive`.
What happens after a wild write depends on the bytes of the frames and is left
open: it may have hit any header, so every property of the heap is about the histories
up to the first one.

**`FrameStacks`** is what the allocator promises: for each task a sequence of frame
sizes; a call pushes, a return pops the last, an end empties one task's stack; no
step but a reboot of the whole system, which empties all, touches two. `ARSHeap` implements
it (`IsFrameStacks`), with the frames read off the headers in list order as the refinement
mapping.

**`ARSSched`** composes the scheduler with the allocator's operators. `sys` is the
kernel's globals; each host command is one action with the guard of its error
returns (a command that answers an error changes nothing). A file is reduced to
the memory its main program asks for, or `NOFILE`. `arssched_load` begins the
loadable lines of SCHEDULE in order, and returns early, leaving the names, when the
file is empty, as in the code. Programs are compiled ones: a `CALL` asks for a
frame that has room for the parameters pushed for it. The kernel's own calls, at `start`,
`reboot` and `reboot_all`, copy whatever the slot's last program has pushed, and may write
over the header of the block behind the frame: that sets `sys.wild`. After it the model
stops (`Lost`), and nothing is claimed: other tasks' memory may hold anything. `NOFILE`, a file that
is missing or too long, is told from a main program without variables (size 0).

**`ARSFS`** models the metadata in RAM (`meta`), the flash (`flash`), and the writes
the running operation still has to do (`todo`). An operation changes RAM at once
(it runs to its end before anything else does) and then drains `todo` by the two
steps of `arsfs_flash_write`: `Erase` reads the sector into `secBuf` and erases it,
`Program` writes it back. `PowerLoss` may come between any two steps, and may
leave a sector half programmed (`Torn`): a prefix of the pages, or of the
metadata with 0xFF behind, which reads as `EOF_PG` in both tables. The cut may also lie
inside an entry (`TornFcb`): in its name (an entry without a name that is in use), behind
it (a file of negative size without a chain), or behind its first page (a file with a chain
and a negative size, any of which reads as no bytes). `arsfs_init`
formats the disk when the magic number is missing. A file's contents is a value,
its k-th page the pair of value and k. Names that differ in case are one `Name`.

**`FileStore`** is what `ARSFS` promises while the power stays on: a table from names
to contents with room for so many names and pages, where a write fails only when
the other files leave too little room, and then empties the file.

**`SerialLine`** models the line and both its ends. What the terminal has written is
one sequence, `sent`; `arrived` and `pos` say how much of it has reached the device
and how much the device has read, so bytes may come late and no byte is lost, as on
USB. A unit of it is a command's text, a line end, or a piece of a file, which may
be printable, unprintable or a line end itself. `dev.mode` says where the device
waits: in `arsuart_poll` (`"command"`), in the loop of `handleUpdate` (`"payload"`),
in `arsuart_rxFlush` (`"flush"`); a unit is read by one action in each. A handler's
code between two waits is one step. `tx` is the transmit ring with its two drop
rules, `inp` what has left it and is not read. `host.mode` is the `read_line` or
`wait_for` the terminal is in, one `Heard...` operator for each. It may give up in
any of them (`GiveUp`), and be ended and started again at any time (`Restart`). Timeouts
are steps that may be taken when nothing is there to be read; how long they are is
left out. Each answer line carries the number of its command, which only the
properties look at.

**`FileSession`** has the four file calls of `Glue.h` over the table of files: the session's
globals, a buffer of `FILE_MAX` cells, `reply` (what the call gives back) and `behind`,
true from the moment the host changes the session's file, or a write fails, until the
next open. A file that does not exist is created by an open; a write stores the whole
buffer. Nothing in the session belongs to a task, so who calls is left out: any call may
come at any time. `found` says whether the address handed over is in the caller's frame.

**`Boot`** runs `deferredBoot` over all of `ARSFS`: mount, `ARS_provision` (`IsBlank`, then the
steps of `Script` one by one, each skipped when its guard in `ARSFS` fails, as the code
goes on after an error), `loadScheduleFile`, and then the host's `update`, `del`, `reboot_all`, which
runs `loadScheduleFile` again, and `format`, which provisions again. An `Outage` may come
between any two flash steps of any of these. `calm` counts starts without a disturbance,
`harm` remembers what may excuse a schedule without its demos.

**`ARSSource`** is what compiler, interpreter and language share: a program is a sequence
of lines, a line a word, a type letter and operands; the arithmetic of words. **`Compiler`**
is `Compiler.c` as operators on a record of its globals: `compileOneLine` for each line,
`resolveLabels` at the end. It computes the image down to the bytes: opcodes with their
three type bits, headers, operands, tables. What the C program refuses with `exit(1)` sets
`failed`; what it ignores with a warning is ignored. **`Interp`** runs that image as
`INTERPRETER.cpp` does: `op`, `pt` and `P(k)` are read from the code at `cmd`, the next
`cmd` comes from `schedParamQ`, the scheduler's own table of operand counts (with its two
for `ipc_recv`, where the compiler emits one), variables are bytes of a frame, a new frame
holds zeros or, as after a `reboot_all`, anything else (`Fill`), `Fetched` and `Width` say
which operands a handler follows as addresses and how many bytes it takes, one action is one
handler. The compiler builds the program once (`Build`), the scheduler starts it again and
again (`Load`), keeping mailbox, `CalcResu` and parameters, and another task takes and sends
mail (`Other`). Once an access leaves the frame, `wild`, nothing more is followed.

**`Language`** says what a program means without addresses or code: variables by name,
new at each call with any value, parameters in those declared first, a line at a time. It is written
from the language chapters of `README.md` where they speak and from the compiler where
they are silent. `Interp` implements it (`IsLanguage`): the line of an address, the
variables of a frame and the parameters on the stack are read back through what the
compiler noted (`Readable`, `Values`). `Boot`'s files, `ARSSched`'s tasks and `Interp`'s code meet
only in names and frames, so they are not composed further.

Operators named `f_something` with a comment `Mutant:` before an operator `f` are
plausible bugs of `f`. No specification uses them; `PROJECT.json` ("mutants")
pairs each checked property with one that breaks it.

## 3. The runs

| run | bounds | checks | size |
|---|---|---|---|
| `MCHeap` | 2 tasks, 18 bytes, header 2, context 1, frames of 1, 3, 6 | `TypeOK`, `Tiling`, `FreeListExact`, `Coalesced`, `FramesExact`, `ZeroOutsideFrames`, `GrowsOnlyWhenNothingFits`, `OneTaskAtATime`, `IsFrameStacks` | 123 k states |
| `MCSched` | 2 slots, 2 programs, all files, a table of no and of three lines, parameters of 2 bytes on a stack of 3, 1 letter | `TypeOK`, `HeapConsistent`, `CommandsSpareTheOthers`, `EndsByItselfOrKill`, `KillLeavesNone`, `RebootAllFollowsSchedule`, `MailIsKept`, `EverySlotGetsItsTurn` | 247 k |
| `MCFiles` | 3 names, 2 entries, 3 pages, 2 pages per sector, files of 0, 1, 2 pages | `TypeOK`, `MetaSound`, `Durable`, `IsFileStore` | 13 k |
| `MCBoot` | 3 names, 3 entries, 3 pages, 2 per sector, torn data and metadata sectors | `FlashSound`, `OthersSurvive`, `SelfHeals`, `DemosBeforeSchedule` | 1.7 M |
| `MCSession` | 3 names on a disk for 2 files and 3 pages, files of up to 2 cells, 2 cell values | `TypeOK`, `SnapshotIsFile`, `ReadsTheFile`, `WritesInPlace` | 53 k |
| `MCSerial` | 2 commands of 5 kinds; files of 0, 2 and 3 units, chunks of 2; line buffer of 3, ring of 9 keeping 2 | `TypeOK`, `NeverSpliced`, `QuietExchange`, `OnlyBacklogIsDropped`, `DeviceComesBack` | 149 k |
| `MCProgram` | 153 programs, among them the three demos, in frames of zeros and of 255s | `TypeOK`, `AtInstruction`, `StaysInFrame`, `NamesResolve`, `ShippedCode`, `IsLanguage` | 7 k |
| `MCRebootOverrun` | 2 slots, 1 program (twins), parameters of 1 and 2 bytes | `RebootStaysInItsFrame`, violated | |
| `MCDirty` | as MCFiles, 2 names | `NoDirtyChain`, violated | |
| `MCStale` | as MCSerial | `AnswerIsOwn`, violated | |
| `MCMail` | 2 programs | `IsLanguage`, violated | |
| `MCRecv` | 1 program | `AtInstruction`, violated | |

Why the bounds are enough.

* *MCHeap.* Eighteen bytes hold up to six blocks, so a released block meets every kind
  of neighbourhood: free on both sides, on one, on none, at the bottom and at
  `LastMEM`. The three frame sizes give a fit that is exact, one whose rest is too
  small for a header (`SLACK`), and one that is split; the memory runs out too. The
  sizes are scaled down: in the code a frame begins with 4 bytes of context, and a
  block that fits is split when 50 bytes or more are left over, more than a header
  takes; only this order matters, and the proofs (section 5) assume no more. The tasks are
  interchangeable in `ARSHeap`, so symmetry is used; no property of the run is a liveness
  property.
* *MCSched.* Two slots are enough for a victim and a bystander, and for twins; the table
  of three lines has twins and is longer than the number of slots, the empty one ends
  everything, and `update` and `del` change which of its programs can be loaded. All commands
  may come between any two instructions. The heap of 10 bytes runs full. Parameters of 2
  bytes fit the stack of 3 once and are refused the second time; a kernel's call that finds
  them on the stack writes past a main frame of 1, so the overrun happens. One letter shows
  who empties a mailbox; that a message never overwrites another takes two, which `MCProgram`
  has (its own and the other task's), and is proved (`MailStaysPut`).
* *MCFiles.* With 3 pages and files of up to two pages the pages run out; with 2
  entries for 3 names the directory does. In the shipped constants the pages cannot
  run out (32 entries of at most 4 pages, 128 pages); the code handles the case and
  so does the model.
* *MCBoot.* The schedule, one demo and a file of the user's, which may take up entry 0, all
  entries or all pages: the cases in which the provisioning cannot do its work. Two
  pages of one sector and one of the next; any number of failures, commands and starts.
  The two kinds of torn sector are explored together. `FlashSound` and `OthersSurvive` are
  properties of `ARSFS`, checked here because this run contains every operation of it
  under power failures and orders them as the firmware does.
* *MCSession.* Three names for two entries and three pages: opens that find, create and
  fail, writes that fit and do not. Two cells are the least with a cursor at the
  beginning, within and at the end; variables and requests of 0, 1 and 2 cells reach
  each end of file and buffer. With three cells the run takes over five minutes; the
  proofs (section 5) hold for every size.
* *MCProgram.* Every program is run to its end, with every input of the pins, the clock
  and the other task (those that never end have finitely many states, and all are
  visited). The programs: the three demos with shorter delays and recursions, each
  calculation and comparison with each combination of variables and numbers, of either
  sign, in both types, each form of the bit operations, arrays of each type between
  other variables, all conversions, calls with parameters of each size, registers, mail,
  and programs with names that mean nothing. Every program is run with frames that begin
  as zeros and with frames that begin as 255s. LEDFlash and LEDStream as their sources are today
  are compiled and compared, byte for byte, with the 96 and 210 bytes in `ByteCode.h`; one
  operand of LEDStream differs, which the property names. An `ipc_recv` in these programs is the
  last line that does something (`MCRecv` shows why). Left out are the forms of section 4 that
  `README.md` and the code take differently: `MCProgram.tla` lists them.
* *MCSerial.* Two commands: the first may be left in any state, with its payload or
  its answer half way, and the second meets what is left. A file of three units in
  chunks of two has a full chunk and a shorter one, and a stall inside the full one;
  late units fill the line buffer beyond its end. The ring is the smallest that has
  room for the backlog it may keep and the longest answer (`RingAssumption`; in the code
  1024 and, for a `get` of 2048 bytes, 4241 of 8192), so an unread answer and two new
  ones would overflow it. A host that does not read at all loses what `arsuart_txBegin` drops, the
  rest of an answer half sent too, and `OnlyBacklogIsDropped` says just when. Three commands
  with all files are beyond five minutes.

*Fairness.* `EverySlotGetsItsTurn` is checked under
`WF_vars(arssched_loop)`: `loop()` calls `arssched_loop` in each round, and
`arsuart_poll` returns after at most `POLL_MAX_CMD` commands, so a step of the
scheduler that stays possible is taken. The one handler that can hold the
processor for long, `update` waiting for its payload, ends by its timeout: that is
`DeviceComesBack`, checked under weak fairness of the device's steps (its loops test the
clock in every round) and of arrival (what has been written is delivered). That
the terminal writes a bounded number of units is part of what it says: a host that
never paused could keep `rxFlush` waiting. Nothing is assumed about tasks, terminal or
the draining of the ring. The safety properties assume no fairness.

*Deadlock* is checked in every run but `MCProgram`, `MCMail` and `MCRecv`: a program that the compiler
refuses is never started.

## 4. What the violated runs show

| run | the code | the claim |
|---|---|---|
| `MCRebootOverrun` | `ARSSCHED.cpp:137`: the parameter stack outlives the program; `call` copies it into the new frame, past its end | `README.md:498`: no byte of the other tasks is touched; `README.md:493`: the slot is zeroed |
| `MCDirty` | `ARSFS.cpp:259`: an overwrite takes its own old pages again before the table is written | `README.md:358`: no chain leads to dirty data |
| `MCStale` | `ARSTerm.py:66`: the body of `drain()` is a string, and `cmd_get` leaves the final `OK` of every download unread (`ARSTerm.py:280`), so the next command is told that `OK` | `ARSTerm.py:63`: done before every command, lest it read the answer of the one before |
| `MCMail` | `INTERPRETER.cpp:386`: with two addresses `ipc_send` takes the first for the message and the second for the receiver, the compiler emits them the other way (`Compiler.c:586`), so the message goes elsewhere | `README.md:824`: `ipc_send` receiver, value |
| `MCRecv` | `ARSSCHED.cpp:32` (and `main.ino:20`): two operands for `ipc_recv`, where the compiler emits one (`Compiler.c:594`); the loop lands four bytes behind the next instruction | `ARSSCHED.cpp:26`: the operands of each instruction; `INTERPRETER.cpp:759`: one byte too many displaces all that follows |

Other places where code and text differ were met and are in the model as the code
has them, without a run.

* *Memory.* `call` ignores that no memory was found (`INTERPRETER.cpp:497`; the comment at 496
  has `CurPhyMem` at the memory allocated; `README.md:990` admits unchecked results). `ret` in
  a main program releases the task and then sets `CurCmd` again (`INTERPRETER.cpp:524`;
  `Memory.cpp:236` says the task is reset).
* *Tasks.* `reboot` of a halted program, whose name is still in its slot, starts it
  (`ARSSCHED.cpp:122`, `README.md:485`); a second `start` of a running program is not refused
  (`ARSSCHED.cpp:176`, `README.md:510`); `reboot` and `kill` leave mailbox and parameter
  stack (`ARSSCHED.cpp:128`, `195`) although the slot is said to be zeroed or emptied
  (`README.md:493`, `508`), so `MailIsKept` speaks of instructions only; `reboot_all` does
  not clear `runMem` (`Memory.cpp:29`), so variables of a program need not start from zero
  after it; `gSchedTasks` counts halted tasks until the next command (`INTERPRETER.cpp:690`,
  `ARSSCHED.h:17`).
* *Files.* The metadata sector is erased and then programmed, and a mount in between
  formats the disk (`ARSFS.cpp:151`; `README.md:993`: the last operation may be lost); one torn
  while it is programmed leaves chains shorter than their files - `FlashSound` says what
  still holds then. With entry 0 taken by another file, a start restores SCHEDULE's entry
  only, the next one its contents (`main.ino:75`). A second open redirects the session of
  the first; neither FILE_READ nor FILE_WRITE knows how long the variable is (`Glue.h:127`,
  `Glue.h:139`); a write that fails has already moved the cursor and changed the buffer
  (`Glue.h:141`).
* *Line.* An update sent again before the device has given up the first one becomes its
  payload (`ARSCMD.cpp:92`, `README.md:450`). `README.md:432` and `451` see an answer cut when the host
  does not read, by `txOver`: with the sizes in the code the ring never fills within one answer
  (`RingAssumption`), and what a host finds cut is the backlog dropped at the start of a later
  command (`ARSUART.cpp:44`).
* *Language.* The count of `init_array` is the number of entries (`INTERPRETER.cpp:133`, as in
  `LEDStream.txt` and at `README.md:900`), `README.md:662` and `678` have it one less, with
  which the last entry of the table is executed; an entry that is a variable moves the
  array's running address (`README.md:783`). `push F` converts the integer in `CalcResu`
  (`INTERPRETER.cpp:283`) rather than copying its bits (`README.md:776`). A float
  calculation whose second operand alone is a variable exchanges the operands
  (`INTERPRETER.cpp:626`). `mov I` from a byte variable (`README.md:712`) reads the three
  bytes behind it. `ByteCode.h:10` has a delay of 500 where the source it names,
  `LEDStream.txt:30`, has 100. `bit_move` is an unknown word to the compiler, which knows
  `bit_mov`, and is skipped with a warning. A `hlt` forgets the names of its function as
  `endfn` does, labels are global and the first wins, `endmain` and `endfn` emit nothing,
  indexes are not checked. `Compiler.h` no longer agrees with `Compiler.c`.

## 5. What is proved

All theorems are about every value of the constants that satisfies the assumptions named
in the modules. Those say what the types of the code say (counts and sizes are numbers,
tables are finite, marks like `NULL`, `ERASED` or `NONE` are none of the values they are
told from), and besides only:

* `SlackAssumption`: what is left of a block that is split has room for a header;
* `FactoryAssumption`: the SCHEDULE in the firmware is not empty;
* `FactoryFits`: its files have names of their own, and fit into the directory and on the disk
  (three of one page each, for 32 entries and 128 pages); only `DemosComeFirst` uses it;
* `RingAssumption`: the transmit ring is larger than the backlog a new answer leaves and the
  longest answer together;
* `KeepAssumption`: that backlog holds the errors of a chunk that is read as lines.

### The allocator

`ARSHeap_proofs` proves of `ARSHeap!Spec`, for every finite set of tasks, every size of memory,
header, context and slack and every set of frame sizes:

* `TypeCorrect`, `MemoryTiled`, `FreeListCorrect`, `FramesCorrect`, `FreeBlocksMerged`,
  `FreedIsZero`: the invariants `TypeOK`, `Tiling`, `FreeListExact`, `FramesExact`,
  `Coalesced`, `ZeroOutsideFrames`;
* `FirstFitFirst`: `GrowsOnlyWhenNothingFits`;
* `TasksApart`: `OneTaskAtATime`;
* `HeapIsFrameStacks`: `IsFrameStacks`, the refinement of `FrameStacks`;
* `Invariance`: the inductive invariant `Inv` they follow from.

None of the invariants is inductive alone: a merge keeps the free list exact only if the
two blocks are neighbours in memory, which is tiling; tiling survives only if the
headers the lists lead to are blocks. `Inv` says all at once: the blocks tile
`[0, LastMEM)`, the unused ones form one list from `FreeHead` to `FreeTail` and no two of them
are neighbours, those owned by each task form one list from its `MemHead` to its
`MemTail`, a task with frames is alive (`InOrder`), what lies below `LastMEM` and is neither header nor
frame is zero (`Clean`), and while `wild` is false the level of a task is the number of its
frames less one (`Levels`). The model follows no byte of a wild write, so `Inv` need not say more
than that; the properties claim nothing after one.

The argument runs in layers, each cited by name in the next:

1. `IterationTheorems`: a walk along `next` meets every node of a list that some
   sequence enumerates, and ends; a loop is a recursive function on Nat, and what its
   rounds keep is stated with the set of the round numbers that keep it (`SetInduction`, from
   the library's well-foundedness of Nat), or of the stages reached (`Stages`);
2. `ARSMemory_proofs`, lists: what appending, removing or replacing a node does to such a
   list (`ListAppend`, `ListRemove`, `ListReplace`), its ends, its size, and that the set
   the code's walk meets is the set of its nodes (`ListReached`);
3. the same module, geometry: tiling under merge, split and growth;
4. the same module, heap: `SuperFree` in its four cases, the loop of `ReArrangeMemAndTask`,
   `DelLastFuncMem`, `findFreeMemById` (exact fit, split, growth), `call` with and without
   memory. Each lemma says what becomes of the blocks in use, of the zero bytes and, for what
   gives memory back, that for every free block there is one as long afterwards (`Roomier`);
5. `ARSHeap_proofs`: every action is a release (`Shrinks`: nothing, the newest frame, or all
   frames of one task) followed by at most one new frame (`Gains`). From that shape, proved once
   per action (`Does`), follow the invariants and both action properties: if a free block of the
   right size is there before a call, it is there after what the call gives back, so the
   heap does not grow.

The refinement mapping reads a task's stack off the headers in list order. `IsRow` says what
such a sequence is, and a lemma that there is only one; a release or a new frame then
changes one task's row at its end and no other (`SamePrefix`), which are the steps of `FrameStacks`.

### The scheduler

`ARSSched_proofs` proves of `ARSSched!Spec`, for every number of slots, any programs, schedules
and messages and any size of the parameter stacks, from the same lemmas about `ARSMemory`:

* `TypeCorrect`, `HeapStaysConsistent`: the invariants `TypeOK` and `HeapConsistent`;
* `CommandsHitTheirTarget`: `CommandsSpareTheOthers`;
* `TasksEndByName`: `EndsByItselfOrKill`;
* `KillIsComplete`: `KillLeavesNone`, whatever the number of twins;
* `RebootAllIsExact`: `RebootAllFollowsSchedule`;
* `MailStaysPut`: `MailIsKept`;
* `Invariance`: the inductive invariant `Inv`.

`Inv` is the types, a heap in order and, until the first wild write, one frame per level. The
model stops at a wild write, so the heap's order needs nothing from `wild` in the proof, and the
properties claim it only without one. The action properties rest on what one change of a slot
leaves of the others (`SlotKept`). `kill` and `arssched_load` are loops over the slots; what
holds after the first k slots (`KilledSoFar`, `LoadedSoFar`) is carried through by the lemma
about stages. `RebootAllFollowsSchedule` also claims the sizes of the frames: a reload
starts from an empty heap, in which every main program takes fresh memory, exactly what it
asks for (`Packed`), until the memory runs out.

### The file system

`ARSFS_proofs` proves, for any names and contents and any size of directory, disk, page and
sector, of `ARSFS!CrashSpec`, where the power may fail between any two flash steps:

* `TypesHold`, `ReturnedIsStored`, `CrashLeavesSound`, `CrashSparesOthers`: `TypeOK`, `Durable`,
  `FlashSound`, `OthersSurvive`, all with torn data and metadata sectors;
* `DirectorySoundAfterCrash`: `MetaSound`, if a torn sector holds data only;

and of `ARSFS!Spec`, where the power stays on:

* `DirectorySound`: `MetaSound`;
* `DiskIsFileStore`: `IsFileStore`, the refinement of `FileStore`.

The inductive invariant `Inv(exact)` has four parts. `Types`. `Queue`: the writes that wait are to
different places, the metadata last; what is in the sector buffer is what the first of them
writes; when none waits, the flash is up to date. `OrderBoth`: the directory in RAM and the one on
the flash are in order; `exact` tells whether entries may have lost their names and files
pages, as they may once a torn metadata sector has been mounted - this is why `MetaSound` is not
inductive under such failures and `FlashSound`, which is weaker, is. `OldDirectory`: until the
metadata sector is erased, the directory on the flash says of every file but the one the
operation is about what RAM says, and no page of these is about to be written; without it
nothing is known of what a mount after a failure finds. TLC confirmed `Inv` on the instances of
`MCFiles` and `MCBoot` before it was proved.

Each operation is taken apart once: the metadata it leaves is a rearrangement of the one before
(entries kept or moved, one new or rewritten), with the pages of the new chain free before or
its own. That it is in order, and spares the other files' entries and pages (`Does`), follows
for create, create-at, delete and write alike. A metadata sector cut short is again in order,
though not exactly, which is the case of `PowerLoss`.

For the refinement `FileInv` adds to `Inv(TRUE)` that every entry has a name and reads as
contents that were written. What is read of a file (`ReadAt`) depends on its chain and on the
pages on it alone, with the writes that wait taken as done (`Pending`): so `Erase` and `Program`
stutter, and an operation changes the table as `FileStore` says. That a write fails
exactly when the other files leave too little room is a count of pages: the chains are disjoint
and as long as the files need, so their sizes add up to what is not free (`Sizes`, `Joined`).

### The start

`Boot_proofs` proves of `Boot!BootSpec`, on top of it, for any demos and contents:

* `BootUsesDisk`: `BootSpec => CrashSpec`; provisioning, the loading of the schedule, the host's
  commands and outages are steps of the file system and nothing else;
* `DiskStaysSound`: hence `FlashSound` and `OthersSurvive` hold of it;
* `ScheduleIsRestored`: `[]SelfHeals`;
* `DemosComeFirst`: `[]DemosBeforeSchedule`.

`SelfHeals` speaks of the second quiet start, so its invariant follows both. `Quiet`: after one
start without a disturbance SCHEDULE has an entry, or there is none free (`Placed`), which also
holds of the flash when the power goes at rest; when the second has provisioned, the schedule
can be read, or nothing can be done (`Healed`). It needs `Steady`: the last step of the script
is the one that writes SCHEDULE. No step of the script takes the entry away, and a write to it
succeeds exactly if the pages suffice.

`DemosBeforeSchedule` looks at the flash alone, and holds because provisioning goes through
its list in order, on a disk that is empty or that an earlier start has begun to fill in the
same order. The invariant, `FirstInv`, says which entries and which pages it has taken:

* A directory is a beginning (`Early`) if the first *e* files of the list have the first *e*
  entries, the first *w* demos have their pages, one region behind the other, and all else is
  empty and free (`EarlyAt`). First fit makes the next file the next entry and gives it the
  next region (`FirstFit`).
* Until SCHEDULE is written the flash has no directory or a beginning (`Bare`). From then on
  the directory is complete (`Base`), and only files of the host are written (`Settled`), behind
  the demos.
* While the list is worked off (`Laying`) the directory in memory is a beginning too, and what
  lies behind in the list has been done (`Got`): a step that is not possible now was done by
  the start before.

Without the pages this is not inductive: that a write to one file leaves a demo alone depends
on where it is. One case needs more than order. When a sector is erased for a file of the
host and holds a demo's page too, that demo is gone from the flash until it is programmed
again; but the demos lie in front and SCHEDULE's first page between them and the host's,
so the sector holds it as well and SCHEDULE reads as erased (`DemoInSector`). `FactoryFits` is
needed: a demo that finds no page is left empty, and SCHEDULE after it may be small enough.
TLC checked `FirstInv` on the instance of `MCBoot` before it was proved.

### File sessions and the serial line

`FileSession_proofs` proves of `FileSession!Spec`, for every set of names and of cells, every
size of the buffer, the pages and the disk and every set of variables
(`SessionAssumption`, `VarAssumption`: a variable is a sequence of cells of finite length):

* `SessionTypeOK`: `[]TypeOK`, the cursor is in the file and the file in the buffer;
* `SessionIsFile`: `[]SnapshotIsFile`, the session holds the file as it is on the disk;
* `SessionReads`: `ReadsTheFile`, a read delivers as many of the next cells of that file as were
  asked for and are there;
* `SessionWrites`: `WritesInPlace`, a write leaves that file with as many of its cells at the
  cursor as there is room for, and fails only if the result does not fit on the disk.

The inductive invariant is `TypeOK /\ SnapshotIsFile` with the name of an open session
being a name. The type alone is inductive; the snapshot needs it, since the buffer is
rewritten beyond the file's end. Lemmas say what `Part` and `Over` give and how long it
is, and what each operation of `FileStore` does to the files it does not name; then there
is one case per action.

`SerialLine_proofs` proves of `SerialLine!Spec`, for all sizes of the line buffer, the chunk
and the ring, all files and any number of commands (`BufferAssumption`: the line buffer has
room for a unit and its final 0; `ContentsAssumption`: files consist of the three kinds of
bytes; `RingAssumption`; `KeepAssumption`):

* `LineTypeOK`: `[]TypeOK`, neither buffer is overrun, an update reads no more than it was told;
* `OnlyBacklogDropped`: `OnlyBacklogIsDropped`, what leaves the ring is sent, or was more than `TX_KEEP`
  when a later command began;
* `WholeFiles`: `[]NeverSpliced`, an update leaves one piece of what the terminal wrote;
* `QuietIsAnswered`: `[]QuietExchange`, a command typed on a quiet line gets its own answer, and
  an update reported OK has stored the user's file.

None of it depends on how long anyone waits: timeouts, abandoned commands and restarts of the
terminal are steps like the others. `WholeFiles` is not inductive, for it says nothing of the
update under way. `Inv` adds that an update on the wire is followed by its line end
(`Followed`), so that it is alone in the line buffer and the unit read last (`Reading`), and
that while its payload is awaited `upBuf` is what was read behind that line (`Uploading`).
`OnlyBacklogDropped` needs the ring to have room left for the error of a timeout while a payload is
awaited (`Room`). What the terminal writes later leaves all this alone (`Written`).

`QuietExchange` speaks of the end of an exchange; its invariant, `Exchange`, of every moment of
it. It looks at `Coming`, all that the device has said and the host has not heard yet (the line
being read, what has arrived, the ring), which neither the line nor the host's reading of a
unit changes (`Passed`). From the command on there are three phases: the command is on
the wire and nothing is coming (`NoneYet`); the device has the update and awaits a chunk, or
the host its acknowledgement, never both (`Receiving`: a chunk ends where the device will
acknowledge, `Chunk`); the device has answered (`Answered`). Then the first line coming is the
result, alone or behind the ready line or acknowledgement the host has not heard yet. A
timeout that the host learns of too late lets it send one more chunk, which the device reads
as lines and answers with errors. They come behind the result, where nobody looks, unless
they are so many that the ring drops its backlog with the result in it. So `Exchange`
bounds them (`Left`): a unit read is one symbol at most, and a chunk of them fits the backlog
by `KeepAssumption`. In the code a chunk of 128 bytes makes at most 64 error lines of 13
bytes, 845 with the timeout's own, and the backlog is 1024; with a smaller backlog
TLC finds the result lost, and the theorem would be false.

## 6. What is only model-checked

* `Compiler`, `Interp` and `Language`, and with them `MCProgram`: what they compute is defined by
  folds over a program's lines and by bit operations, whose meaning the prover does not know.
* `EverySlotGetsItsTurn`, `DeviceComesBack`: liveness under fairness is out of its reach.
* The five violated runs are counterexamples and need no proof.

Not modelled, and why:

* `ResumeMem`, which repairs a header from guard words after a wild write, and what
  happens after a wild write at all: it depends on every byte of memory;
* floats that are not whole numbers and arithmetic beyond 32 bits: no property is about
  rounding, and the programs stay far from the limits;
* the four-byte forms of `reg_write` and `reg_read`, which the compiler cannot emit, and
  byte code that no compiler made, for which the interpreter promises nothing;
* the splitting of a source line into words, the sizes of the compiler's tables and its
  output file;
* an interrupted *erase* of a sector (it may leave arbitrary bits), wear, and the
  driver's error returns, which the RP2040 backend never gives;
* pins and the clock (inputs of the model), the browser IDE (user interface, and a copy of
  the compiler in JavaScript);
* the builds without files and UART (`ARSSCHED.cpp:222` on), which run one built-in
  program;
* the text of commands and answers, and a serial line that loses or alters bytes, which
  USB does not;
* line, tasks and disk in one model: each command's effect is in `ARSSched`, `Boot` or
  `FileSession`, and its way over the line in `SerialLine`, where it succeeds or fails.

## 7. Plan

1. An abstract specification of the serial line: from a quiet line a command is answered
   once, by its own answer, which `SerialLine` implements while nobody gives up.
2. Several compiled programs at once: `Interp` with frames from `ARSMemory`, and the guard
   words and `ResumeMem` with them.

## 8. Running

`tlc -config MCHeap.cfg MCHeap` (likewise the others: the module is in the table of
`PROJECT.json`), `tlapm ARSHeap_proofs.tla`. The longest run, `MCBoot`, takes two
to three minutes, the proofs a few minutes each.
