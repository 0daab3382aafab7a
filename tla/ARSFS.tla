-------------------------------- MODULE ARSFS --------------------------------
(***************************************************************************)
(* The file system, src/Core/ARSFS.cpp: a directory of FCBs and a table of *)
(* page links (nextPg), kept in RAM and in sector 0 of the flash, and data *)
(* pages in the sectors behind it.  The flash is erased a sector at a time *)
(* and several pages share one, so each write of a page or of the metadata *)
(* reads the sector, erases it and programs it again.                      *)
(*                                                                         *)
(* An operation runs to its end before anything else runs (fsLock), so it  *)
(* changes RAM at once; its writes to the flash follow one by one, since   *)
(* the power may fail between any two steps of them.  The driver's error   *)
(* returns (FS_EIO) are left out: the RP2040 backend always returns FS_OK. *)
(*                                                                         *)
(* The contents of a file is a value d of Data with SizeOf[d] bytes; its   *)
(* k-th page reads <<d, k>>.  Names that differ in case only are one Name. *)
(***************************************************************************)
EXTENDS Integers, Sequences, FiniteSets, Iteration

CONSTANTS
  Name, Data, SizeOf,
  FCB_CNT,     \* directory entries
  BMP,         \* data pages
  PG,          \* bytes of a page
  SECTOR,      \* pages of a sector
  FREE_OR_DEL, EOF_PG, \* the marks of nextPg and of FCB.start
  NONE,        \* no name, nothing
  ERASED,      \* what an erased page or metadata sector reads as
  Torn         \* sectors whose programming the power may cut short:
               \* a subset of {"data", "meta"}

Slot == 0 .. FCB_CNT - 1
Page == 0 .. BMP - 1

ASSUME GeometryAssumption ==
  /\ FCB_CNT \in Nat \ {0} /\ BMP \in Nat \ {0}
  /\ PG \in Nat \ {0} /\ SECTOR \in Nat \ {0}
ASSUME MarkAssumption ==
  FREE_OR_DEL \notin Page /\ EOF_PG \notin Page /\ FREE_OR_DEL # EOF_PG
ASSUME DataAssumption == SizeOf \in [Data -> Nat]

VARIABLES
  meta,    \* the metadata in RAM
  flash,   \* the metadata sector and the data pages
  todo,    \* writes to the flash the running operation has still to do
  secBuf,  \* the sector being rewritten, while the flash holds none of it
  target,  \* the file the running operation is about
  up       \* mounted
vars == <<meta, flash, todo, secBuf, target, up>>

META == -1         \* the metadata sector, among the pages to be written
ALL  == -2         \* every file, among the names

pgCount(len) == IF len > 0 THEN (len + PG - 1) \div PG ELSE 0

NoFcb     == [fileName |-> NONE, start |-> FREE_OR_DEL, size |-> 0]
EmptyFcb(n) == [fileName |-> n, start |-> EOF_PG, size |-> 0]
\* An FCB of bytes 0xFF: in use, nameless, of -1 bytes.
ErasedFcb == [fileName |-> NONE, start |-> EOF_PG, size |-> -1]

Blank == [fcb    |-> [i \in Slot |-> NoFcb],
          nextPg |-> [p \in Page |-> FREE_OR_DEL]]

Least(S) == CHOOSE x \in S : \A y \in S : x <= y
InUse(m) == {i \in Slot : m.fcb[i].start # FREE_OR_DEL}
Hits(m, n) == {i \in InUse(m) : m.fcb[i].fileName = n}
arsfs_find(m, n) == IF Hits(m, n) = {} THEN -1 ELSE Least(Hits(m, n))

\* The pages of the chain that begins at start.
Jump(m) == [p \in Page \cup {FREE_OR_DEL, EOF_PG} |->
              IF p \in Page THEN m.nextPg[p] ELSE p]
Nth(m, start, k) == Iterate(Jump(m), start)[k]
Chain(m, start) == {Nth(m, start, k) : k \in 0 .. BMP} \cap Page

\* Mutant: the last page of the chain is kept.
pgFreeChain_keepsEnd(m, start) ==
  [m EXCEPT !.nextPg = [p \in Page |->
      IF p \in Chain(m, start) /\ @[p] # EOF_PG THEN FREE_OR_DEL ELSE @[p]]]

pgFreeChain(m, start) ==
  LET chain == Chain(m, start) IN
  [m EXCEPT !.nextPg = [p \in Page |-> IF p \in chain THEN FREE_OR_DEL ELSE @[p]]]

FreePages(m) == {p \in Page : m.nextPg[p] = FREE_OR_DEL}
\* The pages pgAlloc returns one after the other: first fit.
Ascending(S) ==
  CHOOSE f \in [1 .. Cardinality(S) -> S] : \A j, k \in DOMAIN f : j < k => f[j] < f[k]

-----------------------------------------------------------------------------
(***************************************************************************)
(* Operations.  m is the metadata they leave, w the pages they write, in   *)
(* order, before metaFlush writes m.                                       *)
(***************************************************************************)
Ready == up /\ todo = <<>>
Flush == <<[page |-> META, chunk |-> NONE]>>
Does(n, m, w) ==
  /\ Ready
  /\ meta' = m /\ todo' = w \o Flush /\ target' = n
  /\ UNCHANGED <<flash, secBuf, up>>

format == Does(ALL, Blank, <<>>)

FreeSlots(m) == Slot \ InUse(m)

\* Mutant: an entry of the same name is not looked for.
createFile_twins(n) ==
  /\ FreeSlots(meta) # {}
  /\ Does(n, [meta EXCEPT !.fcb[Least(FreeSlots(meta))] = EmptyFcb(n)], <<>>)

\* A file that exists is left as it is, with FS_OK.
createFile(n) ==
  /\ Hits(meta, n) = {} /\ FreeSlots(meta) # {}
  /\ Does(n, [meta EXCEPT !.fcb[Least(FreeSlots(meta))] = EmptyFcb(n)], <<>>)

\* Mutant: the entry is copied to its new place and the old one stays.
createFileAt_copies(n, slot) ==
  LET cur == arsfs_find(meta, n) IN
  /\ cur # slot /\ slot \in FreeSlots(meta)
  /\ Does(n, [meta EXCEPT !.fcb[slot] = IF cur = -1 THEN EmptyFcb(n) ELSE meta.fcb[cur]],
          <<>>)

\* File n is created in, or moved to, a given entry.
createFileAt(n, slot) ==
  LET cur == arsfs_find(meta, n)
      fcb == IF cur = -1 THEN [meta.fcb EXCEPT ![slot] = EmptyFcb(n)]
             ELSE [meta.fcb EXCEPT ![slot] = meta.fcb[cur], ![cur] = NoFcb]
  IN  /\ cur # slot /\ slot \in FreeSlots(meta)
      /\ Does(n, [meta EXCEPT !.fcb = fcb], <<>>)

\* Mutant: the metadata is not flushed.
delFile_unflushed(n) ==
  LET i == arsfs_find(meta, n) IN
  /\ Ready /\ i # -1
  /\ meta' = [pgFreeChain(meta, meta.fcb[i].start) EXCEPT !.fcb[i] = NoFcb]
  /\ UNCHANGED <<flash, secBuf, todo, target, up>>

delFile(n) ==
  LET i == arsfs_find(meta, n) IN
  /\ i # -1
  /\ Does(n, [pgFreeChain(meta, meta.fcb[i].start) EXCEPT !.fcb[i] = NoFcb], <<>>)

(***************************************************************************)
(* writeFileAt: the old pages are given back first and may be taken again  *)
(* at once; if the pages run out the ones written are given back too, and  *)
(* the file is left empty.                                                 *)
(***************************************************************************)
writeFileAt(n, i, d) ==
  LET old  == pgFreeChain(meta, meta.fcb[i].start)
      gone == [old EXCEPT !.fcb[i].start = EOF_PG, !.fcb[i].size = 0]
      need == pgCount(SizeOf[d])
      pg   == Ascending(FreePages(gone))
      got  == IF need <= Len(pg) THEN need ELSE Len(pg)
      link == [k \in 1 .. got |-> IF k = got THEN EOF_PG ELSE pg[k + 1]]
      taken == {pg[k] : k \in 1 .. got}
      done == [gone EXCEPT
                 !.nextPg = [p \in Page |-> IF p \in taken
                               THEN link[CHOOSE k \in 1 .. got : pg[k] = p] ELSE @[p]],
                 !.fcb[i].start = IF need = 0 THEN @ ELSE pg[1],
                 !.fcb[i].size  = SizeOf[d]]
  IN  Does(n, IF need <= Len(pg) THEN done ELSE gone,
           [k \in 1 .. got |-> [page |-> pg[k], chunk |-> <<d, k>>]])

writeFile(n, d) ==
  LET i == arsfs_find(meta, n) IN i # -1 /\ writeFileAt(n, i, d)

Operation ==
  \/ \E n \in Name :
       \/ createFile(n) \/ createFileAt(n, 0) \/ delFile(n)
       \/ \E d \in Data : writeFile(n, d)
  \/ format

-----------------------------------------------------------------------------
(***************************************************************************)
(* arsfs_flash_write, for the first write of todo: the sector is read into *)
(* secBuf, with the new page in it, and erased; then it is programmed.     *)
(***************************************************************************)
Neighbours(p) == {q \in Page : q \div SECTOR = p \div SECTOR}

\* Mutant: the other pages of the sector are not read back.
Rewritten_blind(w) ==
  [q \in Neighbours(w.page) |-> IF q = w.page THEN w.chunk ELSE ERASED]

Rewritten(w) ==
  [q \in Neighbours(w.page) |-> IF q = w.page THEN w.chunk ELSE flash.page[q]]

Erase ==
  LET w == Head(todo) IN
  /\ todo # <<>> /\ secBuf = NONE
  /\ IF w.page = META
     THEN secBuf' = meta /\ flash' = [flash EXCEPT !.meta = ERASED]
     ELSE /\ secBuf' = Rewritten(w)
          /\ flash' = [flash EXCEPT !.page = [q \in Page |->
                          IF q \in Neighbours(w.page) THEN ERASED ELSE @[q]]]
  /\ UNCHANGED <<meta, todo, target, up>>

\* The pages P of secBuf reach the flash.
WithPages(P) == [flash EXCEPT !.page = [q \in Page |-> IF q \in P THEN secBuf[q] ELSE @[q]]]

Program ==
  /\ secBuf # NONE
  /\ flash' = IF Head(todo).page = META THEN [flash EXCEPT !.meta = secBuf]
              ELSE WithPages(DOMAIN secBuf)
  /\ secBuf' = NONE /\ todo' = Tail(todo)
  /\ target' = IF Tail(todo) = <<>> THEN NONE ELSE target
  /\ UNCHANGED <<meta, up>>

-----------------------------------------------------------------------------
(***************************************************************************)
(* The power fails: RAM is lost, and a sector that was being programmed    *)
(* may hold the first bytes of what it should hold and be erased behind.   *)
(***************************************************************************)
Before(c) == {q \in DOMAIN secBuf : q < c}
\* What entry i reads as if the power fails in the middle of it: bytes 0xFF from within
\* its name, from behind its name, or from its size on.  A free entry has no name.
TornFcb(i) ==
  LET fcb == secBuf.fcb[i]
  IN  {ErasedFcb, [fcb EXCEPT !.size = -1]}
      \cup {[fcb EXCEPT !.start = EOF_PG, !.size = -1] : j \in InUse(secBuf) \cap {i}}
\* The metadata up to its c-th entry, FCBs first, with e of that one; the magic number is
\* there.
Prefix(c, e) ==
  [fcb    |-> [i \in Slot |-> IF i < c THEN secBuf.fcb[i] ELSE IF i = c THEN e ELSE ErasedFcb],
   nextPg |-> [p \in Page |-> IF FCB_CNT + p < c THEN secBuf.nextPg[p] ELSE EOF_PG]]

PowerLoss ==
  /\ up
  /\ \/ UNCHANGED flash
     \/ /\ secBuf # NONE /\ Head(todo).page # META /\ "data" \in Torn
        /\ \E c \in DOMAIN secBuf : flash' = WithPages(Before(c))
     \/ /\ secBuf # NONE /\ Head(todo).page = META /\ "meta" \in Torn
        /\ \E c \in 0 .. FCB_CNT + BMP - 1 :
             \E e \in IF c \in Slot THEN TornFcb(c) ELSE {ErasedFcb} :
               flash' = [flash EXCEPT !.meta = Prefix(c, e)]
  /\ up' = FALSE /\ meta' = Blank
  /\ todo' = <<>> /\ secBuf' = NONE /\ target' = NONE

\* Mutant: the magic number is not looked at.
arsfs_init_unchecked ==
  /\ ~up /\ up' = TRUE /\ meta' = flash.meta
  /\ UNCHANGED <<flash, todo, secBuf, target>>

\* arsfs_init: without a valid magic number in sector 0 the disk is formatted.
arsfs_init ==
  /\ ~up /\ up' = TRUE
  /\ IF flash.meta = ERASED
     THEN meta' = Blank /\ todo' = Flush /\ target' = ALL
     ELSE meta' = flash.meta /\ UNCHANGED <<todo, target>>
  /\ UNCHANGED <<flash, secBuf>>

Init ==
  /\ flash = [meta |-> ERASED, page |-> [p \in Page |-> ERASED]]
  /\ meta = Blank /\ todo = <<>> /\ secBuf = NONE /\ target = NONE /\ up = FALSE

Next == Operation \/ Erase \/ Program \/ arsfs_init
Spec == Init /\ [][Next]_vars

CrashSpec == Init /\ [][Next \/ PowerLoss]_vars

-----------------------------------------------------------------------------
(***************************************************************************)
(* readFile, on metadata m and pages pg: the chain is followed until size  *)
(* bytes are read or it ends; of a file of no bytes or fewer, nothing.     *)
(***************************************************************************)
ABSENT == [size |-> -20, pages |-> <<>>]        \* FS_ENOENT
readFile(m, pg, n) ==
  LET fcb  == m.fcb[arsfs_find(m, n)]
      want == pgCount(fcb.size)
      walk == [k \in 1 .. want |-> Nth(m, fcb.start, k - 1)]
      got  == {k \in 1 .. want : \A j \in 1 .. k : walk[j] \in Page}
  IN  IF Hits(m, n) = {} THEN ABSENT
      ELSE [size  |-> IF fcb.size > 0 THEN fcb.size ELSE 0,
            pages |-> [k \in 1 .. Cardinality(got) |-> pg[walk[k]]]]

\* What a file with contents d reads as.
File(d) == [size |-> SizeOf[d], pages |-> [k \in 1 .. pgCount(SizeOf[d]) |-> <<d, k>>]]
EMPTY == [size |-> 0, pages |-> <<>>]
Content == {File(d) : d \in Data} \cup {EMPTY}

\* The pages as they will be when the running operation is done.
Pending ==
  [p \in Page |->
     IF \E k \in DOMAIN todo : todo[k].page = p
     THEN (CHOOSE w \in {todo[k] : k \in DOMAIN todo} : w.page = p).chunk
     ELSE IF secBuf # NONE /\ Head(todo).page # META /\ p \in DOMAIN secBuf
     THEN secBuf[p] ELSE flash.page[p]]

Files == [n \in Name |-> readFile(meta, Pending, n)]
\* The files a mount would find on the flash as it is now.
OnFlash == [n \in Name |-> IF flash.meta = ERASED THEN ABSENT
                           ELSE readFile(flash.meta, flash.page, n)]

-----------------------------------------------------------------------------
\* The metadata and the driver's buffers hold what their C types allow.
FcbType == [fileName : Name \cup {NONE}, start : Page \cup {FREE_OR_DEL, EOF_PG},
            size : Int]
Metadata == [fcb : [Slot -> FcbType], nextPg : [Page -> Page \cup {FREE_OR_DEL, EOF_PG}]]
Chunk == (Data \X (Nat \ {0})) \cup {ERASED}
\* The marks of an empty buffer and of an erased sector are told from contents, and
\* the mark of every file from a name.
ASSUME MarkerAssumption ==
  /\ NONE \notin Metadata /\ ERASED \notin Metadata /\ ALL \notin Name
  /\ ERASED \notin Data \X (Nat \ {0})
  /\ \A Q \in SUBSET Page : NONE \notin [Q -> Chunk]
TypeOK ==
  /\ meta \in Metadata
  /\ flash.meta \in Metadata \cup {ERASED} /\ flash.page \in [Page -> Chunk]
  /\ \A k \in DOMAIN todo : todo[k].page \in Page \cup {META}
  /\ target \in Name \cup {NONE, ALL} /\ up \in BOOLEAN
  /\ secBuf # NONE => todo # <<>>

(***************************************************************************)
(* The structure of the directory and of the page links: names are unique, *)
(* a file's chain ends, holds as many pages as its size needs, shares none *)
(* with another file, and a page on no chain is free.                      *)
(***************************************************************************)
ChainOf(m, i) == Chain(m, m.fcb[i].start)
Sound(m) ==
  /\ \A i, j \in InUse(m) : i # j =>
       /\ m.fcb[i].fileName # m.fcb[j].fileName
       /\ ChainOf(m, i) \cap ChainOf(m, j) = {}
  /\ \A i \in InUse(m) :
       /\ Nth(m, m.fcb[i].start, BMP) = EOF_PG
       /\ Cardinality(ChainOf(m, i)) = pgCount(m.fcb[i].size)
  /\ FreePages(m) = Page \ UNION {ChainOf(m, i) : i \in InUse(m)}

\* Whatever is created, moved, overwritten, deleted or refused for want of room,
\* no page is shared, lost or linked in a circle.
MetaSound == Sound(meta)

\* Wherever the power fails, in the middle of the metadata sector too, what the
\* next start finds has no name twice, no page on two chains and no chain without
\* an end, and no file has more pages than its size needs, unless the size is lost.
FlashSound == flash.meta # ERASED =>
  LET m    == flash.meta
      used == InUse(m)
  IN  \A i \in used :
        LET chain == ChainOf(m, i) IN
        /\ Nth(m, m.fcb[i].start, BMP) = EOF_PG
        /\ m.fcb[i].size >= 0 => Cardinality(chain) <= pgCount(m.fcb[i].size)
        /\ \A j \in used \ {i} :
             /\ m.fcb[i].fileName # NONE => m.fcb[i].fileName # m.fcb[j].fileName
             /\ chain \cap ChainOf(m, j) = {}

\* An operation that has returned is on the flash: what the next start finds is
\* what RAM holds.
Durable == Ready => flash.meta = meta

\* While the power stays on the disk is a table of files: reading a file gives the
\* last contents written, whatever was done to the others since, and a write that
\* fits never fails.
Store == INSTANCE FileStore WITH
           files <- Files,
           Pages <- [c \in Content |-> pgCount(c.size)]
IsFileStore == Store!Spec

\* A power failure while data pages are written costs, besides the file that was
\* being written, only files with a page in the sector that was erased just then
\* (ARSFS.h:45); every other file is found as it was.
PagesOf(n) == ChainOf(meta, arsfs_find(meta, n))
OthersSurvive ==
  /\ up /\ target # ALL
  /\ secBuf # NONE => Head(todo).page # META
  => \A n \in Name \ {target} :
       \/ OnFlash[n] = Files[n]
       \/ secBuf # NONE /\ PagesOf(n) \cap DOMAIN secBuf # {}

-----------------------------------------------------------------------------
(***************************************************************************)
(* What the documentation says, and the code does not do.                  *)
(***************************************************************************)

\* README.md:358: data pages go first and the metadata last, so that after a power
\* failure no file of the table leads to pages half written.
NoDirtyChain ==
  secBuf = NONE => \A n \in Name : OnFlash[n] \in Content \cup {ABSENT}
=============================================================================
