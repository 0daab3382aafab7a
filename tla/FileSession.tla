----------------------------- MODULE FileSession -----------------------------
(***************************************************************************)
(* The files as programs see them: the ABI calls FILE_OPEN, FILE_READ,     *)
(* FILE_WRITE and FILE_CLOSE of src/Core/Glue.h.  All tasks and programs   *)
(* share one session, a name, a buffer of the whole file and a cursor, so  *)
(* whoever calls next goes on where the last one stopped; a task that is   *)
(* killed leaves it open.  A write changes the buffer and then writes the  *)
(* file anew.  Between the calls the host updates, deletes and formats.    *)
(*                                                                         *)
(* The disk is the table of files that ARSFS implements (IsFileStore).     *)
(* Buffers and files are functions from offsets to cells.                  *)
(***************************************************************************)
EXTENDS Integers, FiniteSets

CONSTANTS
  Name, Cell,
  FILE_MAX,       \* cells of fsSessBuf
  Var,            \* what the variables of programs hold
  Want,           \* how much the programs ask for
  PG, FCB_CNT, BMP,
  ABSENT, NONE

Offset == 0 .. FILE_MAX - 1
Content == UNION {[0 .. k - 1 -> Cell] : k \in 0 .. FILE_MAX}

ASSUME SessionAssumption ==
  /\ FILE_MAX \in Nat \ {0} /\ PG \in Nat \ {0} /\ Want \subseteq Int
  /\ ABSENT \notin Content /\ NONE \notin Name
ASSUME VarAssumption == \A v \in Var : \E k \in 0 .. Cardinality(DOMAIN v) : v \in [0 .. k - 1 -> Cell]

VARIABLES
  files,          \* the disk
  fsSessName, fsSessBuf, fsSessLen, fsSessOff, fsSessOpen,
  reply,          \* of the last call: what was called, CalcResu, the cells read
                  \* or to be written
  behind          \* the file is no longer what the session last knew of it
session == <<fsSessName, fsSessBuf, fsSessLen, fsSessOff, fsSessOpen>>
vars == <<files, session, reply, behind>>

Size(f) == Cardinality(DOMAIN f)
Part(f, a, b) == [i \in 0 .. b - a - 1 |-> f[a + i]]     \* from a up to b
EMPTY == [i \in {} |-> i]
NoCells == EMPTY
Lesser(a, b) == IF a < b THEN a ELSE b

Disk == INSTANCE FileStore WITH
          Pages <- [c \in Content |-> (Size(c) + PG - 1) \div PG]

Full == Cardinality(Disk!Stored) = FCB_CNT

FS_ENOENT == -20
FS_EFULL  == -21

Replies(call, rc, cells) == reply' = [call |-> call, rc |-> rc, cells |-> cells]

-----------------------------------------------------------------------------
\* What readFile puts into the buffer; what was behind it stays.
Over(buf, a, c) == [i \in Offset |-> IF i - a \in DOMAIN c THEN c[i - a] ELSE buf[i]]

Opened(c) ==
  /\ fsSessBuf' = Over(fsSessBuf, 0, c) /\ fsSessLen' = Size(c) /\ fsSessOpen' = TRUE
  /\ Replies("open", Size(c), NoCells)

\* Mutant: the session that was open goes on, under the new name.
NotOpened_goesOn(rc) ==
  Replies("open", rc, NoCells)
    /\ UNCHANGED <<files, fsSessBuf, fsSessLen, fsSessOpen>>

NotOpened(rc) ==
  /\ fsSessLen' = 0 /\ fsSessOpen' = FALSE
  /\ Replies("open", rc, NoCells) /\ UNCHANGED <<files, fsSessBuf>>

\* A file that does not exist is created.
gFileOpen(n) ==
  /\ fsSessName' = n /\ fsSessOff' = 0 /\ behind' = FALSE
  /\ IF n = NONE THEN NotOpened(FS_ENOENT)
     ELSE \/ n \in Disk!Stored /\ Opened(files[n]) /\ UNCHANGED files
          \/ Disk!Create(n) /\ Opened(EMPTY)
          \/ n \notin Disk!Stored /\ Full /\ NotOpened(FS_EFULL)

\* Mutant: what is left of the buffer, not of the file, may be read.
Left_ofBuffer == FILE_MAX - fsSessOff

Left == fsSessLen - fsSessOff

\* found: the variable's address is in the frame of the task.
gFileRead(want, found) ==
  LET n == Lesser(want, Left) IN
  /\ IF fsSessOpen /\ want > 0 /\ Left > 0 /\ found
     THEN /\ fsSessOff' = fsSessOff + n
          /\ Replies("read", n, Part(fsSessBuf, fsSessOff, fsSessOff + n))
     ELSE Replies("read", 0, NoCells) /\ UNCHANGED fsSessOff
  /\ UNCHANGED <<files, fsSessName, fsSessBuf, fsSessLen, fsSessOpen, behind>>

Writable(var) == Lesser(Size(var), FILE_MAX - fsSessOff)

\* Mutant: the file ends where the cursor is.
Length_cursor(off) == off

\* The length of the file when the cursor has come to off.
Length(off) == IF off > fsSessLen THEN off ELSE fsSessLen

\* The whole buffer is written; a file the host has deleted is not created anew, and
\* one that no longer fits is left empty.
gFileWrite(var, found) ==
  LET n    == Writable(var)
      off  == fsSessOff + n
      buf  == Over(fsSessBuf, fsSessOff, Part(var, 0, n))
      file == Part(buf, 0, Length(off))
      rc   == IF fsSessName \notin Disk!Stored THEN FS_ENOENT
              ELSE IF Disk!Fits(fsSessName, file) THEN n ELSE FS_EFULL
  IN  /\ IF fsSessOpen /\ n > 0 /\ found
         THEN /\ fsSessBuf' = buf /\ fsSessOff' = off /\ fsSessLen' = Length(off)
              /\ IF rc = FS_ENOENT THEN UNCHANGED files ELSE Disk!Write(fsSessName, file)
              /\ behind' = (rc < 0)
              /\ Replies("write", rc, Part(var, 0, n))
         ELSE /\ Replies("write", 0, NoCells)
              /\ UNCHANGED <<files, fsSessBuf, fsSessOff, fsSessLen, behind>>
      /\ UNCHANGED <<fsSessName, fsSessOpen>>

gFileClose ==
  /\ fsSessOpen' = FALSE /\ fsSessOff' = 0 /\ fsSessLen' = 0
  /\ Replies("close", 0, NoCells)
  /\ UNCHANGED <<files, fsSessName, fsSessBuf, behind>>

-----------------------------------------------------------------------------
\* Update, del and format, between the calls of the programs.
HostChanges(n) ==
  \/ Disk!Create(n)
  \/ \E c \in Content : Disk!Write(n, c)
  \/ Disk!Delete(n)

Host ==
  /\ \/ \E n \in Name : HostChanges(n) /\ behind' = (behind \/ n = fsSessName)
     \/ Disk!Format /\ behind' = TRUE
  /\ reply' = [call |-> "host", rc |-> 0, cells |-> NoCells] /\ UNCHANGED session

Init ==
  /\ Disk!Init
  /\ fsSessName = NONE /\ fsSessBuf \in {[i \in Offset |-> x] : x \in Cell}
  /\ fsSessLen = 0 /\ fsSessOff = 0 /\ fsSessOpen = FALSE
  /\ reply = [call |-> "none", rc |-> 0, cells |-> NoCells] /\ behind = FALSE

Next ==
  \/ \E n \in Name \cup {NONE} : gFileOpen(n)
  \/ \E found \in BOOLEAN : \/ \E want \in Want : gFileRead(want, found)
                            \/ \E var \in Var : gFileWrite(var, found)
  \/ gFileClose
  \/ Host

Spec == Init /\ [][Next]_vars

-----------------------------------------------------------------------------
\* The cursor is in the file and the file in the buffer, whoever called what in
\* which order: no call reads or writes behind fsSessBuf.
TypeOK ==
  /\ files \in [Name -> Content \cup {ABSENT}]
  /\ fsSessName \in Name \cup {NONE} /\ fsSessBuf \in [Offset -> Cell]
  /\ fsSessOpen \in BOOLEAN /\ behind \in BOOLEAN
  /\ fsSessLen \in 0 .. FILE_MAX /\ fsSessOff \in 0 .. fsSessLen

\* Until the host changes the file or a write fails, the open session holds the file
\* as it is on the disk, and nothing of the file that was open before.
Snapshot == Part(fsSessBuf, 0, fsSessLen)
SnapshotIsFile ==
  fsSessOpen /\ ~behind => fsSessName # NONE /\ files[fsSessName] = Snapshot

\* A read that finds its variable delivers the next cells of the file that is on the disk,
\* exactly as many as were asked for and are there, and goes behind them.
ReadsTheFile ==
  [][ \A want \in Want : gFileRead(want, TRUE) /\ fsSessOpen /\ ~behind
        => LET file == files[fsSessName]
               n    == IF want > 0 THEN Lesser(want, Size(file) - fsSessOff) ELSE 0
           IN  /\ reply'.rc = n /\ reply'.cells = Part(file, fsSessOff, fsSessOff + n)
               /\ fsSessOff' = fsSessOff + n ]_vars

\* The file with the first n cells of a variable at offset off: no shorter than before.
Patched(file, off, n, var) ==
  [i \in 0 .. (IF off + n > Size(file) THEN off + n ELSE Size(file)) - 1 |->
     IF i - off \in 0 .. n - 1 THEN var[i - off] ELSE file[i]]

\* A write that finds its variable stores at the cursor as many of its cells as the buffer
\* has room for, goes behind them, and leaves the rest of the file before and behind them;
\* it fails only when the file that results does not fit on the disk, and then leaves
\* it empty.  No write touches a file other than the session's.
WritesInPlace ==
  [][ /\ reply'.call = "write" => \A n \in Name \ {fsSessName} : files'[n] = files[n]
      /\ \A var \in Var : gFileWrite(var, TRUE) /\ fsSessOpen /\ ~behind
           => LET n   == Lesser(Size(var), FILE_MAX - fsSessOff)
                  new == Patched(files[fsSessName], fsSessOff, n, var)
              IN  IF n = 0 THEN reply'.rc = 0 /\ UNCHANGED <<files, fsSessOff>>
                  ELSE IF Disk!Fits(fsSessName, new)
                  THEN reply'.rc = n /\ fsSessOff' = fsSessOff + n /\ files'[fsSessName] = new
                  ELSE reply'.rc < 0 /\ files'[fsSessName] = EMPTY ]_vars
=============================================================================
