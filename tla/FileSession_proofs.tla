-------------------------- MODULE FileSession_proofs --------------------------
(***************************************************************************)
(* Theorems about FileSession, for any names, any contents, any size of    *)
(* the buffer and of the disk, and any variables and lengths programs give.*)
(***************************************************************************)
EXTENDS FileSession, FiniteSetTheorems, TLAPS

(***************************************************************************)
(* The inductive invariant: the session is open on a name, and unless the  *)
(* file was changed behind its back its buffer is the file.                *)
(***************************************************************************)
Inv == TypeOK /\ SnapshotIsFile /\ (fsSessOpen => fsSessName # NONE)

\* The size of k cells from offset 0 is k.
LEMMA SizeIs ==
  ASSUME NEW k \in Nat, NEW f, DOMAIN f = 0 .. k - 1
  PROVE  Size(f) = k
<1>1. Cardinality(0 .. k - 1) = IF 0 > k - 1 THEN 0 ELSE k - 1 - 0 + 1
  BY FS_Interval
<1> QED BY <1>1 DEF Size

\* Every content is cells from offset 0 up to its size, which the buffer can hold.
LEMMA ContentIs ==
  ASSUME NEW c \in Content
  PROVE  Size(c) \in 0 .. FILE_MAX /\ c \in [0 .. Size(c) - 1 -> Cell]
<1>1. PICK k \in 0 .. FILE_MAX : c \in [0 .. k - 1 -> Cell] BY DEF Content
<1>2. k \in Nat BY SessionAssumption
<1>3. Size(c) = k BY <1>1, <1>2, SizeIs
<1> QED BY <1>1, <1>3

\* So is what a program has in a variable, of any length.
LEMMA VarIs ==
  ASSUME NEW v \in Var
  PROVE  Size(v) \in Nat /\ v \in [0 .. Size(v) - 1 -> Cell]
<1>1. PICK k \in 0 .. Cardinality(DOMAIN v) : v \in [0 .. k - 1 -> Cell]
  BY VarAssumption
<1>2. CASE k \in Nat
  <2>1. Size(v) = k BY <1>1, <1>2, SizeIs
  <2> QED BY <1>1, <1>2, <2>1
<1>3. CASE k \notin Nat BY <1>3, <1>1
<1> QED BY <1>2, <1>3

\* The empty file is a content, of no cells.
LEMMA EmptyIs == EMPTY \in Content /\ Size(EMPTY) = 0 /\ DOMAIN EMPTY = {}
<1>1. DOMAIN EMPTY = {} /\ EMPTY \in [0 .. 0 - 1 -> Cell] BY DEF EMPTY
<1>2. Size(EMPTY) = 0 BY <1>1, SizeIs
<1>3. 0 \in 0 .. FILE_MAX BY SessionAssumption
<1> QED BY <1>1, <1>2, <1>3 DEF Content

\* The first k cells of a buffer are a content of size k.
LEMMA PartIs ==
  ASSUME NEW buf \in [Offset -> Cell], NEW k \in 0 .. FILE_MAX
  PROVE  /\ Part(buf, 0, k) \in [0 .. k - 1 -> Cell] /\ Part(buf, 0, k) \in Content
         /\ \A i \in 0 .. k - 1 : Part(buf, 0, k)[i] = buf[i]
<1>1. \A i \in 0 .. k - 1 : 0 + i \in Offset /\ 0 + i = i
  BY SessionAssumption DEF Offset
<1>2. k - 0 - 1 = k - 1 BY SessionAssumption
<1>3. Part(buf, 0, k) \in [0 .. k - 1 -> Cell] /\ \A i \in 0 .. k - 1 : Part(buf, 0, k)[i] = buf[i]
  BY <1>1, <1>2 DEF Part
<1> QED BY <1>3 DEF Content

\* What an operation of the disk on file n leaves: a disk, with n as it says and the
\* other files as they were.
LEMMA DiskWrite ==
  ASSUME TypeOK, NEW n \in Name, NEW c \in Content, Disk!Write(n, c)
  PROVE  /\ files' \in [Name -> Content \cup {ABSENT}]
         /\ files'[n] = IF Disk!Fits(n, c) THEN c ELSE EMPTY
         /\ \A k \in Name \ {n} : files'[k] = files[k]
BY EmptyIs DEF TypeOK, Disk!Write

LEMMA DiskCreate ==
  ASSUME TypeOK, NEW n \in Name, Disk!Create(n)
  PROVE  /\ files' \in [Name -> Content \cup {ABSENT}] /\ files'[n] = EMPTY
         /\ \A k \in Name \ {n} : files'[k] = files[k]
BY EmptyIs DEF TypeOK, Disk!Create

LEMMA DiskDelete ==
  ASSUME TypeOK, NEW n \in Name, Disk!Delete(n)
  PROVE  /\ files' \in [Name -> Content \cup {ABSENT}]
         /\ \A k \in Name \ {n} : files'[k] = files[k]
BY DEF TypeOK, Disk!Delete

-----------------------------------------------------------------------------
\* At the start nothing is open.
LEMMA InitInv == Init => Inv
<1> SUFFICES ASSUME Init PROVE Inv OBVIOUS
<1>1. files \in [Name -> Content \cup {ABSENT}] BY DEF Init, Disk!Init
<1>2. PICK x \in Cell : fsSessBuf = [i \in Offset |-> x] BY DEF Init
<1>3. fsSessLen \in 0 .. FILE_MAX /\ fsSessOff \in 0 .. fsSessLen
  BY SessionAssumption DEF Init
<1> QED BY <1>1, <1>2, <1>3 DEF Init, Inv, TypeOK, SnapshotIsFile

\* A file that is opened is read into the buffer.
LEMMA OpenedInv ==
  ASSUME Inv, NEW n \in Name, NEW c \in Content, fsSessName' = n, fsSessOff' = 0,
         behind' = FALSE, Opened(c), files'[n] = c,
         files' \in [Name -> Content \cup {ABSENT}]
  PROVE  Inv'
<1>1. Size(c) \in 0 .. FILE_MAX /\ c \in [0 .. Size(c) - 1 -> Cell] BY ContentIs
<1>2. fsSessLen' = Size(c) /\ fsSessOpen' = TRUE BY DEF Opened
<1>3. fsSessBuf' \in [Offset -> Cell]
      /\ \A i \in 0 .. Size(c) - 1 : fsSessBuf'[i] = c[i]
  <2>1. fsSessBuf' = [i \in Offset |-> IF i - 0 \in DOMAIN c THEN c[i - 0] ELSE fsSessBuf[i]]
    BY DEF Opened, Over
  <2>2. fsSessBuf \in [Offset -> Cell] BY DEF Inv, TypeOK
  <2>3. \A i \in Offset : i - 0 = i BY SessionAssumption DEF Offset
  <2>4. 0 .. Size(c) - 1 \subseteq Offset BY <1>1, SessionAssumption DEF Offset
  <2> QED BY <1>1, <2>1, <2>2, <2>3, <2>4
<1>4. Part(fsSessBuf', 0, Size(c)) = c BY <1>1, <1>3, PartIs
<1>5. TypeOK'
  <2>1. fsSessOff' \in 0 .. fsSessLen' BY <1>1, <1>2, SessionAssumption
  <2> QED BY <1>1, <1>2, <1>3, <2>1 DEF TypeOK
<1>6. SnapshotIsFile' BY <1>2, <1>4, SessionAssumption DEF SnapshotIsFile, Snapshot
<1> QED BY <1>5, <1>6, SessionAssumption DEF Inv

LEMMA OpenInv ==
  ASSUME Inv, NEW n \in Name \cup {NONE}, gFileOpen(n)
  PROVE  Inv'
<1> USE DEF gFileOpen
<1>1. ASSUME NEW rc, NotOpened(rc) PROVE Inv'
  <2>1. fsSessLen' = 0 /\ fsSessOff' = 0 /\ fsSessOpen' = FALSE BY <1>1 DEF NotOpened
  <2>2. 0 \in 0 .. FILE_MAX /\ 0 \in 0 .. 0 BY SessionAssumption
  <2>3. UNCHANGED <<files, fsSessBuf>> BY <1>1 DEF NotOpened
  <2> QED BY <2>1, <2>2, <2>3 DEF Inv, TypeOK, SnapshotIsFile
<1>2. CASE n = NONE BY <1>1, <1>2
<1>3. CASE n # NONE /\ n \in Disk!Stored /\ Opened(files[n]) /\ UNCHANGED files
  <2>1. files \in [Name -> Content \cup {ABSENT}] /\ files[n] # ABSENT /\ n \in Name
    BY <1>3 DEF Inv, TypeOK, Disk!Stored
  <2>2. files[n] \in Content BY <2>1
  <2> QED BY <1>3, <2>1, <2>2, OpenedInv
<1>4. CASE n # NONE /\ Disk!Create(n) /\ Opened(EMPTY)
  <2>1. n \in Name BY <1>4
  <2>2. files' \in [Name -> Content \cup {ABSENT}] /\ files'[n] = EMPTY
    BY <1>4, <2>1, DiskCreate DEF Inv
  <2> QED BY <1>4, <2>1, <2>2, EmptyIs, OpenedInv
<1> QED BY <1>1, <1>2, <1>3, <1>4

\* What a read that delivers something does.
LEMMA ReadSteps ==
  ASSUME Inv, NEW want \in Want, NEW found \in BOOLEAN, gFileRead(want, found),
         fsSessOpen, want > 0, Left > 0, found
  PROVE  /\ Lesser(want, Left) \in Nat /\ Lesser(want, Left) > 0
         /\ fsSessOff' = fsSessOff + Lesser(want, Left) /\ fsSessOff' \in 0 .. fsSessLen
         /\ reply' = [call |-> "read", rc |-> Lesser(want, Left),
                      cells |-> Part(fsSessBuf, fsSessOff, fsSessOff')]
<1>1. want \in Int /\ fsSessLen \in Int /\ fsSessOff \in 0 .. fsSessLen
  BY SessionAssumption DEF Inv, TypeOK
<1>2. fsSessOff' = fsSessOff + Lesser(want, Left) BY DEF gFileRead
<1> QED BY <1>1, <1>2 DEF gFileRead, Lesser, Left, Replies

LEMMA ReadInv ==
  ASSUME Inv, NEW want \in Want, NEW found \in BOOLEAN, gFileRead(want, found)
  PROVE  Inv'
<1>1. UNCHANGED <<files, fsSessName, fsSessBuf, fsSessLen, fsSessOpen, behind>>
  BY DEF gFileRead
<1>2. fsSessOff' \in 0 .. fsSessLen
  <2>1. CASE fsSessOpen /\ want > 0 /\ Left > 0 /\ found BY <2>1, ReadSteps
  <2>2. CASE ~(fsSessOpen /\ want > 0 /\ Left > 0 /\ found)
    BY <2>2 DEF gFileRead, Inv, TypeOK
  <2> QED BY <2>1, <2>2
<1> QED BY <1>1, <1>2 DEF Inv, TypeOK, SnapshotIsFile, Snapshot

-----------------------------------------------------------------------------
(***************************************************************************)
(* What a write does that changes something: the cells it takes from the   *)
(* variable lie in the buffer from the cursor on, the rest of the buffer   *)
(* is what it was, and the file is the part of it up to its new length.    *)
(***************************************************************************)
Puts(v) == fsSessOpen /\ Writable(v) > 0
NewOff(v) == fsSessOff + Writable(v)
NewBuf(v) == Over(fsSessBuf, fsSessOff, Part(v, 0, Writable(v)))
NewFile(v) == Part(NewBuf(v), 0, Length(NewOff(v)))

\* What is taken from the variable is cells.
LEMMA TakenIs ==
  ASSUME Inv, NEW v \in Var, Puts(v)
  PROVE  /\ Writable(v) \in Nat /\ Part(v, 0, Writable(v)) \in [0 .. Writable(v) - 1 -> Cell]
         /\ NewOff(v) \in fsSessOff .. FILE_MAX /\ fsSessOff \in Nat
<1>1. Size(v) \in Nat /\ v \in [0 .. Size(v) - 1 -> Cell] BY VarIs
<1>2. fsSessLen \in 0 .. FILE_MAX /\ fsSessOff \in 0 .. fsSessLen BY DEF Inv, TypeOK
<1>3. Writable(v) \in Nat /\ Writable(v) <= Size(v) /\ Writable(v) <= FILE_MAX - fsSessOff
  BY <1>1, <1>2, SessionAssumption DEF Puts, Writable, Lesser
<1>4. \A i \in 0 .. Writable(v) - 1 : 0 + i = i /\ i \in 0 .. Size(v) - 1
  BY <1>1, <1>3
<1>5. Writable(v) - 0 - 1 = Writable(v) - 1 BY <1>3
<1>6. Part(v, 0, Writable(v)) \in [0 .. Writable(v) - 1 -> Cell]
  BY <1>1, <1>4, <1>5 DEF Part
<1>7. NewOff(v) \in fsSessOff .. FILE_MAX /\ fsSessOff \in Nat
  BY <1>2, <1>3, SessionAssumption DEF NewOff
<1> QED BY <1>3, <1>6, <1>7

LEMMA BufferIs ==
  ASSUME Inv, NEW v \in Var, Puts(v)
  PROVE  /\ NewBuf(v) \in [Offset -> Cell]
         /\ \A i \in Offset : NewBuf(v)[i] =
              IF i - fsSessOff \in 0 .. Writable(v) - 1
              THEN Part(v, 0, Writable(v))[i - fsSessOff] ELSE fsSessBuf[i]
         /\ Length(NewOff(v)) \in NewOff(v) .. FILE_MAX
         /\ Length(NewOff(v)) >= fsSessLen
<1> DEFINE c == Part(v, 0, Writable(v))
<1>1. Writable(v) \in Nat /\ c \in [0 .. Writable(v) - 1 -> Cell] BY TakenIs
<1>2. fsSessBuf \in [Offset -> Cell] /\ fsSessLen \in 0 .. FILE_MAX BY DEF Inv, TypeOK
<1>3. NewOff(v) \in Int /\ NewOff(v) <= FILE_MAX BY TakenIs, SessionAssumption
<1> HIDE DEF c
<1>4. NewBuf(v) = [i \in Offset |-> IF i - fsSessOff \in DOMAIN c THEN c[i - fsSessOff]
                                    ELSE fsSessBuf[i]]
  BY DEF NewBuf, Over, c
<1>5. DOMAIN c = 0 .. Writable(v) - 1 BY <1>1
<1>6. \A i \in Offset : i - fsSessOff \in DOMAIN c => c[i - fsSessOff] \in Cell BY <1>1
<1>7. NewBuf(v) \in [Offset -> Cell] BY <1>2, <1>4, <1>6
<1>8. \A i \in Offset : NewBuf(v)[i] = IF i - fsSessOff \in 0 .. Writable(v) - 1
                          THEN c[i - fsSessOff] ELSE fsSessBuf[i]
  BY <1>4, <1>5
<1>9. Length(NewOff(v)) \in NewOff(v) .. FILE_MAX /\ Length(NewOff(v)) >= fsSessLen
  BY <1>2, <1>3, SessionAssumption DEF Length
<1> QED BY <1>7, <1>8, <1>9 DEF c

LEMMA FileIs ==
  ASSUME Inv, NEW v \in Var, Puts(v)
  PROVE  /\ NewFile(v) \in Content /\ NewFile(v) \in [0 .. Length(NewOff(v)) - 1 -> Cell]
         /\ \A i \in 0 .. Length(NewOff(v)) - 1 : NewFile(v)[i] = NewBuf(v)[i]
<1>1. Length(NewOff(v)) \in 0 .. FILE_MAX BY BufferIs, TakenIs, SessionAssumption
<1> QED BY <1>1, BufferIs, PartIs DEF NewFile

\* A write that finds its variable changes the session so, and its file, if it exists;
\* one that succeeds leaves the file just written.
LEMMA WriteSteps ==
  ASSUME Inv, NEW v \in Var, gFileWrite(v, TRUE), Puts(v)
  PROVE  /\ fsSessName \in Name /\ UNCHANGED <<fsSessName, fsSessOpen>>
         /\ fsSessBuf' = NewBuf(v) /\ fsSessOff' = NewOff(v)
         /\ fsSessLen' = Length(NewOff(v))
         /\ files' \in [Name -> Content \cup {ABSENT}]
         /\ \A k \in Name \ {fsSessName} : files'[k] = files[k]
         /\ reply'.call = "write" /\ reply'.cells = Part(v, 0, Writable(v))
         /\ \/ reply'.rc \in Int /\ reply'.rc < 0 /\ behind' = TRUE
            \/ /\ reply'.rc = Writable(v) /\ behind' = FALSE
               /\ files'[fsSessName] = NewFile(v)
<1> DEFINE rc == IF fsSessName \notin Disk!Stored THEN FS_ENOENT
                 ELSE IF Disk!Fits(fsSessName, NewFile(v)) THEN Writable(v) ELSE FS_EFULL
<1>1. fsSessOpen /\ Writable(v) > 0 BY DEF Puts
<1>2. /\ fsSessBuf' = NewBuf(v) /\ fsSessOff' = NewOff(v) /\ fsSessLen' = Length(NewOff(v))
      /\ IF rc = FS_ENOENT THEN UNCHANGED files ELSE Disk!Write(fsSessName, NewFile(v))
      /\ behind' = (rc < 0) /\ Replies("write", rc, Part(v, 0, Writable(v)))
      /\ UNCHANGED <<fsSessName, fsSessOpen>>
  BY <1>1 DEF gFileWrite, NewBuf, NewOff, NewFile
<1>3. fsSessName \in Name BY <1>1 DEF Inv, TypeOK
<1>4. NewFile(v) \in Content BY FileIs
<1>5. Writable(v) \in Nat BY TakenIs
<1>6. reply'.call = "write" /\ reply'.rc = rc /\ reply'.cells = Part(v, 0, Writable(v))
  BY <1>2 DEF Replies
<1>7. CASE fsSessName \notin Disk!Stored
  <2>1. rc = FS_ENOENT /\ rc < 0 BY <1>7 DEF FS_ENOENT
  <2>2. UNCHANGED files /\ behind' = TRUE BY <1>2, <2>1
  <2>3. reply'.rc \in Int /\ reply'.rc < 0 BY <1>6, <2>1 DEF FS_ENOENT
  <2> QED BY <1>2, <1>3, <1>6, <2>2, <2>3 DEF Inv, TypeOK
<1>8. CASE fsSessName \in Disk!Stored
  <2>1. rc # FS_ENOENT BY <1>5, <1>8 DEF FS_ENOENT, FS_EFULL
  <2>2. Disk!Write(fsSessName, NewFile(v)) BY <1>2, <2>1
  <2>3. /\ files' \in [Name -> Content \cup {ABSENT}]
        /\ files'[fsSessName] = IF Disk!Fits(fsSessName, NewFile(v)) THEN NewFile(v) ELSE EMPTY
        /\ \A k \in Name \ {fsSessName} : files'[k] = files[k]
    BY <1>3, <1>4, <2>2, DiskWrite DEF Inv
  <2>4. CASE Disk!Fits(fsSessName, NewFile(v))
    <3>1. rc = Writable(v) BY <1>8, <2>4
    <3>2. (rc < 0) = FALSE BY <1>5, <3>1
    <3>3. behind' = (rc < 0) BY <1>2
    <3> HIDE DEF rc
    <3>4. behind' = FALSE BY <3>2, <3>3, Zenon
    <3> QED BY <1>2, <1>3, <1>6, <2>3, <2>4, <3>1, <3>4
  <2>5. CASE ~Disk!Fits(fsSessName, NewFile(v))
    <3>1. rc \in Int /\ rc < 0 BY <1>8, <2>5 DEF FS_EFULL
    <3> HIDE DEF rc
    <3>2. behind' = TRUE BY <1>2, <3>1
    <3> QED BY <1>2, <1>3, <1>6, <2>3, <3>1, <3>2
  <2> QED BY <2>4, <2>5
<1> QED BY <1>7, <1>8

\* A write that does nothing leaves all but the reply.
LEMMA NoWrite ==
  ASSUME NEW v, NEW found \in BOOLEAN, gFileWrite(v, found), ~(Puts(v) /\ found)
  PROVE  UNCHANGED <<files, session, behind>> /\ reply'.rc = 0 /\ reply'.call = "write"
BY DEF gFileWrite, Puts, session, Replies

LEMMA WriteInv ==
  ASSUME Inv, NEW v \in Var, NEW found \in BOOLEAN, gFileWrite(v, found)
  PROVE  Inv'
<1>1. CASE ~(Puts(v) /\ found)
  BY <1>1, NoWrite DEF session, Inv, TypeOK, SnapshotIsFile, Snapshot
<1>2. CASE Puts(v) /\ found
  <2>0. gFileWrite(v, TRUE) BY <1>2
  <2>1. fsSessLen' \in 0 .. FILE_MAX /\ fsSessOff' \in 0 .. fsSessLen'
    <3>1. fsSessOff' = NewOff(v) /\ fsSessLen' = Length(NewOff(v))
      BY <1>2, <2>0, WriteSteps
    <3>2. Length(NewOff(v)) \in NewOff(v) .. FILE_MAX BY <1>2, BufferIs
    <3>3. NewOff(v) \in fsSessOff .. FILE_MAX /\ fsSessOff \in Nat BY <1>2, TakenIs
    <3> QED BY <3>1, <3>2, <3>3, SessionAssumption
  <2>2. fsSessBuf' \in [Offset -> Cell] BY <1>2, <2>0, WriteSteps, BufferIs
  <2>3. TypeOK' BY <1>2, <2>0, <2>1, <2>2, WriteSteps DEF Inv, TypeOK
  <2>4. SnapshotIsFile'
    <3>1. ~behind' => files'[fsSessName] = NewFile(v) BY <1>2, <2>0, WriteSteps
    <3>2. Part(fsSessBuf', 0, fsSessLen') = NewFile(v)
      BY <1>2, <2>0, WriteSteps DEF NewFile
    <3>3. fsSessName' = fsSessName /\ fsSessName \in Name BY <1>2, <2>0, WriteSteps
    <3> QED BY <3>1, <3>2, <3>3, SessionAssumption DEF SnapshotIsFile, Snapshot
  <2>5. fsSessOpen' => fsSessName' # NONE
    BY <1>2, <2>0, WriteSteps, SessionAssumption
  <2> QED BY <2>3, <2>4, <2>5 DEF Inv
<1> QED BY <1>1, <1>2

LEMMA CloseInv == Inv /\ gFileClose => Inv'
<1> SUFFICES ASSUME Inv, gFileClose PROVE Inv' OBVIOUS
<1>1. 0 \in 0 .. FILE_MAX /\ 0 \in 0 .. 0 BY SessionAssumption
<1> QED BY <1>1 DEF gFileClose, Inv, TypeOK, SnapshotIsFile

\* The host may change any file; what it does to the session's is remembered.
LEMMA HostInv == Inv /\ Host => Inv'
<1> SUFFICES ASSUME Inv, Host PROVE Inv' OBVIOUS
<1>1. UNCHANGED session BY DEF Host
<1>2. ASSUME NEW n \in Name, HostChanges(n), behind' = (behind \/ n = fsSessName)
      PROVE  Inv'
  <2>1. /\ files' \in [Name -> Content \cup {ABSENT}]
        /\ \A k \in Name \ {n} : files'[k] = files[k]
    BY <1>2, DiskWrite, DiskCreate, DiskDelete DEF Inv, HostChanges
  <2>2. TypeOK' BY <1>1, <1>2, <2>1 DEF Inv, TypeOK, session
  <2>3. SnapshotIsFile'
    BY <1>1, <1>2, <2>1 DEF Inv, TypeOK, session, SnapshotIsFile, Snapshot
  <2> QED BY <1>1, <2>2, <2>3 DEF Inv, session
<1>3. CASE Disk!Format /\ behind' = TRUE
  <2>1. files' \in [Name -> Content \cup {ABSENT}] BY <1>3 DEF Disk!Format
  <2> QED BY <1>1, <1>3, <2>1 DEF Inv, TypeOK, session, SnapshotIsFile
<1> QED BY <1>2, <1>3 DEF Host

LEMMA NextInv == Inv /\ [Next]_vars => Inv'
<1> SUFFICES ASSUME Inv, [Next]_vars PROVE Inv' OBVIOUS
<1>1. ASSUME NEW n \in Name \cup {NONE}, gFileOpen(n) PROVE Inv' BY <1>1, OpenInv
<1>2. ASSUME NEW found \in BOOLEAN, NEW want \in Want, gFileRead(want, found) PROVE Inv'
  BY <1>2, ReadInv
<1>3. ASSUME NEW found \in BOOLEAN, NEW v \in Var, gFileWrite(v, found) PROVE Inv'
  BY <1>3, WriteInv
<1>4. CASE gFileClose BY <1>4, CloseInv
<1>5. CASE Host BY <1>5, HostInv
<1>6. CASE UNCHANGED vars
  BY <1>6 DEF vars, session, Inv, TypeOK, SnapshotIsFile, Snapshot
<1> QED BY <1>1, <1>2, <1>3, <1>4, <1>5, <1>6 DEF Next

LEMMA Inductive == Spec => []Inv
BY InitInv, NextInv, PTL DEF Spec

-----------------------------------------------------------------------------
\* The cursor stays in the file and the file in the buffer, for any size of the buffer
\* and any lengths the programs give.
THEOREM SessionTypeOK == Spec => []TypeOK
<1>1. Inv => TypeOK BY DEF Inv
<1> QED BY <1>1, Inductive, PTL

\* Until the host or a failed write comes between, the session is the file.
THEOREM SessionIsFile == Spec => []SnapshotIsFile
<1>1. Inv => SnapshotIsFile BY DEF Inv
<1> QED BY <1>1, Inductive, PTL

\* A read delivers exactly as many of the next cells of the file on the disk as were asked
\* for and are there, and goes behind them.
THEOREM SessionReads == Spec => ReadsTheFile
<1> DEFINE Reads ==
      \A want \in Want : gFileRead(want, TRUE) /\ fsSessOpen /\ ~behind
        => LET file == files[fsSessName]
               n    == IF want > 0 THEN Lesser(want, Size(file) - fsSessOff) ELSE 0
           IN  /\ reply'.rc = n /\ reply'.cells = Part(file, fsSessOff, fsSessOff + n)
               /\ fsSessOff' = fsSessOff + n
<1>1. Inv /\ [Next]_vars => [Reads]_vars
  <2> SUFFICES ASSUME Inv, NEW want \in Want, gFileRead(want, TRUE), fsSessOpen, ~behind
               PROVE  LET file == files[fsSessName]
                          n == IF want > 0 THEN Lesser(want, Size(file) - fsSessOff) ELSE 0
                      IN  /\ reply'.rc = n
                          /\ reply'.cells = Part(file, fsSessOff, fsSessOff + n)
                          /\ fsSessOff' = fsSessOff + n
    OBVIOUS
  <2> DEFINE file == files[fsSessName]
             n    == IF want > 0 THEN Lesser(want, Size(file) - fsSessOff) ELSE 0
  <2>1. /\ fsSessLen \in 0 .. FILE_MAX /\ fsSessLen \in Nat
        /\ fsSessBuf \in [Offset -> Cell] /\ fsSessOff \in 0 .. fsSessLen /\ want \in Int
    BY SessionAssumption DEF Inv, TypeOK
  <2>2. file = Part(fsSessBuf, 0, fsSessLen) BY DEF Inv, SnapshotIsFile, Snapshot
  <2>3. /\ file \in [0 .. fsSessLen - 1 -> Cell]
        /\ \A i \in 0 .. fsSessLen - 1 : file[i] = fsSessBuf[i]
    BY <2>1, <2>2, PartIs
  <2>4. Size(file) = fsSessLen BY <2>1, <2>3, SizeIs
  <2> HIDE DEF file
  <2>5. CASE want > 0 /\ Left > 0
    <3>1. n = Lesser(want, Left) BY <2>4, <2>5 DEF Left
    <3> HIDE DEF n
    <3>2. /\ n \in Nat /\ fsSessOff' = fsSessOff + n /\ fsSessOff' \in 0 .. fsSessLen
          /\ reply'.rc = n /\ reply'.cells = Part(fsSessBuf, fsSessOff, fsSessOff')
      <4>1. TRUE \in BOOLEAN OBVIOUS
      <4>2. /\ n \in Nat /\ fsSessOff' = fsSessOff + n /\ fsSessOff' \in 0 .. fsSessLen
            /\ reply' = [call |-> "read", rc |-> n,
                         cells |-> Part(fsSessBuf, fsSessOff, fsSessOff')]
        BY <2>5, <3>1, <4>1, ReadSteps
      <4> QED BY <4>2
    <3>3. \A i \in 0 .. (fsSessOff + n) - fsSessOff - 1 :
            file[fsSessOff + i] = fsSessBuf[fsSessOff + i]
      BY <2>1, <2>3, <3>2
    <3>4. Part(file, fsSessOff, fsSessOff + n) = Part(fsSessBuf, fsSessOff, fsSessOff + n)
      BY <3>3 DEF Part
    <3> QED BY <3>2, <3>4 DEF file, n
  <2>6. CASE ~(want > 0 /\ Left > 0)
    <3>1. n = 0
      <4>1. CASE want > 0
        <5>1. fsSessLen - fsSessOff = 0 BY <2>1, <2>6, <4>1 DEF Left
        <5> QED BY <2>1, <2>4, <4>1, <5>1 DEF Lesser
      <4> QED BY <4>1
    <3>2. reply'.rc = 0 /\ reply'.cells = NoCells /\ fsSessOff' = fsSessOff
      BY <2>6 DEF gFileRead, Replies
    <3>3. Part(file, fsSessOff, fsSessOff + 0) = NoCells
      <4>1. 0 .. (fsSessOff + 0) - fsSessOff - 1 = {} BY <2>1
      <4> QED BY <4>1 DEF Part, NoCells, EMPTY
    <3>4. fsSessOff + 0 = fsSessOff BY <2>1
    <3> HIDE DEF n
    <3>5. reply'.rc = n /\ reply'.cells = Part(file, fsSessOff, fsSessOff + n)
          /\ fsSessOff' = fsSessOff + n
      BY <3>1, <3>2, <3>3, <3>4
    <3> QED BY <3>5 DEF n, file
  <2> QED BY <2>5, <2>6
<1> QED BY <1>1, Inductive, PTL DEF Spec, ReadsTheFile

\* What a write stores, when nothing came between it and the file, is the file with the
\* cells taken from the variable at the cursor.
LEMMA NewFileIs ==
  ASSUME Inv, NEW v \in Var, Puts(v), ~behind
  PROVE  NewFile(v) = Patched(files[fsSessName], fsSessOff, Writable(v), v)
<1> DEFINE k == Writable(v)
           len == Length(NewOff(v))
           old == files[fsSessName]
           c == Part(v, 0, k)
<1>1. fsSessLen \in 0 .. FILE_MAX /\ fsSessLen \in Nat /\ fsSessBuf \in [Offset -> Cell]
      /\ fsSessOff \in 0 .. fsSessLen /\ fsSessOpen
  BY SessionAssumption DEF Inv, TypeOK, Puts
<1>2. old = Part(fsSessBuf, 0, fsSessLen) BY <1>1 DEF Inv, SnapshotIsFile, Snapshot
<1>3. old \in [0 .. fsSessLen - 1 -> Cell] /\ \A i \in 0 .. fsSessLen - 1 : old[i] = fsSessBuf[i]
  BY <1>1, <1>2, PartIs
<1>4. Size(old) = fsSessLen BY <1>1, <1>3, SizeIs
<1>5. NewFile(v) \in [0 .. len - 1 -> Cell]
      /\ \A i \in 0 .. len - 1 : NewFile(v)[i] = NewBuf(v)[i]
  BY FileIs
<1>6. /\ \A i \in Offset : NewBuf(v)[i] = IF i - fsSessOff \in 0 .. k - 1
                           THEN c[i - fsSessOff] ELSE fsSessBuf[i]
      /\ len \in NewOff(v) .. FILE_MAX /\ len >= fsSessLen
  BY BufferIs
<1>7. NewOff(v) = fsSessOff + k /\ k \in Nat BY TakenIs DEF NewOff
<1>8. len = IF fsSessOff + k > Size(old) THEN fsSessOff + k ELSE Size(old)
  BY <1>4, <1>7 DEF Length
<1>9. \A i \in 0 .. k - 1 : c[i] = v[i]
  <2>1. k - 0 - 1 = k - 1 /\ \A i \in 0 .. k - 1 : 0 + i = i BY <1>7
  <2> QED BY <2>1 DEF Part
<1> HIDE DEF k, len, old, c
<1>10. ASSUME NEW i \in 0 .. len - 1
       PROVE  NewFile(v)[i] = IF i - fsSessOff \in 0 .. k - 1 THEN v[i - fsSessOff] ELSE old[i]
  <2>1. i \in Offset BY <1>1, <1>6, <1>7, SessionAssumption DEF Offset
  <2>2. NewFile(v)[i] = IF i - fsSessOff \in 0 .. k - 1 THEN c[i - fsSessOff] ELSE fsSessBuf[i]
    BY <2>1, <1>5, <1>6
  <2>3. i - fsSessOff \notin 0 .. k - 1 => i \in 0 .. fsSessLen - 1
    BY <1>1, <1>4, <1>7, <1>8, SessionAssumption
  <2> QED BY <2>2, <2>3, <1>3, <1>9
<1>11. NewFile(v) = [i \in 0 .. len - 1 |->
                       IF i - fsSessOff \in 0 .. k - 1 THEN v[i - fsSessOff] ELSE old[i]]
  BY <1>5, <1>10
<1> QED BY <1>8, <1>11 DEF Patched, k, old

\* A write stores at the cursor as many of its cells as there is room for, goes behind
\* them and leaves all else; it fails only when the file does not fit on the disk.
THEOREM SessionWrites == Spec => WritesInPlace
<1> DEFINE
  Others == reply'.call = "write" => \A n \in Name \ {fsSessName} : files'[n] = files[n]
  Puts1 == \A var \in Var : gFileWrite(var, TRUE) /\ fsSessOpen /\ ~behind
           => LET n   == Lesser(Size(var), FILE_MAX - fsSessOff)
                  new == Patched(files[fsSessName], fsSessOff, n, var)
              IN  IF n = 0 THEN reply'.rc = 0 /\ UNCHANGED <<files, fsSessOff>>
                  ELSE IF Disk!Fits(fsSessName, new)
                  THEN reply'.rc = n /\ fsSessOff' = fsSessOff + n /\ files'[fsSessName] = new
                  ELSE reply'.rc < 0 /\ files'[fsSessName] = EMPTY
<1>1. Inv /\ Next => Others
  <2> SUFFICES ASSUME Inv, Next, reply'.call = "write"
               PROVE  \A n \in Name \ {fsSessName} : files'[n] = files[n]
    OBVIOUS
  <2>1. PICK v \in Var, found \in BOOLEAN : gFileWrite(v, found)
    <3>1. ASSUME NEW n \in Name \cup {NONE}, gFileOpen(n) PROVE FALSE
      BY <3>1 DEF gFileOpen, Opened, NotOpened, Replies
    <3>2. ASSUME NEW found \in BOOLEAN, NEW want \in Want, gFileRead(want, found)
          PROVE  FALSE
      BY <3>2 DEF gFileRead, Replies
    <3>3. ~gFileClose /\ ~Host BY DEF gFileClose, Host, Replies
    <3> QED BY <3>1, <3>2, <3>3 DEF Next
  <2>2. CASE ~(Puts(v) /\ found) BY <2>1, <2>2, NoWrite
  <2>3. CASE Puts(v) /\ found BY <2>1, <2>3, WriteSteps
  <2> QED BY <2>2, <2>3
<1>2. Inv => Puts1
  <2> SUFFICES ASSUME Inv, NEW var \in Var, gFileWrite(var, TRUE), fsSessOpen, ~behind
               PROVE  LET n   == Lesser(Size(var), FILE_MAX - fsSessOff)
                          new == Patched(files[fsSessName], fsSessOff, n, var)
                      IN  IF n = 0 THEN reply'.rc = 0 /\ UNCHANGED <<files, fsSessOff>>
                          ELSE IF Disk!Fits(fsSessName, new)
                          THEN reply'.rc = n /\ fsSessOff' = fsSessOff + n /\ files'[fsSessName] = new
                          ELSE reply'.rc < 0 /\ files'[fsSessName] = EMPTY
    OBVIOUS
  <2> DEFINE n == Writable(var)
             new == Patched(files[fsSessName], fsSessOff, n, var)
  <2>1. n = Lesser(Size(var), FILE_MAX - fsSessOff) BY DEF Writable
  <2>2. Size(var) \in Nat /\ fsSessOff \in Nat /\ fsSessOff <= FILE_MAX /\ FILE_MAX \in Nat
    BY VarIs, SessionAssumption DEF Inv, TypeOK
  <2>3. n \in Nat BY <2>1, <2>2 DEF Lesser
  <2> HIDE DEF n
  <2>4. CASE n = 0
    <3>1. ~Puts(var) BY <2>4 DEF Puts, n
    <3> QED BY <3>1, <2>1, <2>4, NoWrite DEF session
  <2>5. CASE n # 0
    <3>1. Puts(var) BY <2>3, <2>5 DEF Puts, n
    <3>2. new = NewFile(var) BY <3>1, NewFileIs DEF n
    <3>3. fsSessName \in Disk!Stored
      <4>1. files[fsSessName] = Part(fsSessBuf, 0, fsSessLen) /\ fsSessName \in Name
        BY DEF Inv, SnapshotIsFile, Snapshot, TypeOK
      <4>2. fsSessBuf \in [Offset -> Cell] /\ fsSessLen \in 0 .. FILE_MAX
        BY DEF Inv, TypeOK
      <4>3. files[fsSessName] \in Content BY <4>1, <4>2, PartIs
      <4> QED BY <4>1, <4>3, SessionAssumption DEF Disk!Stored
    <3> HIDE DEF new
    <3> DEFINE rc == IF Disk!Fits(fsSessName, new) THEN n ELSE FS_EFULL
    <3>4. NewFile(var) \in Content BY <3>1, FileIs
    <3>5. /\ fsSessOff' = fsSessOff + n /\ reply'.rc = rc
          /\ IF rc = FS_ENOENT THEN UNCHANGED files ELSE Disk!Write(fsSessName, new)
      BY <3>1, <3>2, <3>3
      DEF gFileWrite, Puts, n, NewFile, NewBuf, NewOff, Replies
    <3>6. rc # FS_ENOENT BY <2>3 DEF FS_ENOENT, FS_EFULL
    <3>7. Disk!Write(fsSessName, new) BY <3>5, <3>6
    <3>8. fsSessName \in Name BY <3>3 DEF Disk!Stored
    <3>9. files'[fsSessName] = IF Disk!Fits(fsSessName, new) THEN new ELSE EMPTY
      BY <3>2, <3>4, <3>7, <3>8, DiskWrite DEF Inv
    <3>10. FS_EFULL < 0 BY DEF FS_EFULL
    <3> QED BY <2>1, <2>5, <3>5, <3>9, <3>10 DEF new
  <2> QED BY <2>4, <2>5
<1>3. Inv /\ [Next]_vars => [Others /\ Puts1]_vars
  <2> HIDE DEF Others, Puts1
  <2> QED BY <1>1, <1>2
<1> QED BY <1>3, Inductive, PTL DEF Spec, WritesInPlace
=============================================================================
