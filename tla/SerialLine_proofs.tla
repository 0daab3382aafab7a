-------------------------- MODULE SerialLine_proofs --------------------------
(***************************************************************************)
(* Theorems about SerialLine, for any sizes of the buffers, any files and  *)
(* any number of commands.                                                 *)
(***************************************************************************)
EXTENDS SerialLine, SequenceTheorems, TLAPS

Word   == {"nl", "p", "u", "update", "bad", "ls", "get", "one"}
Text   == {"OK", "ERR", "RDY", "ACK", "LS", "ROW", "DATA0", "DATA", "eol", "none"}
Units  == [k : Word, len : Nat, id : Nat]
Symbol == [t : Text, id : Nat]
Ring   == [ring : Seq(Symbol), over : BOOLEAN]
Dev    == [mode : {"command", "payload", "flush"}, cmdBuf : Seq(Units),
           id : Nat, len : Nat, upBuf : Seq(Units)]
HostMode == {"idle", "result", "ack", "hex", "rdy", "rows", "data", "one"}
Host   == [mode : HostMode, id : Nat, kind : Word \cup {"none"}, data : Seq({P, U, NL}), n : Nat,
           told : Symbol, quiet : BOOLEAN, patient : BOOLEAN]

(***************************************************************************)
(* The inductive invariant.  A unit of text that is an update is followed  *)
(* by its line end, and stands alone in the line buffer; while its payload *)
(* is awaited, upBuf is what has been read behind that line.               *)
(***************************************************************************)
Wire ==
  /\ sent \in Seq(Units) /\ arrived \in Nat /\ pos \in Nat
  /\ pos <= arrived /\ arrived <= Len(sent)
Typed ==
  /\ dev \in Dev /\ tx \in Ring /\ stored \in Seq(Units)
  /\ inp \in Seq(Symbol) /\ line \in Seq(Symbol) /\ host \in Host
Room ==
  /\ Len(tx.ring) < TX_RING /\ tx.over = FALSE
  /\ dev.mode = "payload" => Len(tx.ring) <= TX_KEEP + 2
Followed ==
  \A i \in 1 .. Len(sent) :
    sent[i].k = "update" => i + 1 \in 1 .. Len(sent) /\ sent[i + 1] = NL
Reading ==
  /\ Len(dev.cmdBuf) < CMD_MAX
  /\ dev.mode # "command" => dev.cmdBuf = <<>>
  /\ dev.cmdBuf # <<>> /\ dev.cmdBuf[1].k = "update" =>
       Len(dev.cmdBuf) = 1 /\ pos \in 1 .. Len(sent) /\ sent[pos] = dev.cmdBuf[1]
Behind(i) ==
  /\ sent[i].k = "update" /\ sent[i].len = dev.len
  /\ pos = i + 1 + Len(dev.upBuf) /\ dev.upBuf = SubSeq(sent, i + 2, pos)
Uploading ==
  dev.mode = "payload" =>
    Len(dev.upBuf) < dev.len /\ \E i \in 1 .. Len(sent) : Behind(i)
Piece(s) == \E i \in 1 .. Len(sent) :
  /\ sent[i].k = "update" /\ sent[i].len = Len(s) /\ i + 1 + Len(s) <= Len(sent)
  /\ s = SubSeq(sent, i + 2, i + 1 + Len(s))
Whole == stored # <<>> => Piece(stored)

Inv == Wire /\ Typed /\ Room /\ Followed /\ Reading /\ Uploading /\ Whole

-----------------------------------------------------------------------------
\* Units of files are units, and none begins a command.
LEMMA Pieces ==
  /\ NL \in Units /\ P \in Units /\ U \in Units
  /\ NL.k = "nl" /\ P.k = "p" /\ U.k = "u"
  BY DEF NL, P, U, Unit, Units, Word

\* A line of an answer is two symbols.
LEMMA AnswerLineIs ==
  ASSUME NEW t \in Text, NEW i \in Nat
  PROVE  AnswerLine(t, i) \in Seq(Symbol) /\ Len(AnswerLine(t, i)) = 2
  BY DEF AnswerLine, Symbol, Text

\* What fits into the ring goes into it whole.
LEMMA PutFits ==
  ASSUME NEW r \in Ring, r.over = FALSE, NEW s \in Seq(Symbol), Len(r.ring) + Len(s) < TX_RING
  PROVE  /\ txPut(r, s) \in Ring /\ txPut(r, s).over = FALSE
         /\ Len(txPut(r, s).ring) = Len(r.ring) + Len(s) /\ txPut(r, s).ring = r.ring \o s
<1> DEFINE room == TX_RING - 1 - Len(r.ring)
           some == SubSeq(s, 1, IF Len(s) < room THEN Len(s) ELSE room)
<1>1. r.ring \in Seq(Symbol) /\ Len(r.ring) \in Nat /\ Len(s) \in Nat BY DEF Ring
<1>2. Len(s) <= room /\ room \in Int BY <1>1, BufferAssumption
<1>3. some = SubSeq(s, 1, Len(s)) /\ ~(Len(s) > room)
  <2> HIDE DEF room
  <2> QED BY <1>1, <1>2
<1>4. some = s BY <1>3, SubSeqFull
<1>5. txPut(r, s) = [ring |-> r.ring \o some, over |-> Len(s) > room] BY DEF txPut
<1> HIDE DEF room, some
<1>6. r.ring \o s \in Seq(Symbol) /\ Len(r.ring \o s) = Len(r.ring) + Len(s) BY <1>1, ConcatProperties
<1> QED BY <1>3, <1>4, <1>5, <1>6 DEF Ring

\* A new answer finds at most TX_KEEP symbols before it.
LEMMA BeginIs ==
  ASSUME NEW r \in Ring
  PROVE  /\ txBegin(r) \in Ring /\ txBegin(r).over = FALSE /\ Len(txBegin(r).ring) <= TX_KEEP
         /\ Len(r.ring) <= TX_KEEP => txBegin(r).ring = r.ring
<1>1. r.ring \in Seq(Symbol) /\ Len(r.ring) \in Nat BY DEF Ring
<1>2. <<>> \in Seq(Symbol) /\ Len(<<>>) = 0 BY EmptySeq
<1>3. CASE Len(r.ring) > TX_KEEP
  BY <1>2, <1>3, BufferAssumption DEF txBegin, Ring
<1>4. CASE ~(Len(r.ring) > TX_KEEP)
  BY <1>1, <1>4, BufferAssumption DEF txBegin, Ring
<1> QED BY <1>3, <1>4

\* An answer of one line leaves room for another.
LEMMA OneLineFits ==
  ASSUME NEW r \in Ring, NEW t \in Text, NEW i \in Nat
  PROVE  /\ Begin(r, t, i) \in Ring /\ Begin(r, t, i).over = FALSE
         /\ Len(Begin(r, t, i).ring) <= TX_KEEP + 2
         /\ Len(r.ring) <= TX_KEEP => Begin(r, t, i).ring = r.ring \o AnswerLine(t, i)
<1> DEFINE b == txBegin(r)
           s == AnswerLine(t, i)
<1>1. b \in Ring /\ b.over = FALSE /\ Len(b.ring) <= TX_KEEP /\ Len(b.ring) \in Nat
  <2>1. b \in Ring /\ b.over = FALSE /\ Len(b.ring) <= TX_KEEP BY BeginIs
  <2> HIDE DEF b
  <2> QED BY <2>1 DEF Ring
<1>1a. Len(r.ring) <= TX_KEEP => b.ring = r.ring BY BeginIs
<1>2. s \in Seq(Symbol) /\ Len(s) = 2 BY AnswerLineIs
<1>3. Begin(r, t, i) = txPut(b, s) BY DEF Begin, Put
<1> HIDE DEF b, s
<1>4. Len(b.ring) + Len(s) < TX_RING BY <1>1, <1>2, RingAssumption, BufferAssumption
<1>5. Len(txPut(b, s).ring) = Len(b.ring) + Len(s) /\ txPut(b, s) \in Ring /\ txPut(b, s).over = FALSE
      /\ txPut(b, s).ring = b.ring \o s
  BY <1>1, <1>2, <1>4, PutFits
<1>7. Len(r.ring) <= TX_KEEP => Begin(r, t, i).ring = r.ring \o s BY <1>3, <1>5, <1>1a
<1>8. Len(Begin(r, t, i).ring) <= TX_KEEP + 2 BY <1>1, <1>2, <1>3, <1>5, BufferAssumption
<1> QED BY <1>3, <1>5, <1>7, <1>8 DEF s

\* The longest answer has three lines.
LEMMA AnswersFit ==
  ASSUME NEW k \in DOMAIN Answers, NEW a \in Answers[k], NEW i \in Nat
  PROVE  AnswerLines(a, i) \in Seq(Symbol) /\ Len(AnswerLines(a, i)) <= 6
<1>1. a \in Seq(Text) /\ Len(a) \in Nat /\ Len(a) <= 3
  <2>1. a \in OneLine \cup Listing \cup Download BY DEF Answers
  <2>2. CASE a \in {<<x>> : x \in Text}
    <3>1. PICK x \in Text : a = <<x>> BY <2>2
    <3> QED BY <3>1
  <2>3. CASE a \in {<<x, y>> : x \in Text, y \in Text}
    <3>1. PICK x \in Text, y \in Text : a = <<x, y>> BY <2>3
    <3> QED BY <3>1
  <2>4. CASE a \in {<<x, y, z>> : x \in Text, y \in Text, z \in Text}
    <3>1. PICK x \in Text, y \in Text, z \in Text : a = <<x, y, z>> BY <2>4
    <3> QED BY <3>1
  <2> QED BY <2>1, <2>2, <2>3, <2>4 DEF OneLine, Listing, Download, Text
<1> DEFINE n == 2 * Len(a)
           e(j) == AnswerLine(a[(j + 1) \div 2], i)[IF j % 2 = 1 THEN 1 ELSE 2]
<1>2. n \in Nat /\ n <= 6
  <2>1. Len(a) \in Nat /\ Len(a) <= 3 BY <1>1
  <2> QED BY <2>1
<1>3. \A j \in 1 .. n : e(j) \in Symbol
  <2> TAKE j \in 1 .. n
  <2>1. (j + 1) \div 2 \in 1 .. Len(a) BY <1>1
  <2>2. a[(j + 1) \div 2] \in Text BY <1>1, <2>1, ElementOfSeq
  <2>3. AnswerLine(a[(j + 1) \div 2], i)[1] \in Symbol /\ AnswerLine(a[(j + 1) \div 2], i)[2] \in Symbol
    BY <2>2 DEF AnswerLine, Symbol, Text
  <2> QED BY <2>3
<1>4. AnswerLines(a, i) = [j \in 1 .. n |-> e(j)] BY DEF AnswerLines
<1> HIDE DEF e, n
<1>5. [j \in 1 .. n |-> e(j)] \in Seq(Symbol) BY <1>2, <1>3, IsASeq
<1>6. Len([j \in 1 .. n |-> e(j)]) = n BY <1>2
<1> QED BY <1>2, <1>4, <1>5, <1>6

-----------------------------------------------------------------------------
\* Nothing has been said and nothing is left over.
LEMMA InitInv == Init => Inv
<1> SUFFICES ASSUME Init PROVE Inv OBVIOUS
<1>1. <<>> \in Seq(Units) /\ <<>> \in Seq(Symbol) /\ <<>> \in Seq({P, U, NL})
      /\ Len(<<>>) = 0 BY EmptySeq
<1>2. /\ sent = <<>> /\ arrived = 0 /\ pos = 0 /\ dev = Waiting
      /\ tx = [ring |-> <<>>, over |-> FALSE] /\ inp = <<>>
      /\ host = Prompt /\ line = <<>> /\ stored = <<>>
  BY DEF Init
<1>3. Wire BY <1>1, <1>2 DEF Wire
<1>4. Typed BY <1>1, <1>2 DEF Typed, Waiting, Prompt, NoAnswer, Dev, Ring, Host, HostMode, Symbol, Text
<1>5. Room BY <1>1, <1>2, BufferAssumption, RingAssumption DEF Room, Waiting
<1>6. Followed /\ Whole BY <1>1, <1>2 DEF Followed, Whole
<1>7. Reading /\ Uploading BY <1>1, <1>2, BufferAssumption DEF Reading, Uploading, Waiting
<1> QED BY <1>3, <1>4, <1>5, <1>6, <1>7 DEF Inv

\* One more unit is read.
LEMMA TakeIs ==
  ASSUME Wire, Take, UNCHANGED <<sent, arrived>>
  PROVE  /\ Wire' /\ pos + 1 \in 1 .. Len(sent) /\ pos' = pos + 1 /\ pos \in Nat
         /\ c = sent[pos + 1] /\ c \in Units
<1>1. pos + 1 \in 1 .. Len(sent) /\ pos' = pos + 1 BY DEF Wire, Take, Available
<1>2. sent[pos + 1] \in Units BY <1>1, ElementOfSeq DEF Wire
<1>3. c = sent[pos + 1] BY DEF c
<1> QED BY <1>1, <1>2, <1>3 DEF Wire, Take, Available

\* The device is at rest: waiting for a command with an empty buffer, or dropping
\* what comes.
AtRest(d) == d.cmdBuf = <<>> /\ d.mode # "payload"

LEMMA RestIs ==
  ASSUME dev' \in Dev, AtRest(dev')
  PROVE  Reading' /\ Uploading'
<1>1. Len(<<>>) = 0 BY EmptySeq
<1> QED BY <1>1, BufferAssumption DEF Reading, Uploading, AtRest

\* The state after a command was served.
LEMMA WaitingIs ==
  /\ Waiting \in Dev /\ AtRest(Waiting)
  /\ [Waiting EXCEPT !.mode = "flush"] \in Dev /\ AtRest([Waiting EXCEPT !.mode = "flush"])
<1>1. <<>> \in Seq(Units) BY EmptySeq
<1> QED BY <1>1 DEF Waiting, Dev, AtRest

\* A unit of a line.
LEMMA PollCharInv == Inv /\ PollChar => Inv'
<1> SUFFICES ASSUME Inv, PollChar PROVE Inv' OBVIOUS
<1> DEFINE b == dev.cmdBuf
<1>1. /\ dev.mode = "command" /\ Take /\ c # NL /\ UNCHANGED <<tx, stored, sent, arrived, inp, line, host>>
      /\ dev' = IF Len(b) < CMD_MAX - 1 THEN [dev EXCEPT !.cmdBuf = Append(b, c)] ELSE dev
  BY DEF PollChar, Quietly, terminal
<1>2. /\ Wire' /\ pos + 1 \in 1 .. Len(sent) /\ pos' = pos + 1 /\ pos \in Nat
      /\ c = sent[pos + 1] /\ c \in Units BY <1>1, TakeIs DEF Inv
<1>3. dev \in Dev /\ b \in Seq(Units) /\ Len(b) \in Nat /\ Len(b) < CMD_MAX
  BY DEF Inv, Typed, Dev, Reading
<1>4. Append(b, c) \in Seq(Units) /\ Len(Append(b, c)) = Len(b) + 1
      /\ \A j \in 1 .. Len(b) : Append(b, c)[j] = b[j]
      /\ Append(b, c)[Len(b) + 1] = c BY <1>2, <1>3, AppendProperties
\* An update has its line end behind it.
<1>5. ~(b # <<>> /\ b[1].k = "update")
  <2> SUFFICES ASSUME b # <<>>, b[1].k = "update" PROVE FALSE OBVIOUS
  <2>1. pos \in 1 .. Len(sent) /\ sent[pos].k = "update" BY DEF Inv, Reading
  <2>2. sent[pos + 1] = NL BY <2>1 DEF Inv, Followed
  <2> QED BY <1>1, <1>2, <2>2
<1> HIDE DEF b
<1>6. dev' \in Dev /\ dev'.mode = "command" /\ dev'.cmdBuf \in {b, Append(b, c)}
      /\ (dev'.cmdBuf # b => Len(b) < CMD_MAX - 1)
  BY <1>1, <1>3, <1>4 DEF Dev, b
<1>7. Typed' BY <1>1, <1>6 DEF Inv, Typed
<1>8. Room' BY <1>1, <1>6 DEF Inv, Room
<1>9. Followed' /\ Whole' BY <1>1 DEF Inv, Followed, Whole, Piece
<1>10. Uploading' BY <1>6 DEF Uploading
<1>11. Reading'
  <2>1. CASE dev'.cmdBuf = b BY <1>3, <1>5, <1>6, <2>1 DEF Reading
  <2>2. CASE dev'.cmdBuf # b
    <3>1. dev'.cmdBuf = Append(b, c) /\ Len(b) + 1 < CMD_MAX
      BY <1>3, <1>6, <2>2, BufferAssumption
    <3>2. CASE b = <<>>
      <4>1. Len(b) = 0 BY <3>2, EmptySeq
      <4>2. dev'.cmdBuf[1] = c /\ Len(dev'.cmdBuf) = 1 BY <1>4, <3>1, <4>1
      <4> QED BY <1>1, <1>2, <1>4, <1>6, <3>1, <4>2 DEF Reading
    <3>3. CASE b # <<>>
      <4>1. 1 \in 1 .. Len(b) BY <1>3, <3>3, EmptySeq
      <4>2. dev'.cmdBuf[1] = b[1] BY <1>4, <3>1, <4>1
      <4> QED BY <1>4, <1>5, <1>6, <3>1, <3>3, <4>2 DEF Reading
    <3> QED BY <3>2, <3>3
  <2> QED BY <2>1, <2>2
<1> QED BY <1>2, <1>7, <1>8, <1>9, <1>10, <1>11 DEF Inv

\* A step of the device that ends at rest.
LEMMA RestInv ==
  ASSUME Inv, Wire', UNCHANGED <<sent, inp, line, host>>, dev' \in Dev, AtRest(dev'),
         tx' \in Ring, tx'.over = FALSE, Len(tx'.ring) < TX_RING,
         stored' \in Seq(Units), Whole'
  PROVE  Inv'
<1>1. Reading' /\ Uploading' BY RestIs
<1>2. Typed' BY DEF Inv, Typed
<1>3. Room' BY DEF Room, AtRest
<1>4. Followed' BY DEF Inv, Followed
<1> QED BY <1>1, <1>2, <1>3, <1>4 DEF Inv

\* The same when the file stays.
LEMMA RestKeeps ==
  ASSUME Inv, Wire', UNCHANGED <<sent, inp, line, host, stored>>, dev' \in Dev, AtRest(dev'),
         tx' \in Ring, tx'.over = FALSE, Len(tx'.ring) < TX_RING
  PROVE  Inv'
<1>1. stored' \in Seq(Units) /\ Whole' BY DEF Inv, Typed, Whole, Piece
<1> QED BY <1>1, RestInv

\* A ring with an answer of one line in it.
LEMMA SmallRing ==
  ASSUME NEW r \in Ring, Len(r.ring) <= TX_KEEP + 2
  PROVE  Len(r.ring) < TX_RING /\ Len(r.ring) + 2 < TX_RING
<1>1. Len(r.ring) \in Nat BY DEF Ring
<1> QED BY <1>1, BufferAssumption, RingAssumption

\* The end of a line that begins with a unit of text.
LEMMA ServedIs ==
  ASSUME Inv, NEW k, Served(k)
  PROVE  /\ Wire' /\ UNCHANGED <<sent, arrived, inp, line, host>>
         /\ dev.mode = "command" /\ dev.cmdBuf # <<>> /\ dev.cmdBuf[1].k = k
         /\ Told \in Nat /\ dev.cmdBuf[1] \in Units
         /\ pos' = pos + 1 /\ pos + 1 \in 1 .. Len(sent) /\ pos \in Nat
<1>1. /\ dev.mode = "command" /\ Take /\ UNCHANGED <<sent, arrived, inp, line, host>>
      /\ dev.cmdBuf # <<>> /\ dev.cmdBuf[1].k = k
  BY DEF Served, LineRead, Quietly, terminal
<1>2. dev.cmdBuf \in Seq(Units) BY DEF Inv, Typed, Dev
<1>3. 1 \in 1 .. Len(dev.cmdBuf) BY <1>1, <1>2, EmptySeq
<1>4. dev.cmdBuf[1] \in Units BY <1>2, <1>3, ElementOfSeq
<1>5. Told \in Nat BY <1>4 DEF Told, Units
<1> QED BY <1>1, <1>4, <1>5, TakeIs DEF Inv

\* Lines without an answer.
LEMMA SilentInv == Inv /\ (BlankLine \/ GarbledLine) => Inv'
<1> SUFFICES ASSUME Inv, BlankLine \/ GarbledLine PROVE Inv' OBVIOUS
<1>1. Take /\ UNCHANGED <<sent, arrived, inp, line, host, tx, stored>>
  BY DEF BlankLine, GarbledLine, LineRead, Quietly, terminal
<1>2. Wire' BY <1>1, TakeIs DEF Inv
<1>3. dev' \in Dev /\ AtRest(dev')
  <2>1. CASE BlankLine BY <2>1 DEF BlankLine, LineRead, Inv, Typed, AtRest
  <2>2. CASE GarbledLine BY <2>2, WaitingIs DEF GarbledLine
  <2> QED BY <2>1, <2>2
<1>4. tx' \in Ring /\ tx'.over = FALSE /\ Len(tx'.ring) < TX_RING BY <1>1 DEF Inv, Typed, Room
<1> QED BY <1>1, <1>2, <1>3, <1>4, RestKeeps

\* A line that is answered with an error.
LEMMA UnknownInv == Inv /\ (UnknownLine \/ UpdateRefused) => Inv'
<1> SUFFICES ASSUME Inv, UnknownLine \/ UpdateRefused PROVE Inv' OBVIOUS
<1>1. PICK k \in {"p", "bad"} : Served(k) BY DEF UnknownLine, UpdateRefused
<1>2. Wire' /\ UNCHANGED <<sent, inp, line, host, stored>> /\ Told \in Nat
  BY <1>1, ServedIs DEF UnknownLine, UpdateRefused
<1>3. dev' \in Dev /\ AtRest(dev') BY WaitingIs DEF UnknownLine, UpdateRefused
<1>4. PICK i \in Nat : tx' = Begin(tx, "ERR", i)
  <2>1. CASE UpdateRefused BY <1>2, <2>1 DEF UpdateRefused
  <2>2. CASE UnknownLine
    <3>1. dev.cmdBuf \in Seq(Units) /\ dev.cmdBuf # <<>>
      BY <1>1, ServedIs DEF Inv, Typed, Dev
    <3>2. Len(dev.cmdBuf) \in 1 .. Len(dev.cmdBuf) BY <3>1, EmptySeq
    <3>3. Last(dev.cmdBuf) \in Units BY <3>1, <3>2, ElementOfSeq DEF Last
    <3> QED BY <2>2, <3>3 DEF UnknownLine, Units
  <2> QED BY <2>1, <2>2
<1>5. tx' \in Ring /\ tx'.over = FALSE /\ Len(tx'.ring) <= TX_KEEP + 2
  <2>1. "ERR" \in Text BY DEF Text
  <2> QED BY <1>4, <2>1, OneLineFits DEF Inv, Typed
<1> QED BY <1>2, <1>3, <1>5, SmallRing, RestKeeps

\* A command served at once.
LEMMA CommandInv == Inv /\ Command => Inv'
<1> SUFFICES ASSUME Inv, Command PROVE Inv' OBVIOUS
<1>0. PICK k \in DOMAIN Answers :
        Served(k) /\ \E a \in Answers[k] : tx' = txPut(txBegin(tx), AnswerLines(a, Told))
  BY DEF Command
<1>1. PICK a \in Answers[k] : tx' = txPut(txBegin(tx), AnswerLines(a, Told))
  BY <1>0
<1>2. /\ Wire' /\ UNCHANGED <<sent, inp, line, host, stored>> /\ Told \in Nat
      /\ dev' \in Dev /\ AtRest(dev')
  BY <1>0, ServedIs, WaitingIs DEF Command
<1> DEFINE b == txBegin(tx)
           s == AnswerLines(a, Told)
<1>3. s \in Seq(Symbol) /\ Len(s) <= 6 BY <1>2, AnswersFit
<1>4. b \in Ring /\ b.over = FALSE /\ Len(b.ring) <= TX_KEEP BY BeginIs DEF Inv, Typed
<1> HIDE DEF b, s
<1>5. Len(b.ring) \in Nat /\ Len(s) \in Nat BY <1>3, <1>4 DEF Ring
<1>6. Len(b.ring) + Len(s) < TX_RING BY <1>3, <1>4, <1>5, RingAssumption, BufferAssumption
<1>7. tx' \in Ring /\ tx'.over = FALSE /\ Len(tx'.ring) < TX_RING
  BY <1>1, <1>3, <1>4, <1>6, PutFits DEF b, s
<1> QED BY <1>2, <1>7, RestKeeps

\* The file of an update, a piece of what the terminal wrote, is stored or refused.
LEMMA StoreInv ==
  ASSUME Inv, Wire', UNCHANGED <<sent, inp, line, host>>, dev' \in Dev, AtRest(dev'),
         NEW r \in Ring, NEW b \in Seq(Units), NEW i \in Nat,
         b # <<>> => Piece(b), Store(r, b, i)
  PROVE  Inv'
<1>1. stored' \in {b, stored, <<>>} /\ \E t \in {"OK", "ERR"} : tx' = Begin(r, t, i)
  BY DEF Store
<1>2. tx' \in Ring /\ tx'.over = FALSE /\ Len(tx'.ring) < TX_RING
  <2>1. PICK t \in {"OK", "ERR"} : tx' = Begin(r, t, i) BY <1>1
  <2>2. t \in Text BY DEF Text
  <2>3. tx' \in Ring /\ tx'.over = FALSE /\ Len(tx'.ring) <= TX_KEEP + 2
    BY <2>1, <2>2, OneLineFits
  <2> QED BY <2>3, SmallRing
<1>3. stored' \in Seq(Units) BY <1>1, EmptySeq DEF Inv, Typed
<1>4. stored' # <<>> => Piece(stored') BY <1>1 DEF Inv, Whole
<1>5. Whole' BY <1>4 DEF Whole, Piece
<1> QED BY <1>2, <1>3, <1>5, RestInv

\* An update whose payload will be read from the place behind its line.
LEMMA UpdateInv == Inv /\ handleUpdate => Inv'
<1> SUFFICES ASSUME Inv, handleUpdate PROVE Inv' OBVIOUS
<1> DEFINE n == dev.cmdBuf[1].len
           r == Begin(tx, "RDY", Told)
           next == [Waiting EXCEPT !.mode = "payload", !.id = Told, !.len = n]
<1>1. Served("update") BY DEF handleUpdate
<1>2. /\ Wire' /\ UNCHANGED <<sent, arrived, inp, line, host>> /\ Told \in Nat
      /\ dev.mode = "command" /\ dev.cmdBuf # <<>> /\ dev.cmdBuf[1].k = "update"
      /\ dev.cmdBuf[1] \in Units /\ pos' = pos + 1 /\ pos + 1 \in 1 .. Len(sent)
  BY <1>1, ServedIs
<1>3. r \in Ring /\ r.over = FALSE /\ Len(r.ring) <= TX_KEEP + 2 /\ n \in Nat
  <2>1. "RDY" \in Text BY DEF Text
  <2> QED BY <1>2, <2>1, OneLineFits DEF Inv, Typed, Units
<1>4. <<>> \in Seq(Units) /\ Len(<<>>) = 0 BY EmptySeq
<1>5. CASE n = 0
  <2>1. Store(r, <<>>, Told) /\ dev' = Waiting BY <1>5 DEF handleUpdate
  <2> HIDE DEF r
  <2> QED BY <1>2, <1>3, <1>4, <2>1, StoreInv, WaitingIs
<1>6. CASE n # 0
  <2>1. dev' = next /\ tx' = r /\ stored' = stored BY <1>6 DEF handleUpdate
  <2> HIDE DEF r
  <2>2. /\ dev' \in Dev /\ dev'.mode = "payload" /\ dev'.cmdBuf = <<>> /\ dev'.upBuf = <<>>
        /\ dev'.len = n
    BY <1>2, <1>3, <1>4, <2>1 DEF Waiting, Dev
  <2>3. pos \in 1 .. Len(sent) /\ sent[pos] = dev.cmdBuf[1] BY <1>2 DEF Inv, Reading
  <2>4. SubSeq(sent, pos + 2, pos + 1) = <<>>
    <3>1. pos + 2 \in Int /\ pos + 1 \in Int /\ pos + 1 < pos + 2 BY <2>3
    <3> QED BY <3>1, SubSeqEmpty
  <2>6. Uploading'
    <3>1. Len(dev'.upBuf) < dev'.len BY <1>3, <1>4, <1>6, <2>2
    <3>2. pos \in 1 .. Len(sent') BY <1>2, <2>3
    <3>3. \E i \in 1 .. Len(sent') : Behind(i)' BY <1>2, <1>4, <2>2, <2>3, <2>4, <3>2 DEF Behind
    <3> QED BY <3>1, <3>3 DEF Uploading
  <2>7. Reading' BY <1>4, <2>2, BufferAssumption DEF Reading
  <2>8. Typed' BY <1>2, <1>3, <2>1, <2>2 DEF Inv, Typed
  <2>9. Room' BY <1>3, <2>1, SmallRing DEF Room
  <2>10. Followed' /\ Whole' BY <1>2, <2>1 DEF Inv, Followed, Whole, Piece
  <2> QED BY <1>2, <2>6, <2>7, <2>8, <2>9, <2>10 DEF Inv
<1> QED BY <1>5, <1>6

\* A unit of the payload is the next one behind the update's line.
LEMMA PayloadInv == Inv /\ PayloadByte => Inv'
<1> SUFFICES ASSUME Inv, PayloadByte PROVE Inv' OBVIOUS
<1> DEFINE b == Append(dev.upBuf, c)
           acked == Len(b) = dev.len \/ Len(b) % UART_CHUNK = 0
           r == IF acked THEN Begin(tx, "ACK", dev.id) ELSE tx
<1>1. /\ dev.mode = "payload" /\ Take /\ UNCHANGED <<sent, arrived, inp, line, host>>
      /\ IF Len(b) = dev.len THEN Store(r, b, dev.id) /\ dev' = Waiting
         ELSE dev' = [dev EXCEPT !.upBuf = b] /\ tx' = r /\ UNCHANGED stored
  BY DEF PayloadByte, Quietly, terminal
<1>2. /\ Wire' /\ pos + 1 \in 1 .. Len(sent) /\ pos' = pos + 1 /\ pos \in Nat
      /\ c = sent[pos + 1] /\ c \in Units BY <1>1, TakeIs DEF Inv
<1>3. /\ dev \in Dev /\ dev.upBuf \in Seq(Units) /\ Len(dev.upBuf) \in Nat /\ dev.id \in Nat
      /\ dev.len \in Nat /\ Len(dev.upBuf) < dev.len /\ dev.cmdBuf = <<>>
  BY <1>1 DEF Inv, Typed, Dev, Uploading, Reading
<1>4. b \in Seq(Units) /\ Len(b) = Len(dev.upBuf) + 1 /\ b = dev.upBuf \o <<c>>
  BY <1>2, <1>3, AppendProperties, AppendIsConcat
<1>5. r \in Ring /\ r.over = FALSE /\ Len(r.ring) <= TX_KEEP + 2
  <2>1. "ACK" \in Text BY DEF Text
  <2> QED BY <1>1, <1>3, <2>1, OneLineFits DEF Inv, Typed, Room
<1> HIDE DEF b, r
<1>6. PICK i \in 1 .. Len(sent) : Behind(i) BY <1>1 DEF Inv, Uploading
<1>7. b = SubSeq(sent, i + 2, pos + 1) /\ pos + 1 = i + 1 + Len(b)
  <2>1. pos = i + 1 + Len(dev.upBuf) /\ dev.upBuf = SubSeq(sent, i + 2, pos) BY <1>6 DEF Behind
  <2> DEFINE m == Len(dev.upBuf)
  <2>2. pos = i + 1 + m /\ m \in Nat /\ Len(b) = m + 1 BY <1>3, <1>4, <2>1
  <2>3. i + 2 \in 1 .. Len(sent) /\ pos + 1 \in i + 2 .. Len(sent) /\ pos + 1 = i + 1 + Len(b)
    <3>1. i \in Nat /\ 1 <= i /\ Len(sent) \in Nat /\ pos + 1 \in 1 .. Len(sent)
      BY <1>2 DEF Inv, Wire
    <3> HIDE DEF m
    <3> QED BY <2>2, <3>1
  <2>4. sent \in Seq(Units) BY DEF Inv, Wire
  <2>5. SubSeq(sent, i + 2, pos + 1) = SubSeq(sent, i + 2, pos) \o <<sent[pos + 1]>>
    BY <1>2, <2>3, <2>4, SubSeqRecursiveSecond
  <2> QED BY <1>2, <1>4, <2>1, <2>3, <2>5
<1>8. CASE Len(b) = dev.len
  <2>1. Store(r, b, dev.id) /\ dev' = Waiting BY <1>1, <1>8
  <2>2. Piece(b)
    <3>1. sent[i].k = "update" /\ sent[i].len = Len(b) BY <1>6, <1>8 DEF Behind
    <3>2. b = SubSeq(sent, i + 2, i + 1 + Len(b)) /\ i + 1 + Len(b) <= Len(sent) BY <1>2, <1>7
    <3> QED BY <3>1, <3>2 DEF Piece
  <2>3. dev' \in Dev /\ AtRest(dev') BY <2>1, WaitingIs
  <2> QED BY <1>1, <1>2, <1>3, <1>4, <1>5, <2>1, <2>2, <2>3, StoreInv
<1>9. CASE Len(b) # dev.len
  <2>1. dev' = [dev EXCEPT !.upBuf = b] /\ tx' = r /\ stored' = stored BY <1>1, <1>9
  <2>2. /\ dev' \in Dev /\ dev'.mode = "payload" /\ dev'.cmdBuf = <<>> /\ dev'.upBuf = b
        /\ dev'.len = dev.len
    BY <1>1, <1>3, <1>4, <2>1 DEF Dev
  <2>3. Uploading'
    <3>1. Len(dev'.upBuf) < dev'.len BY <1>3, <1>4, <1>9, <2>2
    <3>2. i \in 1 .. Len(sent') /\ Behind(i)' BY <1>1, <1>2, <1>6, <1>7, <2>2 DEF Behind
    <3> QED BY <3>1, <3>2 DEF Uploading
  <2>4. Reading' BY <2>2, EmptySeq, BufferAssumption DEF Reading
  <2>5. Typed' BY <1>1, <1>5, <2>1, <2>2 DEF Inv, Typed
  <2>6. Room' BY <1>5, <2>1, SmallRing DEF Room
  <2>7. Followed' /\ Whole' BY <1>1, <2>1 DEF Inv, Followed, Whole, Piece
  <2> QED BY <1>2, <2>3, <2>4, <2>5, <2>6, <2>7 DEF Inv
<1> QED BY <1>8, <1>9

\* The payload stops coming.
LEMMA TimeoutInv == Inv /\ PayloadTimeout => Inv'
<1> SUFFICES ASSUME Inv, PayloadTimeout PROVE Inv' OBVIOUS
<1>1. /\ dev.mode = "payload" /\ tx' = Put(tx, "ERR", dev.id)
      /\ dev' = [dev EXCEPT !.mode = "flush"]
      /\ UNCHANGED <<pos, sent, arrived, inp, line, host, stored>>
  BY DEF PayloadTimeout, Quietly, terminal
<1>2. dev \in Dev /\ dev.id \in Nat /\ dev.cmdBuf = <<>> /\ tx \in Ring /\ tx.over = FALSE
      /\ Len(tx.ring) <= TX_KEEP + 2
  BY <1>1 DEF Inv, Typed, Dev, Reading, Room
<1>3. dev' \in Dev /\ AtRest(dev') BY <1>1, <1>2 DEF Dev, AtRest
<1> DEFINE s == AnswerLine("ERR", dev.id)
<1>4. s \in Seq(Symbol) /\ Len(s) = 2
  <2>1. "ERR" \in Text BY DEF Text
  <2> QED BY <1>2, <2>1, AnswerLineIs
<1>5. tx' = txPut(tx, s) BY <1>1 DEF Put
<1> HIDE DEF s
<1>6. Len(tx.ring) + Len(s) < TX_RING BY <1>2, <1>4, SmallRing
<1>7. tx' \in Ring /\ tx'.over = FALSE /\ Len(tx'.ring) < TX_RING
  BY <1>2, <1>4, <1>5, <1>6, PutFits
<1>8. Wire' BY <1>1 DEF Inv, Wire
<1> QED BY <1>1, <1>3, <1>7, <1>8, RestKeeps

\* rxFlush drops a unit, or ends.
LEMMA FlushInv == Inv /\ (FlushByte \/ FlushEnd) => Inv'
<1> SUFFICES ASSUME Inv, FlushByte \/ FlushEnd PROVE Inv' OBVIOUS
<1>1. UNCHANGED <<sent, arrived, inp, line, host, tx, stored>> /\ dev.mode = "flush"
  BY DEF FlushByte, FlushEnd, Quietly, terminal
<1>2. Wire'
  <2>1. CASE FlushByte BY <1>1, <2>1, TakeIs DEF FlushByte, Inv
  <2>2. CASE FlushEnd BY <1>1, <2>2 DEF FlushEnd, Inv, Wire
  <2> QED BY <2>1, <2>2
<1>3. dev' \in Dev /\ AtRest(dev')
  <2>1. dev \in Dev /\ dev.cmdBuf = <<>> BY <1>1 DEF Inv, Typed, Reading
  <2>2. <<>> \in Seq(Units) BY EmptySeq
  <2> QED BY <1>1, <2>1, <2>2 DEF FlushByte, FlushEnd, Dev, AtRest
<1>4. tx' \in Ring /\ tx'.over = FALSE /\ Len(tx'.ring) < TX_RING BY <1>1 DEF Inv, Typed, Room
<1> QED BY <1>1, <1>2, <1>3, <1>4, RestKeeps

LEMMA DeviceInv == Inv /\ Device => Inv'
  BY PollCharInv, SilentInv, UnknownInv, CommandInv, UpdateInv, PayloadInv, TimeoutInv, FlushInv
     DEF Device

\* The transport moves what is under way, and changes none of it.
LEMMA TransportInv == Inv /\ (txDrain \/ Arrive) => Inv'
<1> SUFFICES ASSUME Inv, txDrain \/ Arrive PROVE Inv' OBVIOUS
<1>1. UNCHANGED <<sent, pos, dev, stored, line, host>>
  BY DEF txDrain, Arrive, terminal, device
<1>2. Wire'
  <2>1. CASE txDrain BY <2>1 DEF txDrain, Inv, Wire
  <2>2. CASE Arrive BY <2>2 DEF Arrive, device, Inv, Wire
  <2> QED BY <2>1, <2>2
<1>3. Typed' /\ Room'
  <2>1. CASE Arrive BY <1>1, <2>1 DEF Arrive, device, terminal, Inv, Typed, Room
  <2>2. CASE txDrain
    <3>1. tx \in Ring /\ tx.ring \in Seq(Symbol) /\ tx.ring # <<>> /\ inp \in Seq(Symbol)
      BY <2>2 DEF txDrain, Inv, Typed, Ring
    <3>2. /\ Head(tx.ring) \in Symbol /\ Tail(tx.ring) \in Seq(Symbol)
          /\ Len(Tail(tx.ring)) = Len(tx.ring) - 1
      BY <3>1, HeadTailProperties
    <3>3. Append(inp, Head(tx.ring)) \in Seq(Symbol) BY <3>1, <3>2, AppendProperties
    <3>4. /\ tx' \in Ring /\ tx'.over = tx.over /\ tx'.ring = Tail(tx.ring)
          /\ inp' \in Seq(Symbol)
      BY <2>2, <3>1, <3>2, <3>3 DEF txDrain, Ring
    <3>5. Typed' BY <1>1, <3>4 DEF Inv, Typed
    <3>6. Len(tx'.ring) = Len(tx.ring) - 1 /\ Len(tx.ring) \in Nat BY <3>1, <3>2, <3>4
    <3>7. Room' BY <1>1, <3>4, <3>6, BufferAssumption DEF Inv, Room
    <3> QED BY <3>5, <3>7
  <2> QED BY <2>1, <2>2
<1>4. Followed' /\ Whole' BY <1>1 DEF Inv, Followed, Whole, Piece
<1>5. Reading' /\ Uploading' BY <1>1 DEF Inv, Reading, Uploading, Behind
<1> QED BY <1>2, <1>3, <1>4, <1>5 DEF Inv

-----------------------------------------------------------------------------
\* What was written stays a part of what is.
LEMMA Kept ==
  ASSUME NEW s \in Seq(Units), NEW t \in Seq(Units), NEW m \in Nat, NEW n \in Nat,
         1 <= m, n <= Len(s)
  PROVE  SubSeq(s \o t, m, n) = SubSeq(s, m, n)
<1>1. CASE m <= n
  <2>1. m \in 1 .. Len(s) /\ n \in 1 .. Len(s) BY <1>1
  <2> QED BY <2>1, SubSeqOfConcat1
<1>2. CASE n < m
  <2>1. SubSeq(s \o t, m, n) = <<>> BY <1>2, SubSeqEmpty
  <2>2. SubSeq(s, m, n) = <<>> BY <1>2, SubSeqEmpty
  <2> QED BY <2>1, <2>2
<1> QED BY <1>1, <1>2

\* The terminal only reads.
LEMMA ReadOnly ==
  ASSUME Inv, UNCHANGED <<sent, arrived, device>>,
         host' \in Host, line' \in Seq(Symbol), inp' \in Seq(Symbol)
  PROVE  Inv'
<1>1. UNCHANGED <<sent, arrived, pos, dev, tx, stored>> BY DEF device
<1>2. Wire' /\ Typed' /\ Room' BY <1>1 DEF Inv, Wire, Typed, Room
<1>3. Followed' /\ Whole' BY <1>1 DEF Inv, Followed, Whole, Piece
<1>4. Reading' /\ Uploading' BY <1>1 DEF Inv, Reading, Uploading, Behind
<1> QED BY <1>2, <1>3, <1>4 DEF Inv

\* The terminal writes: an update together with its line end.
LEMMA Written ==
  ASSUME Inv, UNCHANGED <<arrived, device>>,
         host' \in Host, line' \in Seq(Symbol), inp' \in Seq(Symbol),
         NEW s \in Seq(Units), sent' = sent \o s,
         \A j \in 1 .. Len(s) : s[j].k = "update" => j + 1 \in 1 .. Len(s) /\ s[j + 1] = NL
  PROVE  Inv'
<1>1. UNCHANGED <<arrived, pos, dev, tx, stored>> BY DEF device
<1>2. sent \in Seq(Units) /\ Len(sent) \in Nat /\ Len(s) \in Nat BY DEF Inv, Wire
<1>3. /\ sent' \in Seq(Units) /\ Len(sent') = Len(sent) + Len(s)
      /\ \A i \in 1 .. Len(sent) : sent'[i] = sent[i]
      /\ \A i \in 1 .. Len(s) : sent'[Len(sent) + i] = s[i]
  BY <1>2, ConcatProperties
<1>4. Wire' BY <1>1, <1>2, <1>3 DEF Inv, Wire
<1>5. Typed' /\ Room' BY <1>1 DEF Inv, Typed, Room
<1>6. Followed'
  <2> SUFFICES ASSUME NEW i \in 1 .. Len(sent'), sent'[i].k = "update"
               PROVE  i + 1 \in 1 .. Len(sent') /\ sent'[i + 1] = NL
    BY DEF Followed
  <2>1. CASE i <= Len(sent)
    <3>1. i \in 1 .. Len(sent) /\ sent[i].k = "update" BY <1>2, <1>3, <2>1
    <3>2. i + 1 \in 1 .. Len(sent) /\ sent[i + 1] = NL BY <3>1 DEF Inv, Followed
    <3> QED BY <1>2, <1>3, <3>2
  <2>2. CASE ~(i <= Len(sent))
    <3> DEFINE j == i - Len(sent)
    <3>1. j \in 1 .. Len(s) /\ i = Len(sent) + j BY <1>2, <1>3, <2>2
    <3> HIDE DEF j
    <3>2. s[j].k = "update" BY <1>3, <3>1
    <3>3. j + 1 \in 1 .. Len(s) /\ s[j + 1] = NL BY <3>1, <3>2
    <3>4. sent'[Len(sent) + (j + 1)] = NL BY <1>3, <3>3
    <3>5. i + 1 = Len(sent) + (j + 1) /\ i + 1 \in 1 .. Len(sent') BY <1>2, <1>3, <3>1, <3>3
    <3> QED BY <3>4, <3>5
  <2> QED BY <2>1, <2>2
<1>7. Reading' BY <1>1, <1>2, <1>3 DEF Inv, Reading
<1>8. Uploading'
  <2> SUFFICES ASSUME dev.mode = "payload"
               PROVE  Len(dev.upBuf) < dev.len /\ \E i \in 1 .. Len(sent') : Behind(i)'
    BY <1>1 DEF Uploading
  <2>1. PICK i \in 1 .. Len(sent) : Behind(i) BY DEF Inv, Uploading
  <2>2. i + 2 \in Nat /\ 1 <= i + 2 /\ pos \in Nat /\ pos <= Len(sent) BY <1>2 DEF Inv, Wire
  <2>3. SubSeq(sent \o s, i + 2, pos) = SubSeq(sent, i + 2, pos) BY <1>2, <2>2, Kept
  <2>4. i \in 1 .. Len(sent') /\ sent'[i] = sent[i] BY <1>2, <1>3
  <2>5. Behind(i)' BY <1>1, <2>1, <2>3, <2>4 DEF Behind
  <2> QED BY <2>4, <2>5 DEF Inv, Uploading
<1>9. Whole'
  <2> SUFFICES ASSUME stored # <<>> PROVE Piece(stored)' BY <1>1 DEF Whole
  <2>1. PICK i \in 1 .. Len(sent) :
          /\ sent[i].k = "update" /\ sent[i].len = Len(stored) /\ i + 1 + Len(stored) <= Len(sent)
          /\ stored = SubSeq(sent, i + 2, i + 1 + Len(stored))
    BY DEF Inv, Whole, Piece
  <2> DEFINE n == Len(stored)
  <2>2. n \in Nat BY DEF Inv, Typed
  <2>3. i + 1 + n \in Nat /\ i + 1 + n <= Len(sent) /\ i + 2 \in Nat /\ 1 <= i + 2
    BY <2>1, <2>2
  <2>4. SubSeq(sent', i + 2, i + 1 + n) = SubSeq(sent, i + 2, i + 1 + n)
    <3> HIDE DEF n
    <3>1. SubSeq(sent \o s, i + 2, i + 1 + n) = SubSeq(sent, i + 2, i + 1 + n)
      BY <1>2, <2>3, Kept, SMTT(20)
    <3> QED BY <3>1
  <2>5. i \in 1 .. Len(sent') /\ sent'[i] = sent[i] BY <1>2, <1>3
  <2>6. i + 1 + n <= Len(sent') BY <1>2, <1>3, <2>3
  <2> QED BY <1>1, <2>1, <2>4, <2>5, <2>6 DEF Piece
<1> QED BY <1>4, <1>5, <1>6, <1>7, <1>8, <1>9 DEF Inv

\* The user types a command.
LEMMA TypeInv ==
  ASSUME Inv, NEW k \in Kinds, NEW d \in Seq({P, U, NL}), Type(k, d)
  PROVE  Inv'
<1> DEFINE u == Unit(k, Len(d), host.id + 1)
<1>1. host \in Host /\ host.id + 1 \in Nat BY DEF Inv, Typed, Host
<1>2. u \in Units
  <2>1. Len(d) \in Nat OBVIOUS
  <2> QED BY <1>1, <2>1 DEF Unit, Units, Word, Kinds
<1>3. sent' = sent \o <<u, NL>> /\ UNCHANGED <<arrived, device, inp, line>> BY DEF Type
<1>4. host' \in Host
  <2>1. FirstWait[k] \in HostMode BY DEF Kinds, FirstWait, HostMode
  <2>2. QuietLine \in BOOLEAN BY DEF QuietLine
  <2>3. NoAnswer \in Symbol BY DEF NoAnswer, Symbol, Text
  <2>4. k \in Word BY DEF Kinds, Word
  <2> QED BY <1>1, <2>1, <2>2, <2>3, <2>4 DEF Type, Host
<1> HIDE DEF u
<1>5. <<u, NL>> \in Seq(Units) /\ Len(<<u, NL>>) = 2 /\ <<u, NL>>[2] = NL /\ NL.k # "update"
  BY <1>2, Pieces
<1>6. \A j \in 1 .. 2 : <<u, NL>>[j].k = "update" => j + 1 \in 1 .. 2 /\ <<u, NL>>[j + 1] = NL
  BY <1>5
<1>7. line' \in Seq(Symbol) /\ inp' \in Seq(Symbol) BY <1>3 DEF Inv, Typed
<1> QED BY <1>3, <1>4, <1>5, <1>6, <1>7, Written

\* The next chunk is written: nothing in a file is an update.
LEMMA ChunkInv ==
  ASSUME Inv, UNCHANGED <<arrived, device>>, line' \in Seq(Symbol), inp' \in Seq(Symbol),
         NEW n \in Nat, SendChunk(n)
  PROVE  Inv'
<1> DEFINE d == host.data
           end == IF n + UART_CHUNK < Len(d) THEN n + UART_CHUNK ELSE Len(d)
           s == SubSeq(d, n + 1, end)
<1>1. /\ host' = [host EXCEPT !.mode = IF n = end THEN "result" ELSE "ack", !.n = end]
      /\ sent' = sent \o s
  BY DEF SendChunk
<1>2. host \in Host /\ d \in Seq({P, U, NL}) /\ Len(d) \in Nat BY DEF Inv, Typed, Host
<1>3. end \in Nat /\ end <= Len(d) BY <1>2, BufferAssumption
<1> HIDE DEF d, end
<1>4. host' \in Host BY <1>1, <1>2, <1>3 DEF Host, HostMode
<1>5. \A i \in n + 1 .. end : d[i] \in {P, U, NL} BY <1>2, <1>3, ElementOfSeq
<1>6. s \in Seq({P, U, NL}) BY <1>3, <1>5, SubSeqProperties
<1> HIDE DEF s
<1>7. \A j \in 1 .. Len(s) : s[j] \in {P, U, NL} BY <1>6, ElementOfSeq
<1>8. \A j \in 1 .. Len(s) : s[j].k # "update" BY <1>7, Pieces
<1>9. s \in Seq(Units)
  <2>1. {P, U, NL} \subseteq Units BY Pieces
  <2> QED BY <1>6, <2>1
<1> QED BY <1>1, <1>4, <1>8, <1>9, Written

\* A line of an answer is heard: another chunk is written, or nothing.
LEMMA HeardInv ==
  ASSUME Inv, UNCHANGED <<arrived, device>>, line' \in Seq(Symbol), inp' \in Seq(Symbol),
         line # <<>>, Heard(line)
  PROVE  Inv'
<1>1. host \in Host /\ host.n \in Nat /\ line[1] \in Symbol
  <2>1. line \in Seq(Symbol) /\ 1 \in 1 .. Len(line) BY EmptySeq DEF Inv, Typed
  <2> QED BY <2>1, ElementOfSeq DEF Inv, Typed, Host
<1>2. CASE SendChunk(0) \/ SendChunk(host.n) BY <1>1, <1>2, ChunkInv
<1>3. CASE Skip BY <1>1, <1>3, ReadOnly DEF Skip
<1>4. CASE Done(line[1])
  <2>1. host' \in Host BY <1>1, <1>4 DEF Done, Host, HostMode
  <2> QED BY <1>4, <2>1, ReadOnly DEF Done
<1>5. CASE host' = [host EXCEPT !.mode = "hex"] /\ UNCHANGED sent
  <2>1. host' \in Host BY <1>1, <1>5 DEF Host, HostMode
  <2> QED BY <1>5, <2>1, ReadOnly
<1>6. \/ SendChunk(0) \/ SendChunk(host.n) \/ Skip \/ Done(line[1])
      \/ host' = [host EXCEPT !.mode = "hex"] /\ UNCHANGED sent
  BY DEF Heard, HeardReady, HeardAck, HeardResult, HeardOne, HeardRows, HeardGet
<1> QED BY <1>2, <1>3, <1>4, <1>5, <1>6

\* The terminal reads a unit, or gives up, or is started again.
LEMMA TerminalInv == Inv /\ Terminal => Inv'
<1> SUFFICES ASSUME Inv, Terminal PROVE Inv' OBVIOUS
<1>1. host \in Host /\ inp \in Seq(Symbol) /\ line \in Seq(Symbol) /\ <<>> \in Seq(Symbol)
  BY EmptySeq DEF Inv, Typed
<1>2. ASSUME NEW k \in Kinds \ {"update"}, Type(k, <<>>) PROVE Inv'
  <2>1. <<>> \in Seq({P, U, NL}) BY EmptySeq
  <2> QED BY <1>2, <2>1, TypeInv
<1>3. ASSUME NEW d \in Contents, Type("update", d) PROVE Inv'
  <2>1. "update" \in Kinds BY DEF Kinds
  <2> QED BY <1>3, <2>1, TypeInv, ContentsAssumption
<1>4. CASE ReadUnit
  <2>1. inp # <<>> /\ inp' = Tail(inp) /\ UNCHANGED <<arrived, device>> BY <1>4 DEF ReadUnit
  <2>2. Head(inp) \in Symbol /\ inp' \in Seq(Symbol) BY <1>1, <2>1, HeadTailProperties
  <2>3. CASE Head(inp).t # "eol"
    <3>1. line' = Append(line, Head(inp)) /\ UNCHANGED <<host, sent>> BY <1>4, <2>3 DEF ReadUnit
    <3>2. line' \in Seq(Symbol) BY <1>1, <2>2, <3>1, AppendProperties
    <3> QED BY <1>1, <2>1, <2>2, <3>1, <3>2, ReadOnly
  <2>4. CASE Head(inp).t = "eol"
    <3>1. line' = <<>> BY <1>4, <2>4 DEF ReadUnit
    <3>2. CASE line = <<>>
      <4>1. UNCHANGED <<host, sent>> BY <1>4, <2>4, <3>2 DEF ReadUnit
      <4> QED BY <1>1, <2>1, <2>2, <3>1, <4>1, ReadOnly
    <3>3. CASE line # <<>>
      <4>1. Heard(line) BY <1>4, <2>4, <3>3 DEF ReadUnit
      <4> QED BY <1>1, <2>1, <2>2, <3>1, <3>3, <4>1, HeardInv
    <3> QED BY <3>2, <3>3
  <2> QED BY <2>3, <2>4
<1>5. CASE GiveUp
  <2>1. host' \in Host BY <1>1, <1>5 DEF GiveUp, Host, HostMode
  <2> QED BY <1>1, <1>5, <2>1, ReadOnly DEF GiveUp
<1>6. CASE Restart
  <2>1. Prompt \in Host
    BY EmptySeq DEF Prompt, NoAnswer, Host, HostMode, Symbol, Text
  <2>2. host' \in Host BY <1>1, <1>6, <2>1 DEF Restart, Host
  <2> QED BY <1>1, <1>6, <2>2, ReadOnly DEF Restart
<1> QED BY <1>2, <1>3, <1>4, <1>5, <1>6 DEF Terminal

-----------------------------------------------------------------------------
LEMMA NextInv == Inv /\ [Next]_vars => Inv'
<1> SUFFICES ASSUME Inv, [Next]_vars PROVE Inv' OBVIOUS
<1>1. CASE UNCHANGED vars
  <2>1. UNCHANGED <<sent, arrived, device, host, line, inp>> BY <1>1 DEF vars, terminal
  <2> QED BY <2>1, ReadOnly DEF Inv, Typed
<1>2. CASE Next BY <1>2, DeviceInv, TransportInv, TerminalInv DEF Next
<1> QED BY <1>1, <1>2

LEMMA Inductive == Spec => []Inv
  BY InitInv, NextInv, PTL DEF Spec

\* The buffers hold what their sizes allow, whatever the terminal sends: the line buffer
\* keeps a place for its final 0, and an update reads no more than it was told to.
THEOREM LineTypeOK == Spec => []TypeOK
<1>1. Inv => TypeOK
  <2> SUFFICES ASSUME Inv PROVE TypeOK OBVIOUS
  <2>1. HostMode \subseteq {"idle", "result", "ack", "hex"} \cup {FirstWait[k] : k \in Kinds}
    BY DEF HostMode, FirstWait, Kinds
  <2>2. host.mode \in HostMode BY DEF Inv, Typed, Host
  <2>3. dev.mode \in {"command", "payload", "flush"} BY DEF Inv, Typed, Dev
  <2> QED BY <2>1, <2>2, <2>3 DEF Inv, Wire, Room, Reading, Uploading, TypeOK
<1> QED BY <1>1, Inductive, PTL

\* Three sequences, one behind the other: the grouping does not matter. Said of Cat, so that nothing else
\* about sequences comes into a step that only regroups.
Cat(a, b) == a \o b

LEMMA Regrouped ==
  ASSUME NEW a \in Seq(Symbol), NEW b \in Seq(Symbol), NEW d \in Seq(Symbol)
  PROVE  Cat(a, Cat(b, d)) = Cat(Cat(a, b), d)
BY ConcatAssociative, SMTT(40) DEF Cat

\* What the ring holds stays in front of what joins it.
LEMMA FrontStays ==
  ASSUME NEW a \in Seq(Symbol), NEW b \in Seq(Symbol)
  PROVE  IsPrefix(a, a) /\ IsPrefix(a, a \o b)
<1>1. Len(a) \in Nat /\ Len(b) \in Nat /\ Len(a \o b) = Len(a) + Len(b) BY ConcatProperties
<1>2. SubSeq(a \o b, 1, Len(a)) = a BY SubSeqOfConcat1, <1>1
<1>3. SubSeq(a, 1, Len(a)) = a BY SubSeqFull
<1> QED BY <1>1, <1>2, <1>3 DEF IsPrefix

\* An answer joins the ring, or found more than TX_KEEP in it.
Joins(r) == IsPrefix(tx.ring, r.ring) \/ Len(tx.ring) + 2 > TX_KEEP

LEMMA BeginJoins ==
  ASSUME Inv, NEW t \in Text, NEW i \in Nat
  PROVE  Joins(Begin(tx, t, i))
<1>1. tx \in Ring /\ tx.ring \in Seq(Symbol) /\ Len(tx.ring) \in Nat BY DEF Inv, Typed, Ring
<1>2. CASE Len(tx.ring) <= TX_KEEP
  <2>1. Begin(tx, t, i).ring = tx.ring \o AnswerLine(t, i) BY <1>1, <1>2, OneLineFits
  <2> QED BY <1>1, <2>1, AnswerLineIs, FrontStays DEF Joins
<1> QED BY <1>1, <1>2, BufferAssumption DEF Joins

\* The last line of an answer of two.
LEMMA StoreJoins ==
  ASSUME Inv, NEW r \in Ring, NEW b, NEW i \in Nat, Store(r, b, i),
         \/ r = tx
         \/ \E t \in Text, j \in Nat : r = Begin(tx, t, j)
  PROVE  Joins(tx')
<1>1. tx \in Ring /\ tx.ring \in Seq(Symbol) /\ Len(tx.ring) \in Nat BY DEF Inv, Typed, Ring
<1>2. PICK u \in {"OK", "ERR"} : tx' = Begin(r, u, i) BY DEF Store
<1>3. u \in Text BY DEF Text
<1>4. CASE r = tx BY <1>2, <1>3, <1>4, BeginJoins
<1>5. ASSUME NEW t \in Text, NEW j \in Nat, r = Begin(tx, t, j) PROVE Joins(tx')
  <2> DEFINE first == AnswerLine(t, j)
             last  == AnswerLine(u, i)
  <2>1. first \in Seq(Symbol) /\ Len(first) = 2 /\ last \in Seq(Symbol)
    BY <1>3, AnswerLineIs
  <2>2. CASE Len(tx.ring) + 2 > TX_KEEP BY <2>2 DEF Joins
  <2>3. CASE Len(tx.ring) + 2 <= TX_KEEP
    <3>1. Len(tx.ring) <= TX_KEEP BY <1>1, <2>3, BufferAssumption
    <3>2. r.ring = tx.ring \o first BY <1>1, <1>5, <3>1, OneLineFits
    <3> HIDE DEF first
    <3>3. Len(r.ring) <= TX_KEEP
      <4>1. Len(r.ring) = Len(tx.ring) + Len(first) BY <1>1, <2>1, <3>2, ConcatProperties
      <4> QED BY <2>1, <2>3, <4>1
    <3>4. tx'.ring = r.ring \o last BY <1>2, <1>3, <3>3, OneLineFits
    <3> HIDE DEF last
    <3>5. tx'.ring = tx.ring \o (first \o last)
      <4>1. Cat(tx.ring, Cat(first, last)) = Cat(Cat(tx.ring, first), last)
        BY <1>1, <2>1, Regrouped
      <4>2. tx.ring \o (first \o last) = (tx.ring \o first) \o last BY <4>1 DEF Cat
      <4> QED BY <3>2, <3>4, <4>2
    <3>6. first \o last \in Seq(Symbol) BY <2>1, ConcatProperties
    <3> QED BY <1>1, <3>5, <3>6, FrontStays DEF Joins
  <2> QED BY <1>1, <2>2, <2>3, BufferAssumption
<1> QED BY <1>4, <1>5

LEMMA CommandJoins == Inv /\ Command => Joins(tx')
<1> SUFFICES ASSUME Inv, Command PROVE Joins(tx') OBVIOUS
<1>1. PICK k \in DOMAIN Answers :
        Served(k) /\ \E a \in Answers[k] : tx' = txPut(txBegin(tx), AnswerLines(a, Told))
  BY DEF Command
<1>2. PICK a \in Answers[k] : tx' = txPut(txBegin(tx), AnswerLines(a, Told)) BY <1>1
<1> DEFINE b == txBegin(tx)
           s == AnswerLines(a, Told)
<1>3. tx \in Ring /\ tx.ring \in Seq(Symbol) /\ Len(tx.ring) \in Nat BY DEF Inv, Typed, Ring
<1>4. Told \in Nat BY <1>1, ServedIs
<1>5. s \in Seq(Symbol) /\ Len(s) <= 6 BY <1>4, AnswersFit
<1>6. /\ b \in Ring /\ b.over = FALSE /\ Len(b.ring) <= TX_KEEP
      /\ Len(tx.ring) <= TX_KEEP => b.ring = tx.ring
  BY <1>3, BeginIs
<1>7. tx' = txPut(b, s) BY <1>2
<1> HIDE DEF b, s
<1>8. Len(b.ring) \in Nat /\ Len(s) \in Nat BY <1>5, <1>6 DEF Ring
<1>9. Len(b.ring) + Len(s) < TX_RING BY <1>5, <1>6, <1>8, RingAssumption, BufferAssumption
<1>10. tx'.ring = b.ring \o s BY <1>5, <1>6, <1>7, <1>9, PutFits
<1>11. CASE Len(tx.ring) <= TX_KEEP BY <1>3, <1>5, <1>6, <1>10, <1>11, FrontStays DEF Joins
<1> QED BY <1>3, <1>11, BufferAssumption DEF Joins

LEMMA UpdateJoins == Inv /\ (handleUpdate \/ PayloadByte) => Joins(tx')
<1> SUFFICES ASSUME Inv, handleUpdate \/ PayloadByte PROVE Joins(tx') OBVIOUS
<1>1. "RDY" \in Text /\ "ACK" \in Text BY DEF Text
<1>2. tx \in Ring /\ tx.ring \in Seq(Symbol) /\ dev.id \in Nat BY DEF Inv, Typed, Ring, Dev
<1>3. IsPrefix(tx.ring, tx.ring) BY <1>2, EmptySeq, FrontStays
<1>4. CASE handleUpdate
  <2> DEFINE r == Begin(tx, "RDY", Told)
  <2>1. Told \in Nat BY <1>4, ServedIs DEF handleUpdate
  <2>2. r \in Ring BY <1>1, <1>2, <2>1, OneLineFits
  <2>3. Store(r, <<>>, Told) \/ tx' = r BY <1>4 DEF handleUpdate
  <2>4. \E t \in Text, j \in Nat : r = Begin(tx, t, j) BY <1>1, <2>1
  <2>5. Joins(r) BY <1>1, <2>1, BeginJoins
  <2> HIDE DEF r
  <2> QED BY <2>1, <2>2, <2>3, <2>4, <2>5, StoreJoins
<1>5. CASE PayloadByte
  <2> DEFINE b == Append(dev.upBuf, c)
             acked == Len(b) = dev.len \/ Len(b) % UART_CHUNK = 0
             r == IF acked THEN Begin(tx, "ACK", dev.id) ELSE tx
  <2>1. Store(r, b, dev.id) \/ tx' = r BY <1>5 DEF PayloadByte
  <2>2. r \in Ring BY <1>1, <1>2, OneLineFits
  <2>3. r = tx \/ \E t \in Text, j \in Nat : r = Begin(tx, t, j) BY <1>1, <1>2
  <2>4. Joins(r) BY <1>1, <1>2, <1>3, BeginJoins DEF Joins
  <2> HIDE DEF r, b
  <2> QED BY <1>2, <2>1, <2>2, <2>3, <2>4, StoreJoins
<1> QED BY <1>4, <1>5

\* Lines that are refused, and a payload that stops coming.
LEMMA ErrorJoins == Inv /\ (UnknownLine \/ UpdateRefused \/ PayloadTimeout) => Joins(tx')
<1> SUFFICES ASSUME Inv, UnknownLine \/ UpdateRefused \/ PayloadTimeout PROVE Joins(tx')
  OBVIOUS
<1>1. "ERR" \in Text BY DEF Text
<1>2. tx \in Ring /\ tx.ring \in Seq(Symbol) /\ dev.id \in Nat BY DEF Inv, Typed, Ring, Dev
<1>3. CASE UpdateRefused
  <2>1. Told \in Nat BY <1>3, ServedIs DEF UpdateRefused
  <2> QED BY <1>1, <1>3, <2>1, BeginJoins DEF UpdateRefused
<1>4. CASE UnknownLine
  <2>1. dev.cmdBuf \in Seq(Units) /\ dev.cmdBuf # <<>>
    BY <1>4, ServedIs DEF UnknownLine, Inv, Typed, Dev
  <2>2. Len(dev.cmdBuf) \in 1 .. Len(dev.cmdBuf) BY <2>1, EmptySeq
  <2>3. Last(dev.cmdBuf) \in Units BY <2>1, <2>2, ElementOfSeq DEF Last
  <2>4. Last(dev.cmdBuf).id \in Nat BY <2>3 DEF Units
  <2> QED BY <1>1, <1>4, <2>4, BeginJoins DEF UnknownLine
<1>5. CASE PayloadTimeout
  <2> DEFINE s == AnswerLine("ERR", dev.id)
  <2>1. Len(tx.ring) <= TX_KEEP + 2 /\ tx.over = FALSE BY <1>5 DEF PayloadTimeout, Inv, Room
  <2>2. s \in Seq(Symbol) /\ Len(s) = 2 BY <1>1, <1>2, AnswerLineIs
  <2>3. tx' = txPut(tx, s) BY <1>5 DEF PayloadTimeout, Put
  <2> HIDE DEF s
  <2>4. Len(tx.ring) + Len(s) < TX_RING BY <1>2, <2>1, <2>2, SmallRing
  <2>5. tx'.ring = tx.ring \o s BY <1>2, <2>1, <2>2, <2>3, <2>4, PutFits
  <2> QED BY <1>2, <2>2, <2>5, FrontStays DEF Joins
<1> QED BY <1>3, <1>4, <1>5

LEMMA NextJoins == Inv /\ [Next]_vars => Joins(tx') \/ tx'.ring = Tail(tx.ring)
<1> SUFFICES ASSUME Inv, [Next]_vars PROVE Joins(tx') \/ tx'.ring = Tail(tx.ring) OBVIOUS
<1>1. CASE tx' = tx
  <2>1. tx.ring \in Seq(Symbol) BY DEF Inv, Typed, Ring
  <2> QED BY <1>1, <2>1, EmptySeq, FrontStays DEF Joins
<1>2. CASE Device
  <2>1. CASE PollChar \/ BlankLine \/ GarbledLine \/ FlushByte \/ FlushEnd
    <3>1. tx' = tx BY <2>1 DEF PollChar, BlankLine, GarbledLine, FlushByte, FlushEnd
    <3> QED BY <1>1, <3>1
  <2> QED BY <1>2, <2>1, CommandJoins, UpdateJoins, ErrorJoins DEF Device
<1>3. CASE txDrain
  <2>1. tx \in Ring BY DEF Inv, Typed
  <2> QED BY <1>3, <2>1 DEF txDrain, Ring
<1>4. CASE UNCHANGED vars \/ Arrive \/ Terminal
  <2>1. tx' = tx
    BY <1>4 DEF vars, device, Arrive, Terminal, Type, ReadUnit, GiveUp, Restart
  <2> QED BY <1>1, <2>1
<1> QED BY <1>2, <1>3, <1>4 DEF Next

\* The ring's end cuts no answer, and the ring loses nothing but what is sent, and a
\* backlog past TX_KEEP when a later command begins.
THEOREM OnlyBacklogDropped == Spec => OnlyBacklogIsDropped
<1>1. Inv /\ Inv' /\ [Next]_vars =>
        [/\ ~tx'.over
         /\ \/ IsPrefix(tx.ring, tx'.ring)
            \/ tx'.ring = Tail(tx.ring)
            \/ Len(tx.ring) + 2 > TX_KEEP]_vars
  BY NextJoins DEF Joins, Inv, Room
<1> QED BY <1>1, Inductive, PTL DEF Spec, OnlyBacklogIsDropped

\* The file an update leaves is one piece of what the terminal wrote behind the line of
\* an update, as long as that line says: attempts are never mixed.
THEOREM WholeFiles == Spec => []NeverSpliced
<1>1. Inv => NeverSpliced
  <2> SUFFICES ASSUME Inv PROVE NeverSpliced OBVIOUS
  <2>1. DOMAIN sent = 1 .. Len(sent) BY DEF Inv, Wire
  <2> QED BY <2>1 DEF Inv, Whole, Piece, NeverSpliced
<1> QED BY <1>1, Inductive, PTL

-----------------------------------------------------------------------------
(***************************************************************************)
(* A command typed on a quiet line.  Coming is what the host has not heard *)
(* yet of what the device said; Base is how much was on the wire before    *)
(* the command.  The exchange is live from the command to the next.        *)
(***************************************************************************)
Coming     == line \o (inp \o tx.ring)
Base       == Len(sent) - host.n - 2
Own(t)     == [t |-> t, id |-> host.id]
Eol        == [t |-> "eol", id |-> 0]
Says(i, t) == Coming[i] = Own(t) /\ Coming[i + 1] = Eol
Live       == host.quiet /\ (host.mode # "idle" \/ host.told # NoAnswer)

Reads ==
  /\ host.mode = "idle" => line = <<>>
  /\ host.mode # "idle" => host.told = NoAnswer
  /\ \A i \in 1 .. Len(line) : line[i].t # "eol"

\* The command and what was sent of its file are all there is behind Base.
Requested ==
  /\ host.kind \in Kinds /\ (host.kind # "update" => host.data = <<>>)
  /\ host.n <= Len(host.data) /\ 0 <= Base
  /\ sent[Base + 1] = Unit(host.kind, Len(host.data), host.id) /\ sent[Base + 2] = NL
  /\ \A j \in 1 .. host.n : sent[Base + 2 + j] = host.data[j]

\* The device has not served the command.
NoneYet ==
  /\ dev.mode = "command" /\ Len(Coming) = 0 /\ host.n = 0
  /\ host.mode = FirstWait[host.kind]
  /\ \/ pos = Base /\ dev.cmdBuf = <<>>
     \/ pos = Base + 1 /\ dev.cmdBuf = <<sent[Base + 1]>>

\* It awaits the file.  The host has to read the acknowledgement of the last chunk, or
\* the device the rest of a chunk: it acknowledges where the host ended it.
Chunk(k) ==
  /\ k < host.n /\ host.n - k <= UART_CHUNK
  /\ host.n = Len(host.data) \/ host.n % UART_CHUNK = 0
  /\ \A j \in k + 1 .. host.n - 1 : j % UART_CHUNK # 0
Await(k) ==
  \/ host.mode = "rdy" /\ host.n = 0 /\ Len(Coming) = 2 /\ Says(1, "RDY")
  \/ host.mode = "ack" /\ Len(Coming) = 0 /\ Chunk(k)
  \/ /\ host.mode = "ack" /\ k = host.n /\ k % UART_CHUNK = 0
     /\ Len(Coming) = 2 /\ Says(1, "ACK")
Receiving ==
  /\ host.kind = "update" /\ dev.mode = "payload" /\ dev.id = host.id
  /\ dev.len = Len(host.data) /\ pos = Base + 2 + Len(dev.upBuf)
  /\ \A j \in 1 .. Len(dev.upBuf) : dev.upBuf[j] = host.data[j]
  /\ Await(Len(dev.upBuf))

\* The device has served the update.  What follows its result are the errors of a chunk
\* that came too late, at most a line for every two units.
AtEnd == pos = Len(sent) /\ dev.cmdBuf = <<>>
Left  == Len(Coming) + Len(dev.cmdBuf) + (Len(sent) - pos)
Final(t) ==
  /\ host.mode \in {"ack", "result"} /\ (t = "OK" => host.mode = "result")
  /\ 2 <= Len(Coming) /\ Says(1, t) /\ Left <= 2 + UART_CHUNK
Outcome(t) ==
  \/ /\ host.mode = "rdy" /\ host.n = 0 /\ AtEnd /\ (t = "OK" => host.data = <<>>)
     /\ Len(Coming) = 4 /\ Says(1, "RDY") /\ Says(3, t)
  \/ /\ host.mode = "ack" /\ AtEnd /\ (t = "OK" => host.n = Len(host.data))
     /\ Len(Coming) = 4 /\ Says(1, "ACK") /\ Says(3, t)
  \/ Final(t)
Result == \E t \in {"OK", "ERR"} : (t = "OK" => stored = host.data) /\ Outcome(t)
Mine(x) == x.t = "eol" \/ x.id = host.id
Answer ==
  /\ host.mode # "idle" /\ host.kind = "update" => Result
  /\ host.mode # "idle" /\ host.kind # "update" =>
       \A i \in 1 .. Len(Coming) : Mine(Coming[i])
  /\ host.mode = "idle" =>
       host.told.id = host.id /\ (host.kind = "update" /\ host.told.t = "OK" => stored = host.data)
Answered ==
  /\ Base + 2 <= pos /\ dev.mode # "payload"
  /\ \A j \in 1 .. Len(dev.cmdBuf) : dev.cmdBuf[j].k \in {"p", "u"}
  /\ Answer

Exchange == Reads /\ (Live => Requested /\ (NoneYet \/ Receiving \/ Answered))

-----------------------------------------------------------------------------
\* Two sequences of symbols, one behind the other.
LEMMA Joined ==
  ASSUME NEW a \in Seq(Symbol), NEW b \in Seq(Symbol)
  PROVE  /\ a \o b \in Seq(Symbol) /\ Len(a \o b) = Len(a) + Len(b)
         /\ \A i \in 1 .. Len(a) : (a \o b)[i] = a[i]
         /\ \A i \in 1 .. Len(b) : (a \o b)[Len(a) + i] = b[i]
OBVIOUS

\* The head of the second sequence goes to the end of the first.
LEMMA Passed ==
  ASSUME NEW a \in Seq(Symbol), NEW b \in Seq(Symbol), b # <<>>
  PROVE  Append(a, Head(b)) \o Tail(b) = a \o b
<1>1. /\ Head(b) \in Symbol /\ Tail(b) \in Seq(Symbol) /\ Len(Tail(b)) = Len(b) - 1
      /\ Head(b) = b[1] /\ \A i \in 1 .. Len(Tail(b)) : Tail(b)[i] = b[i + 1]
  BY HeadTailProperties
<1>2. /\ Append(a, Head(b)) \in Seq(Symbol) /\ Len(Append(a, Head(b))) = Len(a) + 1
      /\ \A i \in 1 .. Len(a) : Append(a, Head(b))[i] = a[i]
      /\ Append(a, Head(b))[Len(a) + 1] = b[1]
  BY <1>1, AppendProperties
<1> DEFINE x == Append(a, Head(b))
           y == Tail(b)
           l == x \o y
           r == a \o b
<1>3. Len(a) \in Nat /\ Len(b) \in Nat OBVIOUS
<1>4. /\ l \in Seq(Symbol) /\ Len(l) = Len(x) + Len(y)
      /\ \A i \in 1 .. Len(x) : l[i] = x[i]
      /\ \A i \in 1 .. Len(y) : l[Len(x) + i] = y[i]
  <2> HIDE DEF x, y
  <2>1. x \in Seq(Symbol) /\ y \in Seq(Symbol) BY <1>1, <1>2 DEF x, y
  <2> QED BY <2>1, Joined
<1>5. /\ r \in Seq(Symbol) /\ Len(r) = Len(a) + Len(b)
      /\ \A i \in 1 .. Len(a) : r[i] = a[i]
      /\ \A i \in 1 .. Len(b) : r[Len(a) + i] = b[i]
  BY Joined
<1>6. Len(x) = Len(a) + 1 /\ Len(y) = Len(b) - 1 BY <1>1, <1>2
<1>7. /\ \A i \in 1 .. Len(a) : x[i] = a[i]
      /\ x[Len(a) + 1] = b[1]
      /\ \A i \in 1 .. Len(b) - 1 : y[i] = b[i + 1]
  BY <1>1, <1>2
<1> HIDE DEF x, y, l, r
<1>8. Len(l) = Len(r) BY <1>3, <1>4, <1>5, <1>6
<1>9. ASSUME NEW i \in 1 .. Len(r) PROVE l[i] = r[i]
  <2>1. CASE i <= Len(a)
    <3>1. i \in 1 .. Len(a) /\ i \in 1 .. Len(x) BY <1>3, <1>6, <2>1
    <3> QED BY <1>4, <1>5, <1>7, <3>1
  <2>2. CASE i = Len(a) + 1
    <3>1. i \in 1 .. Len(x) /\ 1 \in 1 .. Len(b) BY <1>3, <1>5, <1>6, <2>2
    <3>2. l[i] = b[1] BY <1>4, <1>7, <2>2, <3>1
    <3>3. r[Len(a) + 1] = b[1] BY <1>5, <3>1
    <3> QED BY <2>2, <3>2, <3>3
  <2>3. CASE i > Len(a) + 1
    <3> DEFINE j == i - Len(a) - 1
    <3>1. /\ j \in 1 .. Len(b) - 1 /\ j \in 1 .. Len(y) /\ j + 1 \in 1 .. Len(b)
          /\ i = Len(x) + j /\ i = Len(a) + (j + 1)
      BY <1>3, <1>5, <1>6, <2>3
    <3> HIDE DEF j
    <3>2. l[i] = y[j] /\ y[j] = b[j + 1] BY <1>4, <1>7, <3>1
    <3>3. r[i] = b[j + 1] BY <1>5, <3>1
    <3> QED BY <3>2, <3>3
  <2>4. i \in Int /\ Len(a) \in Int BY <1>3, <1>5
  <2>5. i <= Len(a) \/ i = Len(a) + 1 \/ i > Len(a) + 1 BY <2>4
  <2> QED BY <2>1, <2>2, <2>3, <2>5
<1>10. l = r BY <1>4, <1>5, <1>8, <1>9, SeqEqual
<1> QED BY <1>10 DEF l, r, x, y

\* What is coming is a sequence of symbols.
LEMMA ComingIs ==
  ASSUME Typed
  PROVE  /\ inp \in Seq(Symbol) /\ line \in Seq(Symbol) /\ tx.ring \in Seq(Symbol)
         /\ inp \o tx.ring \in Seq(Symbol) /\ Coming \in Seq(Symbol)
         /\ Len(inp \o tx.ring) = Len(inp) + Len(tx.ring)
         /\ Len(Coming) = Len(line) + (Len(inp) + Len(tx.ring))
         /\ \A i \in 1 .. Len(line) : Coming[i] = line[i]
         /\ \A i \in 1 .. Len(inp \o tx.ring) : Coming[Len(line) + i] = (inp \o tx.ring)[i]
<1>1. inp \in Seq(Symbol) /\ line \in Seq(Symbol) /\ tx.ring \in Seq(Symbol) BY DEF Typed, Ring
<1> DEFINE y == inp \o tx.ring
<1>2. y \in Seq(Symbol) /\ Len(y) = Len(inp) + Len(tx.ring) BY <1>1, Joined
<1> HIDE DEF y
<1>3. /\ line \o y \in Seq(Symbol) /\ Len(line \o y) = Len(line) + Len(y)
      /\ \A i \in 1 .. Len(line) : (line \o y)[i] = line[i]
      /\ \A i \in 1 .. Len(y) : (line \o y)[Len(line) + i] = y[i]
  BY <1>1, <1>2, Joined
<1>4. Coming = line \o y BY DEF Coming, y
<1> QED BY <1>1, <1>2, <1>3, <1>4 DEF y

\* What the ring passes on is still to be heard.
LEMMA DrainKeeps ==
  ASSUME Typed, txDrain
  PROVE  Coming' = Coming
<1>1. inp \in Seq(Symbol) /\ line \in Seq(Symbol) /\ tx.ring \in Seq(Symbol) BY ComingIs
<1>2. tx.ring # <<>> /\ inp' = Append(inp, Head(tx.ring)) /\ line' = line
  BY DEF txDrain, terminal
<1>3. tx'.ring = Tail(tx.ring) BY DEF txDrain, Typed, Ring
<1>4. inp' \o tx'.ring = inp \o tx.ring BY <1>1, <1>2, <1>3, Passed
<1> QED BY <1>2, <1>4 DEF Coming

\* So is what the host has read of a line.
LEMMA ReadKeeps ==
  ASSUME Typed, inp # <<>>, inp' = Tail(inp), line' = Append(line, Head(inp)), tx' = tx
  PROVE  Coming' = Coming
<1>1. inp \in Seq(Symbol) /\ line \in Seq(Symbol) /\ tx.ring \in Seq(Symbol) BY ComingIs
<1>2. line' \o inp' = line \o inp BY <1>1, Passed
<1>3. inp' \in Seq(Symbol) /\ line' \in Seq(Symbol)
  BY <1>1, HeadTailProperties, AppendProperties
<1>4. Cat(line', Cat(inp', tx.ring)) = Cat(Cat(line', inp'), tx.ring)
  <2>1. ASSUME NEW a \in Seq(Symbol), NEW b \in Seq(Symbol)
        PROVE  Cat(a, Cat(b, tx.ring)) = Cat(Cat(a, b), tx.ring)
    BY <1>1, Regrouped
  <2> QED BY <1>3, <2>1, Zenon
<1>5. Cat(line, Cat(inp, tx.ring)) = Cat(Cat(line, inp), tx.ring) BY <1>1, Regrouped
<1> QED BY <1>2, <1>4, <1>5 DEF Coming, Cat

\* What the device says comes behind the rest.
LEMMA PutComes ==
  ASSUME Typed, UNCHANGED <<line, inp>>, NEW s \in Seq(Symbol), tx'.ring = tx.ring \o s
  PROVE  Coming' = Coming \o s
<1>1. /\ inp \in Seq(Symbol) /\ line \in Seq(Symbol) /\ tx.ring \in Seq(Symbol)
      /\ Cat(inp, tx.ring) \in Seq(Symbol)
  BY ComingIs DEF Cat
<1>2. Cat(inp, Cat(tx.ring, s)) = Cat(Cat(inp, tx.ring), s) BY <1>1, Regrouped
<1>3. Cat(line, Cat(Cat(inp, tx.ring), s)) = Cat(Cat(line, Cat(inp, tx.ring)), s)
  BY <1>1, Regrouped
<1> QED BY <1>2, <1>3 DEF Coming, Cat

\* A line behind a sequence of symbols.
LEMMA LineAdded ==
  ASSUME NEW q \in Seq(Symbol), NEW t \in Text, NEW i \in Nat
  PROVE  /\ Cat(q, AnswerLine(t, i)) \in Seq(Symbol)
         /\ Len(Cat(q, AnswerLine(t, i))) = Len(q) + 2
         /\ \A j \in 1 .. Len(q) : Cat(q, AnswerLine(t, i))[j] = q[j]
         /\ Cat(q, AnswerLine(t, i))[Len(q) + 1] = [t |-> t, id |-> i]
         /\ Cat(q, AnswerLine(t, i))[Len(q) + 2] = Eol
<1> DEFINE a == AnswerLine(t, i)
<1>1. a \in Seq(Symbol) /\ Len(a) = 2 BY AnswerLineIs
<1>2. a[1] = [t |-> t, id |-> i] /\ a[2] = Eol BY DEF AnswerLine, Eol
<1> HIDE DEF a
<1>3. /\ q \o a \in Seq(Symbol) /\ Len(q \o a) = Len(q) + Len(a)
      /\ \A j \in 1 .. Len(q) : (q \o a)[j] = q[j]
      /\ \A j \in 1 .. Len(a) : (q \o a)[Len(q) + j] = a[j]
  BY <1>1, Joined
<1>4. 1 \in 1 .. Len(a) /\ 2 \in 1 .. Len(a) BY <1>1
<1> QED BY <1>1, <1>2, <1>3, <1>4 DEF a, Cat

\* The device says a line: two symbols, behind the rest.
LEMMA LineComes ==
  ASSUME Typed, UNCHANGED <<line, inp>>, NEW t \in Text, NEW i \in Nat,
         tx'.ring = tx.ring \o AnswerLine(t, i)
  PROVE  /\ Len(Coming') = Len(Coming) + 2
         /\ \A j \in 1 .. Len(Coming) : Coming'[j] = Coming[j]
         /\ Coming'[Len(Coming) + 1] = [t |-> t, id |-> i] /\ Coming'[Len(Coming) + 2] = Eol
<1>1. AnswerLine(t, i) \in Seq(Symbol) BY AnswerLineIs
<1>2. Coming' = Coming \o AnswerLine(t, i) BY <1>1, PutComes
<1>3. Coming \in Seq(Symbol) BY ComingIs
<1> QED BY <1>2, <1>3, LineAdded DEF Cat

\* It says two lines where nothing was left.
LEMMA TwoLinesCome ==
  ASSUME Typed, UNCHANGED <<line, inp>>, Len(Coming) = 0,
         NEW t \in Text, NEW u \in Text, NEW i \in Nat,
         tx'.ring = (tx.ring \o AnswerLine(t, i)) \o AnswerLine(u, i)
  PROVE  /\ Len(Coming') = 4
         /\ Coming'[1] = [t |-> t, id |-> i] /\ Coming'[2] = Eol
         /\ Coming'[3] = [t |-> u, id |-> i] /\ Coming'[4] = Eol
<1> DEFINE a == AnswerLine(t, i)
           b == AnswerLine(u, i)
<1>1. a \in Seq(Symbol) /\ b \in Seq(Symbol) BY AnswerLineIs
<1>2. tx.ring \in Seq(Symbol) /\ Coming \in Seq(Symbol) BY ComingIs
<1>3. a \o b \in Seq(Symbol) BY <1>1, Joined
<1> HIDE DEF a, b, Coming
<1>4. Cat(Cat(tx.ring, a), b) = Cat(tx.ring, Cat(a, b)) BY <1>1, <1>2, Regrouped
<1>5. Coming' = Coming \o (a \o b) BY <1>3, <1>4, PutComes DEF a, b, Cat
<1>6. Cat(Coming, Cat(a, b)) = Cat(Cat(Coming, a), b) BY <1>1, <1>2, Regrouped
<1> DEFINE q == Cat(Coming, a)
<1>7. q \in Seq(Symbol) /\ Len(q) = 2 /\ q[1] = [t |-> t, id |-> i] /\ q[2] = Eol
  <2>1. /\ q \in Seq(Symbol) /\ Len(q) = Len(Coming) + 2
        /\ q[Len(Coming) + 1] = [t |-> t, id |-> i] /\ q[Len(Coming) + 2] = Eol
    BY ONLY <1>2, t \in Text, i \in Nat, LineAdded, SMTT(30) DEF a
  <2> HIDE DEF q
  <2> QED BY <2>1
<1> HIDE DEF q
<1>8. /\ Len(Cat(q, b)) = 4 /\ Cat(q, b)[1] = q[1] /\ Cat(q, b)[2] = q[2]
      /\ Cat(q, b)[3] = [t |-> u, id |-> i] /\ Cat(q, b)[4] = Eol
  <2>1. /\ Len(Cat(q, b)) = Len(q) + 2
        /\ \A j \in 1 .. Len(q) : Cat(q, b)[j] = q[j]
        /\ Cat(q, b)[Len(q) + 1] = [t |-> u, id |-> i] /\ Cat(q, b)[Len(q) + 2] = Eol
    <3>1. q \in Seq(Symbol) BY <1>7
    <3> QED BY ONLY <3>1, u \in Text, i \in Nat, LineAdded, SMTT(30) DEF b
  <2> QED BY <1>7, <2>1
<1>9. Coming' = Cat(q, b) BY <1>5, <1>6 DEF q, Cat
<1> QED BY <1>7, <1>8, <1>9

\* The end of a line is read.
LEMMA EolRead ==
  ASSUME Typed, Reads, inp # <<>>, Head(inp).t = "eol", inp' = Tail(inp), line' = <<>>, tx' = tx
  PROVE  /\ Len(Coming') \in Nat /\ Len(Coming') = Len(Coming) - Len(line) - 1
         /\ \A i \in 1 .. Len(Coming') : Coming'[i] = Coming[Len(line) + 1 + i]
         /\ \A i \in 1 .. Len(line) : Coming[i] = line[i]
         /\ Len(line) + 1 \in 1 .. Len(Coming) /\ Coming[Len(line) + 1].t = "eol"
<1>1. inp \in Seq(Symbol) /\ line \in Seq(Symbol) /\ tx.ring \in Seq(Symbol) BY ComingIs
<1>2. Len(inp) \in Nat /\ Len(line) \in Nat /\ Len(tx.ring) \in Nat /\ Len(inp) # 0
  BY <1>1, EmptySeq
<1>3. /\ inp' \in Seq(Symbol) /\ Len(inp') = Len(inp) - 1 /\ Head(inp) = inp[1]
  BY <1>1, HeadTailProperties
<1> DEFINE y == inp \o tx.ring
           z == inp' \o tx.ring
<1>4. /\ y \in Seq(Symbol) /\ Len(y) = Len(inp) + Len(tx.ring)
      /\ \A i \in 1 .. Len(inp) : y[i] = inp[i]
      /\ \A i \in 1 .. Len(tx.ring) : y[Len(inp) + i] = tx.ring[i]
  BY <1>1, Joined
<1>5. /\ z \in Seq(Symbol) /\ Len(z) = Len(inp') + Len(tx.ring)
      /\ \A i \in 1 .. Len(inp') : z[i] = inp'[i]
      /\ \A i \in 1 .. Len(tx.ring) : z[Len(inp') + i] = tx.ring[i]
  BY <1>1, <1>3, Joined
<1>6. \A i \in 1 .. Len(inp) - 1 : inp'[i] = inp[i + 1] BY <1>1, <1>3, HeadTailProperties
<1>7. /\ Len(Coming) = Len(line) + Len(y)
      /\ \A i \in 1 .. Len(line) : Coming[i] = line[i]
      /\ \A i \in 1 .. Len(y) : Coming[Len(line) + i] = y[i]
  BY ComingIs
<1>8. Coming' = z
  <2>1. Coming' = <<>> \o z BY DEF Coming
  <2> HIDE DEF z
  <2> QED BY <1>5, <2>1, ConcatEmptySeq
<1> HIDE DEF y, z, Coming
<1>9. Len(z) = Len(y) - 1 BY <1>2, <1>3, <1>4, <1>5
<1>10. ASSUME NEW i \in 1 .. Len(z) PROVE z[i] = y[i + 1]
  <2>1. CASE i <= Len(inp) - 1
    <3>1. i \in 1 .. Len(inp) - 1 /\ i \in 1 .. Len(inp') /\ i + 1 \in 1 .. Len(inp)
      BY <1>2, <1>3, <2>1
    <3> QED BY <1>4, <1>5, <1>6, <3>1
  <2>2. CASE i > Len(inp) - 1
    <3> DEFINE j == i - (Len(inp) - 1)
    <3>1. j \in 1 .. Len(tx.ring) /\ i = Len(inp') + j /\ i + 1 = Len(inp) + j
      BY <1>2, <1>3, <1>5, <2>2
    <3> HIDE DEF j
    <3> QED BY <1>4, <1>5, <3>1
  <2> QED BY <1>2, <2>1, <2>2
<1>10a. Len(y) \in Nat BY <1>2, <1>4
<1>11. ASSUME NEW i \in 1 .. Len(z) PROVE z[i] = Coming[Len(line) + 1 + i]
  <2>1. i + 1 \in 1 .. Len(y) /\ Len(line) + 1 + i = Len(line) + (i + 1)
    BY <1>2, <1>9, <1>10a
  <2> QED BY <1>7, <1>10, <2>1
<1>12. Coming[Len(line) + 1].t = "eol" /\ Len(line) + 1 \in 1 .. Len(Coming)
  <2>1. 1 \in 1 .. Len(inp) /\ 1 \in 1 .. Len(y) BY <1>2, <1>4
  <2> QED BY <1>2, <1>3, <1>4, <1>7, <2>1, SMTT(20)
<1>13. Len(z) \in Nat /\ Len(z) = Len(Coming) - Len(line) - 1
  BY <1>2, <1>4, <1>5, <1>7, <1>9
<1> QED BY <1>7, <1>8, <1>11, <1>12, <1>13

\* The line that is read is the first one that is coming.
LEMMA FirstHeard ==
  ASSUME Typed, Reads, inp # <<>>, Head(inp).t = "eol", inp' = Tail(inp), line' = <<>>, tx' = tx,
         2 <= Len(Coming), NEW t \in Text \ {"eol"}, Says(1, t)
  PROVE  /\ line # <<>> /\ line[1] = Own(t) /\ Len(line) = 1
         /\ Len(Coming') = Len(Coming) - 2
         /\ \A i \in 1 .. Len(Coming') : Coming'[i] = Coming[i + 2]
<1>1. Coming[1] = Own(t) /\ Own(t).t = t /\ Coming[2] = Eol /\ Eol.t = "eol"
  BY DEF Says, Own, Eol
<1>2. /\ \A i \in 1 .. Len(line) : Coming[i] = line[i] /\ line[i].t # "eol"
      /\ Coming[Len(line) + 1].t = "eol" /\ Len(line) \in Nat
  BY EolRead, ComingIs DEF Reads
<1>3. Len(line) # 0 BY <1>1, <1>2
<1>4. Len(line) < 2 BY <1>1, <1>2
<1>5. Len(line) = 1
  <2>1. Len(line) \in Nat BY <1>2
  <2>2. \A n \in Nat : n # 0 /\ n < 2 => n = 1 OBVIOUS
  <2> QED BY <1>3, <1>4, <2>1, <2>2, Zenon
<1>6. line[1] = Own(t) BY <1>1, <1>2, <1>5
<1>7. line # <<>> BY <1>5, EmptySeq
<1>8. Len(Coming') = Len(Coming) - 2 BY <1>5, EolRead, ComingIs
<1>9. \A i \in 1 .. Len(Coming') : Coming'[i] = Coming[i + 2]
  <2> TAKE i \in 1 .. Len(Coming')
  <2>1. Coming'[i] = Coming[Len(line) + 1 + i] BY EolRead
  <2>2. Len(line) + 1 + i = i + 2 BY <1>5, EolRead
  <2> QED BY <2>1, <2>2
<1> QED BY <1>5, <1>6, <1>7, <1>8, <1>9

-----------------------------------------------------------------------------
\* A step that changes nothing of it.
LEMMA SameExchange ==
  ASSUME Exchange, UNCHANGED <<sent, pos, dev, stored, host>>, Coming' = Coming, Reads'
  PROVE  Exchange'
<1>1. Base' = Base /\ Live' = Live /\ Len(Coming') = Len(Coming) BY DEF Base, Live
<1>2. Requested' = Requested BY <1>1 DEF Requested
<1>3. ASSUME NEW i, NEW t PROVE Says(i, t)' = Says(i, t) BY DEF Says, Own, Eol
<1>4. NoneYet' = NoneYet BY <1>1 DEF NoneYet
<1>5. Receiving' = Receiving
  <2>1. ASSUME NEW k PROVE Await(k)' = Await(k) BY <1>1, <1>3 DEF Await, Chunk
  <2> QED BY <1>1, <2>1 DEF Receiving
<1>6. Answered' = Answered
  <2>1. ASSUME NEW t PROVE Outcome(t)' = Outcome(t) BY <1>1, <1>3 DEF Outcome, Final, AtEnd, Left
  <2>2. Result' = Result BY <2>1 DEF Result
  <2>3. Answer' = Answer BY <1>1, <2>2 DEF Answer, Mine
  <2> QED BY <1>1, <2>3 DEF Answered
<1> QED BY <1>1, <1>2, <1>4, <1>5, <1>6 DEF Exchange

\* Nothing is coming.
LEMMA Silent ==
  ASSUME Typed, Len(Coming) = 0
  PROVE  Len(tx.ring) = 0 /\ Len(line) = 0 /\ Len(inp) = 0 /\ inp = <<>> /\ Len(tx.ring) <= TX_KEEP
<1>1. inp \in Seq(Symbol) /\ line \in Seq(Symbol) /\ tx.ring \in Seq(Symbol) BY ComingIs
<1>2. Len(inp) \in Nat /\ Len(line) \in Nat /\ Len(tx.ring) \in Nat BY <1>1
<1>3. Len(line) + (Len(inp) + Len(tx.ring)) = 0 BY ComingIs
<1>4. Len(tx.ring) = 0 /\ Len(line) = 0 /\ Len(inp) = 0 BY <1>2, <1>3
<1> QED BY <1>1, <1>4, EmptySeq, BufferAssumption

\* The device answers with one line.
LEMMA OneAnswer ==
  ASSUME Typed, UNCHANGED <<line, inp>>, Len(tx.ring) <= TX_KEEP,
         NEW t \in Text, NEW i \in Nat, tx' = Begin(tx, t, i)
  PROVE  /\ Len(Coming') = Len(Coming) + 2
         /\ \A j \in 1 .. Len(Coming) : Coming'[j] = Coming[j]
         /\ Coming'[Len(Coming) + 1] = [t |-> t, id |-> i] /\ Coming'[Len(Coming) + 2] = Eol
<1>1. tx \in Ring BY DEF Typed
<1>2. tx'.ring = tx.ring \o AnswerLine(t, i) BY <1>1, OneLineFits
<1> QED BY <1>2, LineComes

\* A line, and the result of the update behind it.
LEMMA TwoAnswers ==
  ASSUME Typed, UNCHANGED <<line, inp>>, Len(Coming) = 0,
         NEW t \in Text, NEW i \in Nat, NEW b, Store(Begin(tx, t, i), b, i)
  PROVE  \E u \in {"OK", "ERR"} :
           /\ u = "OK" => stored' = b
           /\ Len(Coming') = 4
           /\ Coming'[1] = [t |-> t, id |-> i] /\ Coming'[2] = Eol
           /\ Coming'[3] = [t |-> u, id |-> i] /\ Coming'[4] = Eol
<1> DEFINE r == Begin(tx, t, i)
<1>1. tx \in Ring /\ Len(tx.ring) = 0 /\ Len(tx.ring) <= TX_KEEP /\ tx.ring \in Seq(Symbol)
  BY Silent, ComingIs DEF Typed
<1>2. r \in Ring /\ r.ring = tx.ring \o AnswerLine(t, i) BY <1>1, OneLineFits
<1>3. AnswerLine(t, i) \in Seq(Symbol) /\ Len(AnswerLine(t, i)) = 2 BY AnswerLineIs
<1>4. Len(tx.ring \o AnswerLine(t, i)) = 2
  <2>1. Len(tx.ring \o AnswerLine(t, i)) = Len(tx.ring) + Len(AnswerLine(t, i))
    BY <1>1, <1>3, Joined, Zenon
  <2> QED BY <1>1, <1>3, <2>1
<1>5. Len(r.ring) <= TX_KEEP BY <1>2, <1>4, KeepAssumption
<1> HIDE DEF r
<1>6. PICK u \in {"OK", "ERR"} : tx' = Begin(r, u, i) /\ (u = "OK" => stored' = b)
  BY DEF Store, r
<1>7. u \in Text BY DEF Text
<1>8. tx'.ring = (tx.ring \o AnswerLine(t, i)) \o AnswerLine(u, i)
  BY <1>2, <1>5, <1>6, <1>7, OneLineFits
<1>9. /\ Len(Coming') = 4
      /\ Coming'[1] = [t |-> t, id |-> i] /\ Coming'[2] = Eol
      /\ Coming'[3] = [t |-> u, id |-> i] /\ Coming'[4] = Eol
  BY <1>7, <1>8, TwoLinesCome
<1> QED BY <1>6, <1>9

\* The answer of a command served at once carries its number.
LEMMA AnswersMine ==
  ASSUME NEW a, NEW i, NEW j \in 1 .. 2 * Len(a)
  PROVE  AnswerLines(a, i)[j].t = "eol" \/ AnswerLines(a, i)[j].id = i
<1> DEFINE e == AnswerLine(a[(j + 1) \div 2], i)
<1>1. e[1].id = i /\ e[2].t = "eol" BY DEF AnswerLine
<1> HIDE DEF e
<1>2. AnswerLines(a, i)[j] = e[IF j % 2 = 1 THEN 1 ELSE 2] BY DEF AnswerLines, e
<1> QED BY <1>1, <1>2

\* The host stands still while the device works.
LEMMA DeviceAlone ==
  ASSUME Device
  PROVE  UNCHANGED <<sent, arrived, line, inp, host>>
BY DEF Device, PollChar, BlankLine, GarbledLine, UnknownLine, Command, UpdateRefused, handleUpdate,
  PayloadByte, PayloadTimeout, FlushByte, FlushEnd, Served, LineRead, Quietly, terminal

\* So what it has requested stands.
LEMMA StillRequested ==
  ASSUME UNCHANGED <<sent, host>>
  PROVE  Base' = Base /\ Live' = Live /\ Requested' = Requested
BY DEF Base, Live, Requested

\* Base is a number, and the command and its file end what was sent.
LEMMA BaseIs ==
  ASSUME Inv, Requested
  PROVE  /\ Base \in Nat /\ host.n \in Nat /\ Len(sent) \in Nat /\ Len(sent) = Base + 2 + host.n
         /\ host.id \in Nat /\ host.data \in Seq({P, U, NL}) /\ Len(host.data) \in Nat
         /\ pos \in Nat /\ pos <= Len(sent)
<1>1. /\ host.n \in Nat /\ Len(sent) \in Nat /\ host.id \in Nat
      /\ host.data \in Seq({P, U, NL}) /\ Len(host.data) \in Nat
      /\ pos \in Nat /\ pos <= Len(sent)
  BY DEF Inv, Wire, Typed, Host
<1>2. Base \in Int /\ Len(sent) = Base + 2 + host.n BY <1>1 DEF Base
<1>3. 0 <= Base BY DEF Requested
<1> HIDE DEF Base
<1> QED BY <1>1, <1>2, <1>3

-----------------------------------------------------------------------------
\* The device reads the command.
LEMMA ServedNow ==
  ASSUME Inv, Inv', Device, Requested, NoneYet
  PROVE  NoneYet' \/ Receiving' \/ Answered'
<1> DEFINE w == sent[Base + 1]
           n == Len(host.data)
<1>1. UNCHANGED <<sent, arrived, line, inp, host>> BY DeviceAlone
<1>2. /\ Base \in Nat /\ Len(sent) = Base + 2 /\ host.n = 0 /\ host.id \in Nat
      /\ host.data \in Seq({P, U, NL}) /\ n \in Nat
  <2>1. host.n = 0 BY DEF NoneYet
  <2> QED BY <2>1, BaseIs
<1>3. Base' = Base BY <1>1, StillRequested
<1>4. /\ w.k = host.kind /\ w.len = n /\ w.id = host.id /\ host.kind \in Kinds
      /\ sent[Base + 2] = NL
  BY DEF Requested, Unit
<1>5. w # NL /\ w.k \notin {"p", "u", "nl"} /\ w # U
  BY <1>4, Pieces DEF Kinds
<1>6. host.mode = FirstWait[host.kind] /\ host.mode # "idle"
  BY <1>4 DEF NoneYet, FirstWait, Kinds
<1>7. Typed /\ Len(Coming) = 0 /\ Len(tx.ring) = 0 /\ Len(tx.ring) <= TX_KEEP /\ tx \in Ring
  BY Silent DEF Inv, NoneYet, Typed
<1>8. dev.mode = "command" BY DEF NoneYet
<1>9. PollChar \/ LineRead
  BY <1>8 DEF Device, BlankLine, GarbledLine, UnknownLine, Command, UpdateRefused, handleUpdate,
    PayloadByte, PayloadTimeout, FlushByte, FlushEnd, Served
<1>10. Take /\ pos' = pos + 1 /\ c = sent[pos + 1] BY <1>9 DEF PollChar, LineRead, Take, c
<1> HIDE DEF w, n
<1>11. CASE pos = Base /\ dev.cmdBuf = <<>>
  <2>1. c = w BY <1>10, <1>11 DEF w
  <2>2. PollChar BY <1>5, <1>9, <2>1 DEF LineRead
  <2>3. Len(<<>>) = 0 /\ Append(<<>>, w) = <<w>> OBVIOUS
  <2>4. Len(dev.cmdBuf) < CMD_MAX - 1 BY <1>11, <2>3, BufferAssumption
  <2>5. dev' = [dev EXCEPT !.cmdBuf = Append(@, c)] /\ tx' = tx BY <2>2, <2>4 DEF PollChar
  <2>6. dev'.mode = "command" /\ dev'.cmdBuf = <<w>>
    BY <1>8, <1>11, <2>1, <2>3, <2>5 DEF Inv, Typed, Dev
  <2>7. Coming' = Coming BY <1>1, <2>5 DEF Coming
  <2>8. pos' = Base' + 1 /\ w = sent'[Base' + 1] BY <1>1, <1>3, <1>10, <1>11 DEF w
  <2> QED BY <1>1, <1>2, <1>6, <1>7, <2>6, <2>7, <2>8 DEF NoneYet
<1>12. CASE pos = Base + 1 /\ dev.cmdBuf = <<w>>
  <2>1. c = NL BY <1>2, <1>4, <1>10, <1>12
  <2>2. LineRead /\ ~PollChar BY <1>9, <2>1 DEF PollChar
  <2>3. /\ dev.cmdBuf # <<>> /\ dev.cmdBuf[1] = w /\ Len(dev.cmdBuf) = 1 /\ Told = host.id
    BY <1>4, <1>12 DEF Told
  <2>4. Printable
    <3>1. ToSet(dev.cmdBuf) = {w} BY <1>12 DEF ToSet
    <3> QED BY <1>5, <3>1 DEF Printable
  <2>5. Command \/ UpdateRefused \/ handleUpdate
    BY <1>5, <1>8, <2>2, <2>3, <2>4 DEF Device, BlankLine, GarbledLine, UnknownLine,
      PayloadByte, PayloadTimeout, FlushByte, FlushEnd, Served
  <2>6. pos' = Base' + 2 /\ Base' + 2 <= pos' BY <1>2, <1>3, <1>10, <1>12
  \* A command served at once, or refused: the answer is its own.
  <2>7. ASSUME host.kind # "update", dev' \in {Waiting, [Waiting EXCEPT !.mode = "flush"]},
               \A j \in 1 .. Len(Coming') : Coming'[j].t = "eol" \/ Coming'[j].id = host.id
        PROVE  Answered'
    <3>1. dev'.mode # "payload" /\ dev'.cmdBuf = <<>> BY <2>7 DEF Waiting
    <3>2. \A j \in 1 .. Len(dev'.cmdBuf) : dev'.cmdBuf[j].k \in {"p", "u"} BY <3>1
    <3>3. Answer' BY <1>1, <1>6, <2>7 DEF Answer, Mine
    <3> QED BY <2>6, <3>1, <3>2, <3>3 DEF Answered
  <2>8. CASE Command
    <3>1. PICK k \in DOMAIN Answers : Served(k) /\
            \E a \in Answers[k] : tx' = txPut(txBegin(tx), AnswerLines(a, Told))
      BY <2>8 DEF Command
    <3>2. host.kind # "update" BY <1>4, <2>3, <3>1 DEF Served, Answers
    <3>3. PICK a \in Answers[k] : tx' = txPut(txBegin(tx), AnswerLines(a, Told)) BY <3>1
    <3> DEFINE s == AnswerLines(a, host.id)
    <3>4. s \in Seq(Symbol) /\ Len(s) <= 6 BY <1>2, AnswersFit
    <3>5. txBegin(tx) \in Ring /\ txBegin(tx).over = FALSE /\ txBegin(tx).ring = tx.ring
      BY <1>7, BeginIs
    <3>6. \A j \in 1 .. Len(s) : s[j].t = "eol" \/ s[j].id = host.id
      <4>1. Len(s) = 2 * Len(a) \/ Len(s) = 0
        BY <3>4 DEF AnswerLines
      <4> QED BY <3>4, <4>1, AnswersMine
    <3>7. tx' = txPut(txBegin(tx), s) BY <2>3, <3>3
    <3> HIDE DEF s
    <3>8. Len(tx.ring) + Len(s) < TX_RING /\ Len(s) \in Nat
      BY <1>7, <3>4, RingAssumption, BufferAssumption
    <3>9. tx'.ring = tx.ring \o s BY <3>4, <3>5, <3>7, <3>8, PutFits
    <3>10. Coming' = Coming \o s BY <1>1, <1>7, <3>4, <3>9, PutComes
    <3>11. Coming \in Seq(Symbol) BY <1>7, ComingIs
    <3>12. Coming = <<>> BY <1>7, <3>11, EmptySeq
    <3>13. Coming' = s BY <3>4, <3>10, <3>12, ConcatEmptySeq
    <3> QED BY <2>7, <2>8, <3>2, <3>6, <3>13 DEF Command
  <2>9. CASE UpdateRefused
    <3>1. tx' = Begin(tx, "ERR", host.id) /\ host.kind # "update"
      BY <1>4, <2>3, <2>9 DEF UpdateRefused, Served
    <3>2. "ERR" \in Text BY DEF Text
    <3>3. /\ Len(Coming') = 2 /\ Coming'[1] = [t |-> "ERR", id |-> host.id] /\ Coming'[2] = Eol
      BY <1>1, <1>2, <1>7, <3>1, <3>2, OneAnswer
    <3>4. \A j \in 1 .. Len(Coming') : Coming'[j].t = "eol" \/ Coming'[j].id = host.id
      BY <3>3 DEF Eol
    <3> QED BY <2>7, <2>9, <3>1, <3>4 DEF UpdateRefused
  <2>10. CASE handleUpdate
    <3>1. host.kind = "update" /\ dev.cmdBuf[1].len = n BY <1>4, <2>3, <2>10 DEF handleUpdate, Served
    <3>2. host.mode = "rdy" BY <1>6, <3>1 DEF FirstWait
    <3>3. "RDY" \in Text BY DEF Text
    <3>4. CASE n = 0
      <4>1. Store(Begin(tx, "RDY", host.id), <<>>, host.id) /\ dev' = Waiting
        BY <2>3, <2>10, <3>1, <3>4 DEF handleUpdate
      <4>2. PICK u \in {"OK", "ERR"} :
              /\ u = "OK" => stored' = <<>>
              /\ Len(Coming') = 4
              /\ Coming'[1] = [t |-> "RDY", id |-> host.id] /\ Coming'[2] = Eol
              /\ Coming'[3] = [t |-> u, id |-> host.id] /\ Coming'[4] = Eol
        BY <1>1, <1>2, <1>7, <3>3, <4>1, TwoAnswers
      <4>3. host.data = <<>> BY <1>2, <3>4, EmptySeq DEF n
      <4>4. dev'.mode = "command" /\ dev'.cmdBuf = <<>> BY <4>1 DEF Waiting
      <4>5. AtEnd' BY <1>1, <1>2, <1>3, <2>6, <4>4 DEF AtEnd
      <4>6. Says(1, "RDY")' /\ Says(3, u)' BY <1>1, <4>2 DEF Says, Own, Eol
      <4>7. Outcome(u)' BY <1>1, <1>2, <3>2, <4>2, <4>3, <4>5, <4>6 DEF Outcome
      <4>8. Result' BY <1>1, <4>2, <4>3, <4>7 DEF Result
      <4>9. Answer' BY <1>1, <3>1, <3>2, <4>8 DEF Answer
      <4> QED BY <2>6, <4>4, <4>9 DEF Answered
    <3>5. CASE n # 0
      <4>1. /\ tx' = Begin(tx, "RDY", host.id)
            /\ dev' = [Waiting EXCEPT !.mode = "payload", !.id = host.id, !.len = n]
        BY <2>3, <2>10, <3>1, <3>5 DEF handleUpdate
      <4>2. /\ Len(Coming') = 2 /\ Coming'[1] = [t |-> "RDY", id |-> host.id] /\ Coming'[2] = Eol
        BY <1>1, <1>2, <1>7, <3>3, <4>1, OneAnswer
      <4>3. dev'.mode = "payload" /\ dev'.id = host.id /\ dev'.len = n /\ dev'.upBuf = <<>>
            /\ Len(dev'.upBuf) = 0
        BY <4>1 DEF Waiting
      <4>4. Says(1, "RDY")' BY <1>1, <4>2 DEF Says, Own, Eol
      <4>5. Await(0)' BY <1>1, <1>2, <3>2, <4>2, <4>4 DEF Await
      <4>6. pos' = Base' + 2 + 0 BY <1>2, <1>3, <2>6
      <4>7. \A j \in 1 .. 0 : dev'.upBuf[j] = host'.data[j] OBVIOUS
      <4> QED BY <1>1, <3>1, <4>3, <4>5, <4>6, <4>7 DEF Receiving, n
    <3> QED BY <3>4, <3>5
  <2> QED BY <2>5, <2>8, <2>9, <2>10
<1> QED BY <1>11, <1>12 DEF NoneYet, w

\* The device receives the file.
LEMMA ReceivedNow ==
  ASSUME Inv, Inv', Device, Requested, Receiving
  PROVE  Receiving' \/ Answered'
<1> DEFINE k == Len(dev.upBuf)
           d == host.data
<1>1. UNCHANGED <<sent, arrived, line, inp, host>> BY DeviceAlone
<1>2. /\ Base \in Nat /\ host.n \in Nat /\ Len(sent) = Base + 2 + host.n /\ host.id \in Nat
      /\ d \in Seq({P, U, NL}) /\ Len(d) \in Nat /\ pos \in Nat /\ pos <= Len(sent)
  BY BaseIs
<1>3. Base' = Base BY <1>1, StillRequested
<1>4. /\ host.kind = "update" /\ dev.mode = "payload" /\ dev.id = host.id
      /\ dev.len = Len(d) /\ pos = Base + 2 + k /\ Await(k)
      /\ \A j \in 1 .. k : dev.upBuf[j] = d[j]
  BY DEF Receiving
<1>5. dev \in Dev /\ dev.upBuf \in Seq(Units) /\ k \in Nat /\ k < Len(d) /\ Typed
      /\ dev.cmdBuf = <<>> /\ tx \in Ring
  BY <1>4 DEF Inv, Typed, Dev, Uploading, Reading
<1>6. /\ host.n <= Len(d)
      /\ \A j \in 1 .. host.n : sent[Base + 2 + j] = d[j]
  BY DEF Requested
<1>7. PayloadByte \/ PayloadTimeout
  BY <1>4 DEF Device, PollChar, BlankLine, GarbledLine, UnknownLine, Command, UpdateRefused,
    handleUpdate, FlushByte, FlushEnd, Served, LineRead
<1> HIDE DEF k, d
<1>8. CASE PayloadByte
  <2> DEFINE b == Append(dev.upBuf, c)
             acked == Len(b) = dev.len \/ Len(b) % UART_CHUNK = 0
             r == IF acked THEN Begin(tx, "ACK", dev.id) ELSE tx
  <2>1. /\ Take /\ pos' = pos + 1 /\ pos + 1 \in 1 .. Len(sent) /\ c = sent[pos + 1] /\ c \in Units
    BY <1>1, <1>8, TakeIs DEF PayloadByte, Inv
  <2>2. k < host.n BY <1>2, <1>4, <1>5, <2>1
  <2>3. host.mode = "ack" /\ Len(Coming) = 0 /\ Chunk(k)
    BY <1>2, <1>4, <1>5, <2>2 DEF Await
  <2>4. c = d[k + 1]
    <3>1. k + 1 \in 1 .. host.n /\ pos + 1 = Base + 2 + (k + 1) BY <1>2, <1>4, <1>5, <2>2
    <3> QED BY <1>6, <2>1, <3>1
  <2>5. /\ b \in Seq(Units) /\ Len(b) = k + 1
        /\ \A j \in 1 .. k : b[j] = dev.upBuf[j]
        /\ b[k + 1] = c
    BY <1>5, <2>1, AppendProperties DEF k
  <2>6. IF Len(b) = dev.len THEN Store(r, b, dev.id) /\ dev' = Waiting
        ELSE dev' = [dev EXCEPT !.upBuf = b] /\ tx' = r /\ UNCHANGED stored
    BY <1>8 DEF PayloadByte
  <2>7. acked <=> (k + 1 = Len(d) \/ (k + 1) % UART_CHUNK = 0) BY <1>4, <2>5
  <2>8. r = IF acked THEN Begin(tx, "ACK", host.id) ELSE tx BY <1>4
  <2> HIDE DEF b, acked, r
  <2>9. \A j \in 1 .. k + 1 : b[j] = d[j]
    <3> TAKE j \in 1 .. k + 1
    <3>1. CASE j = k + 1 BY <2>4, <2>5, <3>1
    <3>2. CASE j # k + 1
      <4>1. j \in 1 .. k BY <1>5, <3>2
      <4> QED BY <1>4, <2>5, <4>1
    <3> QED BY <3>1, <3>2
  <2>10. "ACK" \in Text /\ Len(tx.ring) <= TX_KEEP BY <1>5, <2>3, Silent DEF Text
  <2>11. /\ host.n = Len(d) \/ host.n % UART_CHUNK = 0
         /\ \A j \in k + 1 .. host.n - 1 : j % UART_CHUNK # 0
         /\ host.n - k <= UART_CHUNK
    BY <2>3 DEF Chunk, d
  <2>12. pos' = Base' + 2 + (k + 1) BY <1>2, <1>3, <1>4, <1>5, <2>1
  <2>13. CASE k + 1 = Len(d)
    <3>1. host.n = k + 1 BY <1>2, <1>5, <1>6, <2>2, <2>13
    <3>2. b = d
      <4>1. {P, U, NL} \subseteq Units BY Pieces
      <4>2. d \in Seq(Units) BY <1>2, <4>1
      <4> QED BY <2>5, <2>9, <2>13, <4>2, SeqEqual
    <3>3. Store(Begin(tx, "ACK", host.id), d, host.id) /\ dev' = Waiting
      BY <1>4, <2>5, <2>6, <2>7, <2>8, <2>13, <3>2
    <3>4. PICK u \in {"OK", "ERR"} :
            /\ u = "OK" => stored' = d
            /\ Len(Coming') = 4
            /\ Coming'[1] = [t |-> "ACK", id |-> host.id] /\ Coming'[2] = Eol
            /\ Coming'[3] = [t |-> u, id |-> host.id] /\ Coming'[4] = Eol
      BY <1>1, <1>2, <1>5, <2>3, <2>10, <3>3, TwoAnswers
    <3>5. dev'.mode = "command" /\ dev'.cmdBuf = <<>> BY <3>3 DEF Waiting
    <3>6. AtEnd' BY <1>1, <1>2, <1>3, <2>12, <3>1, <3>5 DEF AtEnd
    <3>7. Says(1, "ACK")' /\ Says(3, u)' BY <1>1, <3>4 DEF Says, Own, Eol
    <3>8. host.n = Len(host.data) BY <2>13, <3>1 DEF d
    <3>9. Outcome(u)' BY <1>1, <2>3, <3>4, <3>6, <3>7, <3>8 DEF Outcome
    <3>10. Result' BY <1>1, <3>4, <3>9 DEF Result, d
    <3>11. Answer' BY <1>1, <1>4, <2>3, <3>10 DEF Answer
    <3>12. Base' + 2 <= pos' BY <1>2, <1>3, <1>5, <2>12
    <3>13. \A j \in 1 .. Len(dev'.cmdBuf) : dev'.cmdBuf[j].k \in {"p", "u"} BY <3>5
    <3> QED BY <3>5, <3>11, <3>12, <3>13 DEF Answered
  <2>14. CASE k + 1 # Len(d)
    <3>1. dev' = [dev EXCEPT !.upBuf = b] /\ tx' = r BY <1>4, <2>5, <2>6, <2>14
    <3>2. /\ dev'.mode = "payload" /\ dev'.id = host.id /\ dev'.len = Len(d)
          /\ dev'.upBuf = b /\ Len(dev'.upBuf) = k + 1
      BY <1>4, <1>5, <2>5, <3>1 DEF Dev
    <3>3. Await(Len(dev.upBuf))'
      <4>1. CASE (k + 1) % UART_CHUNK = 0
        <5>1. host.n = k + 1
          <6>1. ~(k + 1 \in k + 1 .. host.n - 1) BY <2>11, <4>1
          <6> QED BY <1>2, <1>5, <2>2, <6>1
        <5>2. tx' = Begin(tx, "ACK", host.id) BY <2>7, <2>8, <3>1, <4>1
        <5>3. /\ Len(Coming') = 2
              /\ Coming'[1] = [t |-> "ACK", id |-> host.id] /\ Coming'[2] = Eol
          BY <1>1, <1>2, <1>5, <2>3, <2>10, <5>2, OneAnswer
        <5>4. Says(1, "ACK")' BY <1>1, <5>3 DEF Says, Own, Eol
        <5> QED BY <1>1, <2>3, <3>2, <4>1, <5>1, <5>3, <5>4 DEF Await
      <4>2. CASE (k + 1) % UART_CHUNK # 0
        <5>1. host.n # k + 1 BY <2>11, <2>14, <4>2
        <5>2. k + 1 < host.n /\ host.n - (k + 1) <= UART_CHUNK
          BY <1>2, <1>5, <2>2, <2>11, <5>1, BufferAssumption, SMTT(20)
        <5>3. tx' = tx BY <2>7, <2>8, <2>14, <3>1, <4>2
        <5>4. Coming' = Coming BY <1>1, <5>3 DEF Coming
        <5>5. \A j \in (k + 1) + 1 .. host.n - 1 : j % UART_CHUNK # 0 BY <1>5, <2>11
        <5>6. Chunk(Len(dev.upBuf))' BY <1>1, <2>11, <3>2, <5>2, <5>5 DEF Chunk, d
        <5> QED BY <1>1, <2>3, <5>4, <5>6 DEF Await
      <4> QED BY <4>1, <4>2
    <3> QED BY <1>1, <1>4, <2>9, <2>12, <3>2, <3>3 DEF Receiving, d
  <2> QED BY <2>13, <2>14
<1>9. CASE PayloadTimeout
  <2>1. /\ tx' = Put(tx, "ERR", host.id) /\ dev' = [dev EXCEPT !.mode = "flush"] /\ pos' = pos
    BY <1>4, <1>9 DEF PayloadTimeout
  <2>2. dev'.mode = "flush" /\ dev'.cmdBuf = <<>> /\ Len(dev'.cmdBuf) = 0 BY <1>5, <2>1 DEF Dev
  <2>3. "ERR" \in Text BY DEF Text
  <2>4. tx'.ring = tx.ring \o AnswerLine("ERR", host.id)
    <3> DEFINE s == AnswerLine("ERR", host.id)
    <3>1. s \in Seq(Symbol) /\ Len(s) = 2 BY <1>2, <2>3, AnswerLineIs
    <3>2. tx.over = FALSE /\ Len(tx.ring) + 2 < TX_RING BY <1>4, <1>5, SmallRing DEF Inv, Room
    <3>3. tx' = txPut(tx, s) BY <2>1 DEF Put
    <3> HIDE DEF s
    <3>4. tx'.ring = tx.ring \o s BY <1>5, <3>1, <3>2, <3>3, PutFits
    <3> QED BY <3>4 DEF s
  <2>5. /\ Len(Coming') = Len(Coming) + 2
        /\ \A j \in 1 .. Len(Coming) : Coming'[j] = Coming[j]
        /\ Coming'[Len(Coming) + 1] = [t |-> "ERR", id |-> host.id]
        /\ Coming'[Len(Coming) + 2] = Eol
    BY <1>1, <1>2, <1>5, <2>3, <2>4, LineComes
  <2>6. Outcome("ERR")'
    <3>1. CASE host.mode = "rdy" /\ host.n = 0 /\ Len(Coming) = 2 /\ Says(1, "RDY")
      <4>1. AtEnd' BY <1>1, <1>2, <1>4, <1>5, <2>1, <2>2, <3>1 DEF AtEnd
      <4>2. Len(Coming') = 4 /\ Says(1, "RDY")' /\ Says(3, "ERR")'
        BY <1>1, <2>5, <3>1 DEF Says, Own, Eol
      <4> QED BY <1>1, <3>1, <4>1, <4>2 DEF Outcome
    <3>2. CASE host.mode = "ack" /\ Len(Coming) = 0 /\ Chunk(k)
      <4>1. Len(Coming') = 2 /\ Says(1, "ERR")' BY <1>1, <2>5, <3>2 DEF Says, Own, Eol
      <4>2. Len(sent') - pos' = host.n - k
        <5>1. Len(sent') = Base + 2 + host.n /\ pos' = Base + 2 + k BY <1>1, <1>2, <1>4, <2>1
        <5>2. (Base + 2 + host.n) - (Base + 2 + k) = host.n - k
          <6>1. \A x, y, z \in Nat : (x + 2 + y) - (x + 2 + z) = y - z OBVIOUS
          <6>2. Base \in Nat /\ host.n \in Nat /\ k \in Nat BY <1>2, <1>5
          <6> QED BY <6>1, <6>2, Zenon
        <5> QED BY <5>1, <5>2, Zenon
      <4>3. Left' <= 2 + UART_CHUNK
        BY <1>2, <1>5, <2>2, <3>2, <4>1, <4>2, BufferAssumption, SMTT(20) DEF Left, Chunk
      <4> QED BY <1>1, <3>2, <4>1, <4>3 DEF Outcome, Final
    <3>3. CASE host.mode = "ack" /\ k = host.n /\ Len(Coming) = 2 /\ Says(1, "ACK")
      <4>1. AtEnd' BY <1>1, <1>2, <1>4, <1>5, <2>1, <2>2, <3>3 DEF AtEnd
      <4>2. Len(Coming') = 4 /\ Says(1, "ACK")' /\ Says(3, "ERR")'
        BY <1>1, <2>5, <3>3 DEF Says, Own, Eol
      <4> QED BY <1>1, <3>3, <4>1, <4>2 DEF Outcome
    <3> QED BY <1>4, <3>1, <3>2, <3>3 DEF Await
  <2>7. Result' BY <2>6 DEF Result
  <2>8. host.mode # "idle" BY <1>4 DEF Await
  <2>9. Answer' BY <1>1, <1>4, <2>7, <2>8 DEF Answer
  <2>10. Base' + 2 <= pos' BY <1>2, <1>3, <1>4, <1>5, <2>1
  <2>11. \A j \in 1 .. Len(dev'.cmdBuf) : dev'.cmdBuf[j].k \in {"p", "u"} BY <2>2
  <2> QED BY <2>2, <2>9, <2>10, <2>11 DEF Answered
<1> QED BY <1>7, <1>8, <1>9

\* A unit that comes behind the answer is of a chunk that was too late.
LEMMA LateUnit ==
  ASSUME Inv, Requested, Answered, pos < Len(sent)
  PROVE  /\ sent[pos + 1] \in {P, U, NL}
         /\ host.mode # "idle" => \E t \in {"OK", "ERR"} : (t = "OK" => stored = host.data) /\ Final(t)
         /\ host.kind = "update"
<1>1. /\ Base \in Nat /\ host.n \in Nat /\ Len(sent) = Base + 2 + host.n
      /\ host.data \in Seq({P, U, NL}) /\ Len(host.data) \in Nat /\ pos \in Nat
  BY BaseIs
<1>2. Base + 2 <= pos /\ Answer BY DEF Answered
<1>3. host.n <= Len(host.data) /\ host.n # 0 BY <1>1, <1>2 DEF Requested
<1>4. host.kind = "update"
  <2>1. host.data # <<>> BY <1>1, <1>3, EmptySeq
  <2> QED BY <2>1 DEF Requested
<1>5. sent[pos + 1] \in {P, U, NL}
  <2> DEFINE j == pos + 1 - (Base + 2)
  <2>1. j \in 1 .. host.n /\ pos + 1 = Base + 2 + j /\ j \in 1 .. Len(host.data)
    BY <1>1, <1>2, <1>3
  <2> HIDE DEF j
  <2>2. sent[pos + 1] = host.data[j] BY <2>1 DEF Requested
  <2> QED BY <1>1, <2>1, <2>2, ElementOfSeq
<1>6. ~AtEnd BY <1>1 DEF AtEnd
<1>7. host.mode # "idle" => \E t \in {"OK", "ERR"} : (t = "OK" => stored = host.data) /\ Final(t)
  BY <1>2, <1>4, <1>6 DEF Answer, Result, Outcome
<1> QED BY <1>4, <1>5, <1>7

\* Reading such units leaves the answer as it is.
LEMMA LateKeeps ==
  ASSUME Inv, Requested, Answered, UNCHANGED <<sent, host, stored>>, pos < Len(sent), pos' >= pos,
         dev'.mode # "payload", \A j \in 1 .. Len(dev'.cmdBuf) : dev'.cmdBuf[j].k \in {"p", "u"},
         host.mode # "idle" =>
           /\ Len(Coming) \in Nat /\ Len(Coming') \in Nat /\ Len(Coming) <= Len(Coming')
           /\ \A j \in 1 .. Len(Coming) : Coming'[j] = Coming[j]
           /\ Left' <= Left /\ Left \in Int /\ Left' \in Int,
         pos' \in Nat
  PROVE  Answered'
<1>1. Base' = Base BY StillRequested
<1>2. Base \in Nat /\ pos \in Nat BY BaseIs
<1>3. Base' + 2 <= pos' BY <1>1, <1>2 DEF Answered
<1>4. host.kind = "update" BY LateUnit
<1>5. Answer'
  <2>1. CASE host.mode = "idle" BY <2>1 DEF Answered, Answer
  <2>2. CASE host.mode # "idle"
    <3>1. PICK t \in {"OK", "ERR"} : (t = "OK" => stored = host.data) /\ Final(t) BY <2>2, LateUnit
    <3>2. 2 <= Len(Coming) /\ Says(1, t) /\ Left <= 2 + UART_CHUNK BY <3>1 DEF Final
    <3>3. 1 \in 1 .. Len(Coming) /\ 2 \in 1 .. Len(Coming) BY <2>2, <3>2
    <3>4. Coming'[1] = Coming[1] /\ Coming'[2] = Coming[2] BY <2>2, <3>3
    <3>5. Says(1, t)' BY <3>2, <3>4 DEF Says, Own, Eol
    <3>6. Left' <= 2 + UART_CHUNK /\ 2 <= Len(Coming') BY <2>2, <3>2, BufferAssumption
    <3>7. Final(t)' BY <3>1, <3>5, <3>6 DEF Final
    <3>8. Result' BY <3>1, <3>7 DEF Result, Outcome
    <3> QED BY <1>4, <2>2, <3>8 DEF Answer
  <2> QED BY <2>1, <2>2
<1> QED BY <1>3, <1>5 DEF Answered

\* The device after its answer.
LEMMA AnsweredStays ==
  ASSUME Inv, Inv', Device, Requested, Answered
  PROVE  Answered'
<1> DEFINE b == dev.cmdBuf
<1>1. UNCHANGED <<sent, arrived, line, inp, host>> BY DeviceAlone
<1>2. /\ Base \in Nat /\ Len(sent) \in Nat /\ pos \in Nat /\ pos <= Len(sent) BY BaseIs
<1>3. Base' = Base BY <1>1, StillRequested
<1>4. /\ Base + 2 <= pos /\ dev.mode # "payload" /\ Answer
      /\ \A j \in 1 .. Len(b) : b[j].k \in {"p", "u"}
  BY DEF Answered
<1>5. /\ Typed /\ dev \in Dev /\ b \in Seq(Units) /\ Len(b) \in Nat /\ tx \in Ring
  BY DEF Inv, Typed, Dev, Wire
<1>5a. pos' \in Nat /\ Len(dev'.cmdBuf) \in Nat
  <2>1. dev' \in Dev /\ pos' \in Nat BY DEF Inv, Typed, Wire
  <2> QED BY <2>1 DEF Dev
<1>6. Len(Coming) \in Nat
  <2>1. Coming \in Seq(Symbol) BY <1>5, ComingIs
  <2> HIDE DEF Coming
  <2> QED BY <2>1
<1>7. Left \in Int /\ (Len(Coming') \in Nat => Left' \in Int)
  BY <1>1, <1>2, <1>5, <1>5a, <1>6 DEF Left
<1>8. ASSUME NEW k \in Kinds, Served(k) PROVE FALSE
  <2>1. b # <<>> /\ b[1].k = k BY <1>8 DEF Served
  <2>2. 1 \in 1 .. Len(b) BY <1>5, <2>1, EmptySeq
  <2>3. k \in {"p", "u"} BY <1>4, <2>1, <2>2
  <2> QED BY <2>3 DEF Kinds
<1>9. \/ PollChar \/ BlankLine \/ GarbledLine \/ UnknownLine \/ FlushByte \/ FlushEnd
  <2>1. ~Command
    <3>1. DOMAIN Answers \subseteq Kinds BY DEF Answers, Kinds
    <3> QED BY <1>8, <3>1 DEF Command
  <2>2. ~UpdateRefused /\ ~handleUpdate BY <1>8 DEF UpdateRefused, handleUpdate, Kinds
  <2>3. ~PayloadByte /\ ~PayloadTimeout BY <1>4 DEF PayloadByte, PayloadTimeout
  <2> QED BY <2>1, <2>2, <2>3 DEF Device
\* A unit is read.
<1>10. ASSUME Take
       PROVE  pos < Len(sent) /\ pos' = pos + 1 /\ c = sent[pos + 1] /\ pos' >= pos
  <2>1. pos + 1 \in 1 .. Len(sent) /\ pos' = pos + 1 /\ c = sent[pos + 1]
    BY <1>1, <1>10, TakeIs DEF Inv
  <2> QED BY <1>2, <2>1
<1> HIDE DEF b
\* It is not answered.
<1>11. ASSUME Take, tx' = tx, stored' = stored, dev'.mode # "payload",
              Len(dev'.cmdBuf) <= Len(b) + 1,
              \A j \in 1 .. Len(dev'.cmdBuf) : dev'.cmdBuf[j].k \in {"p", "u"}
       PROVE  Answered'
  <2>1. Coming' = Coming BY <1>1, <1>11 DEF Coming
  <2>2. Left' <= Left BY <1>1, <1>2, <1>5, <1>5a, <1>6, <1>10, <1>11, <2>1 DEF Left, b
  <2> QED BY <1>1, <1>5, <1>5a, <1>6, <1>7, <1>10, <1>11, <2>1, <2>2, LateKeeps
<1>12. CASE PollChar
  <2>1. /\ Take /\ c # NL /\ tx' = tx /\ stored' = stored
        /\ dev' = IF Len(b) < CMD_MAX - 1 THEN [dev EXCEPT !.cmdBuf = Append(b, c)] ELSE dev
    BY <1>12 DEF PollChar, b
  <2>2. c \in {P, U} /\ c.k \in {"p", "u"} /\ c \in Units
    <3>1. c \in {P, U, NL} BY <1>10, <2>1, LateUnit
    <3> QED BY <2>1, <3>1, Pieces
  <2>3. /\ Append(b, c) \in Seq(Units) /\ Len(Append(b, c)) = Len(b) + 1
        /\ \A j \in 1 .. Len(b) : Append(b, c)[j] = b[j]
        /\ Append(b, c)[Len(b) + 1] = c
    BY <1>5, <2>2, AppendProperties
  <2>4. \A j \in 1 .. Len(b) + 1 : Append(b, c)[j].k \in {"p", "u"}
    <3> TAKE j \in 1 .. Len(b) + 1
    <3>1. CASE j = Len(b) + 1 BY <2>2, <2>3, <3>1
    <3>2. CASE j # Len(b) + 1
      <4>1. j \in 1 .. Len(b) BY <1>5, <3>2
      <4> QED BY <1>4, <2>3, <4>1
    <3> QED BY <3>1, <3>2
  <2>5. dev'.mode = dev.mode /\ dev'.cmdBuf \in {b, Append(b, c)}
    BY <1>5, <2>1 DEF Dev, b
  <2>6. /\ Len(dev'.cmdBuf) <= Len(b) + 1
        /\ \A j \in 1 .. Len(dev'.cmdBuf) : dev'.cmdBuf[j].k \in {"p", "u"}
    <3>1. CASE dev'.cmdBuf = b BY <1>4, <1>5, <3>1
    <3>2. CASE dev'.cmdBuf = Append(b, c) BY <1>5, <2>3, <2>4, <3>2
    <3> QED BY <2>5, <3>1, <3>2
  <2> QED BY <1>4, <1>11, <2>1, <2>5, <2>6
<1>13. CASE BlankLine \/ FlushByte
  <2>1. Take /\ UNCHANGED <<dev, tx, stored>> BY <1>13 DEF BlankLine, LineRead, FlushByte
  <2> QED BY <1>4, <1>5, <1>5a, <1>11, <2>1 DEF b
<1>14. CASE GarbledLine
  <2>1. Take /\ UNCHANGED <<tx, stored>> /\ dev' = [Waiting EXCEPT !.mode = "flush"]
    BY <1>14 DEF GarbledLine, LineRead
  <2>2. dev'.mode = "flush" /\ dev'.cmdBuf = <<>> /\ Len(dev'.cmdBuf) = 0 BY <2>1 DEF Waiting
  <2> QED BY <1>5, <1>5a, <1>11, <2>1, <2>2
<1>15. CASE UnknownLine
  <2>1. /\ Take /\ stored' = stored /\ dev' = Waiting /\ b # <<>>
        /\ tx' = Begin(tx, "ERR", Last(b).id)
    BY <1>15 DEF UnknownLine, Served, LineRead, b
  <2>2. dev'.mode = "command" /\ dev'.cmdBuf = <<>> /\ Len(dev'.cmdBuf) = 0 BY <2>1 DEF Waiting
  <2>3. Len(b) # 0 /\ Last(b).id \in Nat
    <3>1. Len(b) # 0 /\ Len(b) \in 1 .. Len(b) BY <1>5, <2>1, EmptySeq
    <3>2. Last(b) \in Units BY <1>5, <3>1, ElementOfSeq DEF Last
    <3> QED BY <3>1, <3>2 DEF Units
  <2>4. ASSUME host.mode # "idle"
        PROVE  /\ Len(Coming) <= Len(Coming') /\ Left' <= Left
               /\ \A j \in 1 .. Len(Coming) : Coming'[j] = Coming[j]
    <3>1. PICK t \in {"OK", "ERR"} : Final(t) BY <1>10, <2>1, <2>4, LateUnit
    <3>2. Len(Coming) <= UART_CHUNK
      BY <1>2, <1>5, <1>5a, <1>6, <1>10, <2>1, <2>3, <3>1, BufferAssumption DEF Final, Left, b
    <3>3. Len(tx.ring) <= TX_KEEP
      <4>1. inp \in Seq(Symbol) /\ line \in Seq(Symbol) /\ tx.ring \in Seq(Symbol)
            /\ Len(Coming) = Len(line) + (Len(inp) + Len(tx.ring)) BY <1>5, ComingIs
      <4>2. Len(inp) \in Nat /\ Len(line) \in Nat /\ Len(tx.ring) \in Nat BY <4>1
      <4> QED BY <3>2, <4>1, <4>2, KeepAssumption, BufferAssumption
    <3>4. "ERR" \in Text BY DEF Text
    <3>5. /\ Len(Coming') = Len(Coming) + 2
          /\ \A j \in 1 .. Len(Coming) : Coming'[j] = Coming[j]
      BY <1>1, <1>5, <2>1, <2>3, <3>3, <3>4, OneAnswer
    <3>6. Left' <= Left BY <1>1, <1>2, <1>5, <1>5a, <1>6, <1>10, <2>1, <2>2, <2>3, <3>5 DEF Left, b
    <3> QED BY <1>6, <3>5, <3>6
  <2>5. \A j \in 1 .. Len(dev'.cmdBuf) : dev'.cmdBuf[j].k \in {"p", "u"} BY <2>2
  <2> QED BY <1>1, <1>5, <1>5a, <1>6, <1>7, <1>10, <2>1, <2>2, <2>4, <2>5, LateKeeps
<1>16. CASE FlushEnd
  <2>1. /\ dev' = [dev EXCEPT !.mode = "command", !.cmdBuf = <<>>] /\ UNCHANGED <<pos, tx, stored>>
    BY <1>16 DEF FlushEnd
  <2>2. dev'.mode = "command" /\ dev'.cmdBuf = <<>> /\ Len(dev'.cmdBuf) = 0
    BY <1>5, <2>1 DEF Dev
  <2>3. Coming' = Coming BY <1>1, <2>1 DEF Coming
  <2>4. \A j \in 1 .. Len(dev'.cmdBuf) : dev'.cmdBuf[j].k \in {"p", "u"} BY <2>2
  <2>5. Left' <= Left BY <1>1, <1>2, <1>5, <1>5a, <1>6, <2>1, <2>2, <2>3 DEF Left, b
  <2>6. AtEnd => AtEnd' BY <1>1, <2>1, <2>2 DEF AtEnd
  <2>7. ASSUME NEW t, Outcome(t) PROVE Outcome(t)'
    <3>1. \A i, u : Says(i, u)' = Says(i, u) BY <1>1, <2>3 DEF Says, Own, Eol
    <3>2. Left <= 2 + UART_CHUNK => Left' <= 2 + UART_CHUNK BY <1>7, <2>5, BufferAssumption
    <3>3. Final(t) => Final(t)' BY <1>1, <2>3, <3>1, <3>2 DEF Final
    <3> QED BY <1>1, <2>3, <2>6, <2>7, <3>1, <3>3 DEF Outcome
  <2>8. Result => Result' BY <1>1, <2>1, <2>7 DEF Result
  <2>9. Answer' BY <1>1, <1>4, <2>1, <2>3, <2>8 DEF Answer, Mine
  <2>10. Base' + 2 <= pos' BY <1>3, <1>4, <2>1
  <2> QED BY <2>2, <2>4, <2>9, <2>10 DEF Answered
<1> QED BY <1>9, <1>12, <1>13, <1>14, <1>15, <1>16

LEMMA DeviceExchange ==
  ASSUME Inv, Inv', Exchange, Device
  PROVE  Exchange'
<1>1. UNCHANGED <<sent, arrived, line, inp, host>> BY DeviceAlone
<1>2. Base' = Base /\ Live' = Live /\ Requested' = Requested BY <1>1, StillRequested
<1>3. Reads' BY <1>1 DEF Exchange, Reads
<1>4. ASSUME Live PROVE Requested /\ (NoneYet' \/ Receiving' \/ Answered')
  <2>1. Requested /\ (NoneYet \/ Receiving \/ Answered) BY <1>4 DEF Exchange
  <2> QED BY <2>1, ServedNow, ReceivedNow, AnsweredStays
<1> QED BY <1>2, <1>3, <1>4 DEF Exchange

-----------------------------------------------------------------------------
\* Multiples of a number lie apart.
LEMMA Multiples ==
  ASSUME NEW a \in Nat, NEW m \in Nat \ {0}, a % m = 0
  PROVE  (a + m) % m = 0 /\ \A j \in a + 1 .. a + m - 1 : j % m # 0
<1>1. PICK q \in Nat : a = m * q
  <2>1. a = m * (a \div m) + (a % m) /\ a \div m \in Nat OBVIOUS
  <2> QED BY <2>1
<1>2. a + m = m * (q + 1) BY <1>1
<1>3. (m * (q + 1)) % m = 0 OBVIOUS
<1>4. ASSUME NEW j \in a + 1 .. a + m - 1, j % m = 0 PROVE FALSE
  <2>1. PICK p \in Nat : j = m * p
    <3>1. j \in Nat OBVIOUS
    <3>2. j = m * (j \div m) + (j % m) /\ j \div m \in Nat BY <3>1
    <3>3. m * (j \div m) + 0 = m * (j \div m) BY <3>2
    <3> QED BY <1>4, <3>2, <3>3, Zenon
  <2>2. CASE p <= q
    <3>1. m * p <= m * q BY <2>2
    <3> QED BY <1>1, <2>1, <3>1
  <2>3. CASE p >= q + 1
    <3>1. m * p >= m * (q + 1) BY <2>3
    <3> QED BY <1>1, <1>2, <2>1, <3>1
  <2> QED BY <2>2, <2>3
<1> QED BY <1>2, <1>3, <1>4

\* The next chunk is written.
LEMMA ChunkIs ==
  ASSUME Inv, Requested, SendChunk(host.n), UNCHANGED <<arrived, device>>
  PROVE  LET d   == host.data
             end == IF host.n + UART_CHUNK < Len(d) THEN host.n + UART_CHUNK ELSE Len(d)
         IN
         /\ Requested' /\ Base' = Base /\ Len(sent') = Base + 2 + end
         /\ host'.n = end /\ host'.mode = (IF host.n = end THEN "result" ELSE "ack")
         /\ host'.id = host.id /\ host'.kind = host.kind /\ host'.data = d
         /\ host'.told = host.told /\ host'.quiet = host.quiet
         /\ end \in Nat /\ host.n <= end /\ end <= Len(d) /\ end - host.n <= UART_CHUNK
         /\ end = Len(d) \/ end = host.n + UART_CHUNK
         /\ host.n = end <=> host.n = Len(d)
<1> DEFINE d == host.data
           n == host.n
           end == IF n + UART_CHUNK < Len(d) THEN n + UART_CHUNK ELSE Len(d)
           s == SubSeq(d, n + 1, end)
<1>1. /\ Base \in Nat /\ n \in Nat /\ Len(sent) \in Nat /\ Len(sent) = Base + 2 + n
      /\ d \in Seq({P, U, NL}) /\ Len(d) \in Nat
  BY BaseIs
<1>2. n <= Len(d) BY DEF Requested
<1>3. /\ end \in Nat /\ n <= end /\ end <= Len(d) /\ end - n <= UART_CHUNK
      /\ end = Len(d) \/ end = n + UART_CHUNK
      /\ n = end <=> n = Len(d)
  <2> HIDE DEF d, n
  <2> QED BY <1>1, <1>2, BufferAssumption
<1>4. /\ host' = [host EXCEPT !.mode = IF n = end THEN "result" ELSE "ack", !.n = end]
      /\ sent' = sent \o s
  BY DEF SendChunk
<1> HIDE DEF end
<1>5. /\ host'.n = end /\ host'.mode = (IF n = end THEN "result" ELSE "ack")
      /\ host'.id = host.id /\ host'.kind = host.kind /\ host'.data = d
      /\ host'.told = host.told /\ host'.quiet = host.quiet
  BY <1>4 DEF Inv, Typed, Host
<1> HIDE DEF d, n
<1>6. \A i \in n + 1 .. end : d[i] \in {P, U, NL} BY <1>1, <1>3, ElementOfSeq
<1>7. /\ s \in Seq({P, U, NL}) /\ Len(s) = end - n
      /\ \A i \in 1 .. end - n : s[i] = d[n + i]
  <2>1. /\ s \in Seq({P, U, NL})
        /\ Len(s) = IF n + 1 <= end THEN end - (n + 1) + 1 ELSE 0
        /\ \A i \in 1 .. end - (n + 1) + 1 : s[i] = d[(n + 1) + i - 1]
    <3>1. n + 1 \in Int /\ end \in Int BY <1>1, <1>3
    <3> QED BY <1>6, <3>1, SubSeqProperties
  <2> HIDE DEF s
  <2>2. Len(s) = end - n BY <1>1, <1>3, <2>1
  <2>3. ASSUME NEW i \in 1 .. end - n PROVE s[i] = d[n + i]
    <3>1. i \in 1 .. end - (n + 1) + 1 /\ (n + 1) + i - 1 = n + i BY <1>1, <1>3
    <3> QED BY <2>1, <3>1
  <2> QED BY <2>1, <2>2, <2>3
<1> HIDE DEF s
<1>8. s \in Seq(Units)
  <2>1. {P, U, NL} \subseteq Units BY Pieces
  <2> QED BY <1>7, <2>1
<1>9. /\ Len(sent') = Len(sent) + Len(s)
      /\ \A i \in 1 .. Len(sent) : sent'[i] = sent[i]
      /\ \A i \in 1 .. Len(s) : sent'[Len(sent) + i] = s[i]
  <2>1. sent \in Seq(Units) BY DEF Inv, Wire
  <2> QED BY <1>4, <1>8, <2>1, ConcatProperties
<1>10. Len(sent') = Base + 2 + end BY <1>1, <1>3, <1>7, <1>9
<1>11. Base' = Base
  <2>1. Base' = Len(sent') - host'.n - 2 BY DEF Base
  <2> HIDE DEF Base
  <2> QED BY <1>1, <1>3, <1>5, <1>10, <2>1
<1>12. Requested'
  <2>1. Base + 1 \in 1 .. Len(sent) /\ Base + 2 \in 1 .. Len(sent) BY <1>1
  <2>2. /\ sent'[Base + 1] = Unit(host'.kind, Len(host'.data), host'.id)
        /\ sent'[Base + 2] = NL
    BY <1>5, <1>9, <2>1 DEF Requested, d
  <2>3. ASSUME NEW j \in 1 .. end PROVE sent'[Base + 2 + j] = d[j]
    <3>1. CASE j <= n
      <4>1. j \in 1 .. n /\ Base + 2 + j \in 1 .. Len(sent) BY <1>1, <3>1
      <4>2. sent[Base + 2 + j] = d[j] BY <4>1 DEF Requested, d, n
      <4> QED BY <1>9, <4>1, <4>2
    <3>2. CASE j > n
      <4> DEFINE i == j - n
      <4>1. i \in 1 .. end - n /\ i \in 1 .. Len(s) /\ Base + 2 + j = Len(sent) + i /\ n + i = j
        BY <1>1, <1>3, <1>7, <3>2
      <4> HIDE DEF i
      <4> QED BY <1>7, <1>9, <4>1
    <3> QED BY <1>1, <1>3, <3>1, <3>2
  <2>4. host'.kind \in Kinds /\ (host'.kind # "update" => host'.data = <<>>)
    BY <1>5 DEF Requested, d
  <2> QED BY <1>1, <1>3, <1>5, <1>11, <2>2, <2>3, <2>4 DEF Requested
<1> QED BY <1>3, <1>5, <1>10, <1>11, <1>12 DEF d, n, end

\* The ready line, or the acknowledgement of a chunk, is heard.
LEMMA GoesOn ==
  ASSUME Typed, NEW t \in {"RDY", "ACK"}, host.mode = (IF t = "RDY" THEN "rdy" ELSE "ack"),
         t = "RDY" => host.n = 0, line[1] = Own(t), Len(line) = 1, Heard(line)
  PROVE  SendChunk(host.n)
<1>1. line[1].t = t /\ Is(line, t) /\ Starts(line, {t}) BY DEF Own, Is, Starts
<1>2. CASE t = "RDY" BY <1>1, <1>2 DEF Heard, HeardReady, HeardAck, HeardResult, HeardOne, HeardRows, HeardGet
<1>3. CASE t = "ACK" BY <1>1, <1>3 DEF Heard, HeardReady, HeardAck, HeardResult, HeardOne, HeardRows, HeardGet
<1> QED BY <1>2, <1>3

\* The host at the end of a line, while the device receives.
LEMMA NextChunk ==
  ASSUME Inv, Reads, Requested, Receiving, UNCHANGED <<arrived, device>>,
         inp # <<>>, Head(inp).t = "eol", inp' = Tail(inp), line' = <<>>,
         line # <<>> => Heard(line)
  PROVE  Requested' /\ Receiving'
<1> DEFINE k == Len(dev.upBuf)
           d == host.data
           end == IF host.n + UART_CHUNK < Len(d) THEN host.n + UART_CHUNK ELSE Len(d)
<1>1. UNCHANGED <<pos, dev, tx, stored>> BY DEF device
<1>2. Typed /\ k \in Nat /\ k < dev.len BY DEF Inv, Typed, Dev, Uploading, Receiving
<1>3. /\ host.kind = "update" /\ dev.mode = "payload" /\ dev.id = host.id
      /\ dev.len = Len(d) /\ pos = Base + 2 + k /\ Await(k)
      /\ \A j \in 1 .. k : dev.upBuf[j] = d[j]
  BY DEF Receiving
<1>4. /\ Base \in Nat /\ host.n \in Nat /\ Len(sent) = Base + 2 + host.n /\ Len(d) \in Nat
      /\ pos \in Nat /\ pos <= Len(sent)
  BY BaseIs
<1> HIDE DEF k
<1>5. Len(Coming) # 0 BY <1>2, Silent
<1>6. PICK t \in {"RDY", "ACK"} :
        /\ host.mode = (IF t = "RDY" THEN "rdy" ELSE "ack") /\ (t = "RDY" => host.n = 0)
        /\ Len(Coming) = 2 /\ Says(1, t) /\ k = host.n /\ k % UART_CHUNK = 0
  <2>1. CASE host.mode = "rdy" /\ host.n = 0 /\ Len(Coming) = 2 /\ Says(1, "RDY")
    <3>1. k = 0 BY <1>2, <1>3, <1>4, <2>1
    <3>2. 0 % UART_CHUNK = 0 BY BufferAssumption
    <3> QED BY <2>1, <3>1, <3>2
  <2>2. CASE host.mode = "ack" /\ k = host.n /\ k % UART_CHUNK = 0 /\ Len(Coming) = 2 /\ Says(1, "ACK")
    BY <2>2
  <2> QED BY <1>3, <1>5, <2>1, <2>2 DEF Await
<1>7. line # <<>> /\ line[1] = Own(t) /\ Len(line) = 1 /\ Len(Coming') = 0
  <2>1. t \in Text \ {"eol"} BY DEF Text
  <2>2. line # <<>> /\ line[1] = Own(t) /\ Len(line) = 1 /\ Len(Coming') = Len(Coming) - 2
    BY <1>1, <1>2, <1>6, <2>1, FirstHeard
  <2> QED BY <1>6, <2>2
<1>8. SendChunk(host.n) BY <1>2, <1>6, <1>7, GoesOn
<1>9. /\ Requested' /\ Base' = Base
      /\ host'.n = end /\ host'.mode = (IF host.n = end THEN "result" ELSE "ack")
      /\ host'.id = host.id /\ host'.kind = host.kind /\ host'.data = d
      /\ end \in Nat /\ end - host.n <= UART_CHUNK /\ host.n <= end
      /\ end = Len(d) \/ end = host.n + UART_CHUNK
      /\ host.n = end <=> host.n = Len(d)
  BY <1>8, ChunkIs
<1> HIDE DEF end
<1>10. (k + UART_CHUNK) % UART_CHUNK = 0 /\ \A j \in k + 1 .. k + UART_CHUNK - 1 : j % UART_CHUNK # 0
  BY <1>2, <1>6, BufferAssumption, Multiples
<1>11. host.n # end /\ k < end BY <1>2, <1>3, <1>4, <1>6, <1>9
<1>12. \A j \in k + 1 .. end - 1 : j % UART_CHUNK # 0
  <2> TAKE j \in k + 1 .. end - 1
  <2>1. j \in k + 1 .. k + UART_CHUNK - 1 BY <1>2, <1>6, <1>9, BufferAssumption, SMTT(20)
  <2> QED BY <1>10, <2>1
<1>13. end = Len(d) \/ end % UART_CHUNK = 0 BY <1>6, <1>9, <1>10
<1>14. Chunk(k)' BY <1>1, <1>6, <1>9, <1>11, <1>12, <1>13 DEF Chunk, k
<1>15. Await(k)' BY <1>7, <1>9, <1>11, <1>14 DEF Await
<1>16. k' = k BY <1>1 DEF k
<1> QED BY <1>1, <1>3, <1>9, <1>15, <1>16 DEF Receiving, k, d

\* The host at the end of a line, after the answer of an update.
LEMMA ResultHeard ==
  ASSUME Inv, Reads, Requested, Answered, host.mode # "idle", host.kind = "update",
         UNCHANGED <<arrived, device>>,
         inp # <<>>, Head(inp).t = "eol", inp' = Tail(inp), line' = <<>>,
         line # <<>> => Heard(line)
  PROVE  Requested' /\ Answered'
<1> DEFINE d == host.data
           end == IF host.n + UART_CHUNK < Len(d) THEN host.n + UART_CHUNK ELSE Len(d)
<1>1. UNCHANGED <<pos, dev, tx, stored>> BY DEF device
<1>2. Typed /\ {"OK", "ERR", "RDY", "ACK"} \subseteq Text \ {"eol"} BY DEF Inv, Text
<1>3. /\ Base \in Nat /\ host.n \in Nat /\ Len(sent) = Base + 2 + host.n /\ Len(d) \in Nat
      /\ pos \in Nat
  BY BaseIs
<1>4. PICK t \in {"OK", "ERR"} : (t = "OK" => stored = d) /\ Outcome(t)
  BY DEF Answered, Answer, Result
<1>5. ASSUME NEW u \in {"RDY", "ACK"}, host.mode = (IF u = "RDY" THEN "rdy" ELSE "ack"),
             u = "RDY" => host.n = 0, AtEnd, t = "OK" => host.n = Len(d),
             Len(Coming) = 4, Says(1, u), Says(3, t)
      PROVE  Requested' /\ Answered'
  <2>1. /\ line # <<>> /\ line[1] = Own(u) /\ Len(line) = 1
        /\ Len(Coming') = 2 /\ \A i \in 1 .. Len(Coming') : Coming'[i] = Coming[i + 2]
    <3>1. /\ line # <<>> /\ line[1] = Own(u) /\ Len(line) = 1
          /\ Len(Coming') = Len(Coming) - 2
          /\ \A i \in 1 .. Len(Coming') : Coming'[i] = Coming[i + 2]
      BY <1>1, <1>2, <1>5, FirstHeard
    <3> QED BY <1>5, <3>1
  <2>2. SendChunk(host.n) BY <1>2, <1>5, <2>1, GoesOn
  <2>3. /\ Requested' /\ Base' = Base /\ Len(sent') = Base + 2 + end
        /\ host'.n = end /\ host'.mode = (IF host.n = end THEN "result" ELSE "ack")
        /\ host'.id = host.id /\ host'.kind = host.kind /\ host'.data = d
        /\ end \in Nat /\ end - host.n <= UART_CHUNK
        /\ host.n = end <=> host.n = Len(d)
    BY <2>2, ChunkIs
  <2> HIDE DEF end, d
  <2>4. Coming'[1] = Coming[3] /\ Coming'[2] = Coming[4] BY <2>1
  <2>5. Says(1, t)' BY <1>5, <2>3, <2>4 DEF Says, Own, Eol
  <2>6. Left' <= 2 + UART_CHUNK
    <3>1. Len(dev'.cmdBuf) = 0 /\ pos' = Base + 2 + host.n BY <1>1, <1>3, <1>5 DEF AtEnd
    <3>2. Left' = Len(Coming') + Len(dev'.cmdBuf) + (Len(sent') - pos') BY DEF Left
    <3>3. Len(sent') - pos' = end - host.n
      <4>1. (Base + 2 + end) - (Base + 2 + host.n) = end - host.n BY <1>3, <2>3, SMTT(20)
      <4> QED BY <2>3, <3>1, <4>1, Zenon
    <3>4. Left' = 2 + (end - host.n)
      <4>1. Len(Coming') = 2 /\ Len(dev'.cmdBuf) = 0 BY <2>1, <3>1
      <4> QED BY <1>3, <2>3, <3>2, <3>3, <4>1
    <3> QED BY <1>3, <2>3, <3>4, BufferAssumption, SMTT(20)
  <2>7. Final(t)' BY <1>5, <2>1, <2>3, <2>5, <2>6 DEF Final, d
  <2>8. Result' BY <1>1, <1>4, <2>3, <2>7 DEF Result, Outcome, d
  <2>9. Answer' BY <2>3, <2>8 DEF Answer
  <2>10. Answered' BY <1>1, <2>3, <2>9 DEF Answered
  <2> QED BY <2>3, <2>10
<1>6. CASE Final(t)
  <2>1. Says(1, t) /\ 2 <= Len(Coming) /\ host.mode \in {"ack", "result"}
        /\ (t = "OK" => host.mode = "result") BY <1>6 DEF Final
  <2>2. line # <<>> /\ line[1] = Own(t) /\ Len(line) = 1 BY <1>1, <1>2, <2>1, FirstHeard
  <2>3. line[1].t = t /\ line[1].id = host.id BY <2>2 DEF Own
  <2>4. Heard(line) BY <2>2
  <2>5. Done(line[1])
    <3>1. CASE host.mode = "ack"
      <4>1. t = "ERR" BY <2>1, <3>1
      <4>2. HeardAck(line) BY <2>4, <3>1
            DEF Heard, HeardReady, HeardAck, HeardResult, HeardOne, HeardRows, HeardGet
      <4> QED BY <2>3, <4>1, <4>2 DEF HeardAck, Starts
    <3>2. CASE host.mode = "result"
      <4>1. HeardResult(line) BY <2>4, <3>2
            DEF Heard, HeardReady, HeardAck, HeardResult, HeardOne, HeardRows, HeardGet
      <4> QED BY <2>3, <4>1 DEF HeardResult, Starts
    <3> QED BY <2>1, <3>1, <3>2
  <2>6. /\ host'.mode = "idle" /\ host'.told = line[1] /\ host'.id = host.id
        /\ host'.kind = host.kind /\ host'.data = d /\ host'.n = host.n /\ sent' = sent
    BY <2>5 DEF Done, Inv, Typed, Host
  <2>7. Base' = Base BY <2>6 DEF Base
  <2>8. Requested' BY <2>6, <2>7 DEF Requested
  <2>9. Answer' BY <1>1, <1>4, <2>3, <2>6 DEF Answer
  <2>10. Answered' BY <1>1, <2>7, <2>9 DEF Answered
  <2> QED BY <2>8, <2>10
<1> QED BY <1>4, <1>5, <1>6 DEF Outcome

\* The host at the end of a line, after the answer of another command.
LEMMA AnswerHeard ==
  ASSUME Inv, Reads, Requested, Answered, host.mode # "idle", host.kind # "update",
         UNCHANGED <<arrived, device>>,
         inp # <<>>, Head(inp).t = "eol", inp' = Tail(inp), line' = <<>>,
         IF line = <<>> THEN UNCHANGED <<host, sent>> ELSE Heard(line)
  PROVE  Requested' /\ Answered'
<1>1. UNCHANGED <<pos, dev, tx, stored>> BY DEF device
<1>2. Typed /\ host \in Host BY DEF Inv, Typed
<1>3. \A i \in 1 .. Len(Coming) : Mine(Coming[i]) BY DEF Answered, Answer
<1>4. \A i \in 1 .. Len(Coming') : Mine(Coming'[i])
  <2> TAKE i \in 1 .. Len(Coming')
  <2>1. /\ Len(line) + 1 + i \in 1 .. Len(Coming) /\ Coming'[i] = Coming[Len(line) + 1 + i]
    <3>1. Len(line) \in Nat /\ Len(Coming) \in Nat
      <4>1. line \in Seq(Symbol) /\ Coming \in Seq(Symbol) BY <1>2, ComingIs
      <4> HIDE DEF Coming
      <4> QED BY <4>1
    <3>2. /\ Len(Coming') \in Nat /\ Len(Coming') = Len(Coming) - Len(line) - 1
          /\ Coming'[i] = Coming[Len(line) + 1 + i]
      BY <1>1, <1>2, EolRead
    <3> QED BY <3>1, <3>2
  <2> QED BY <1>3, <2>1
<1>5. line # <<>> => line[1].id = host.id
  <2> SUFFICES ASSUME line # <<>> PROVE line[1].id = host.id OBVIOUS
  <2>1. 1 \in 1 .. Len(line)
    <3>1. line \in Seq(Symbol) BY <1>2, ComingIs
    <3> QED BY <3>1, EmptySeq
  <2>2. /\ Coming[1] = line[1] /\ line[1].t # "eol" /\ 1 \in 1 .. Len(Coming)
    <3>1. Len(line) + 1 \in 1 .. Len(Coming) /\ Len(line) \in Nat BY <1>1, <1>2, EolRead, ComingIs
    <3>2. Coming[1] = line[1] BY <1>1, <1>2, <2>1, EolRead
    <3> QED BY <2>1, <3>1, <3>2 DEF Reads
  <2> QED BY <1>3, <2>2 DEF Mine
<1>6. host.data = <<>> /\ host.n = 0 /\ Len(host.data) = 0
  <2>1. host.data = <<>> /\ host.n <= Len(host.data) BY DEF Requested
  <2> QED BY <1>2, <2>1, EmptySeq DEF Host
<1>7. CASE SendChunk(0) \/ SendChunk(host.n)
  <2>1. SendChunk(host.n) BY <1>6, <1>7
  <2>2. /\ Requested' /\ Base' = Base /\ host'.mode # "idle"
        /\ host'.id = host.id /\ host'.kind = host.kind
    BY <2>1, ChunkIs
  <2>3. Answer' BY <1>4, <2>2 DEF Answer, Mine
  <2> QED BY <1>1, <2>2, <2>3 DEF Answered
<1>8. CASE UNCHANGED <<host, sent>>
  <2>1. Base' = Base /\ Requested' BY <1>8 DEF Base, Requested
  <2>2. Answer' BY <1>4, <1>8 DEF Answer, Mine
  <2> QED BY <1>1, <2>1, <2>2 DEF Answered
<1>9. CASE line # <<>> /\ Done(line[1])
  <2>1. /\ host'.mode = "idle" /\ host'.told = line[1] /\ host'.id = host.id
        /\ host'.kind = host.kind /\ host'.data = host.data /\ host'.n = host.n /\ sent' = sent
    BY <1>2, <1>9 DEF Done, Host
  <2>2. Base' = Base BY <2>1 DEF Base
  <2>3. Requested' BY <2>1, <2>2 DEF Requested
  <2>4. Answer' BY <1>5, <1>9, <2>1 DEF Answer
  <2> QED BY <1>1, <2>2, <2>3, <2>4 DEF Answered
<1>10. CASE host' = [host EXCEPT !.mode = "hex"] /\ UNCHANGED sent
  <2>1. /\ host'.mode = "hex" /\ host'.id = host.id
        /\ host'.kind = host.kind /\ host'.data = host.data /\ host'.n = host.n
    BY <1>2, <1>10 DEF Host
  <2>2. Base' = Base BY <1>10, <2>1 DEF Base
  <2>3. Requested' BY <1>10, <2>1, <2>2 DEF Requested
  <2>4. Answer' BY <1>4, <2>1 DEF Answer, Mine
  <2> QED BY <1>1, <2>2, <2>3, <2>4 DEF Answered
<1>11. \/ UNCHANGED <<host, sent>> \/ SendChunk(0) \/ SendChunk(host.n)
       \/ line # <<>> /\ Done(line[1])
       \/ host' = [host EXCEPT !.mode = "hex"] /\ UNCHANGED sent
  BY DEF Heard, HeardReady, HeardAck, HeardResult, HeardOne, HeardRows, HeardGet, Skip
<1> QED BY <1>7, <1>8, <1>9, <1>10, <1>11

\* The quiet flag stays, and an answer ends the exchange.
LEMMA HeardHost ==
  ASSUME Inv, Heard(line)
  PROVE  /\ host'.quiet = host.quiet
         /\ host'.mode # "idle" => host'.told = host.told
<1>1. host \in Host BY DEF Inv, Typed
<1>2. CASE SendChunk(0) \/ SendChunk(host.n) BY <1>1, <1>2 DEF SendChunk, Host
<1>3. CASE Skip BY <1>3 DEF Skip
<1>4. CASE Done(line[1]) BY <1>1, <1>4 DEF Done, Host
<1>5. CASE host' = [host EXCEPT !.mode = "hex"] BY <1>1, <1>5 DEF Host
<1> QED BY <1>2, <1>3, <1>4, <1>5
        DEF Heard, HeardReady, HeardAck, HeardResult, HeardOne, HeardRows, HeardGet

LEMMA ReadExchange ==
  ASSUME Inv, Exchange, ReadUnit
  PROVE  Exchange'
<1>1. /\ host.mode # "idle" /\ inp # <<>> /\ inp' = Tail(inp) /\ UNCHANGED <<arrived, device>>
  BY DEF ReadUnit
<1>2. UNCHANGED <<pos, dev, tx, stored>> /\ Typed /\ Reads BY <1>1 DEF device, Inv, Exchange
<1>3. host.told = NoAnswer BY <1>1, <1>2 DEF Reads
<1>4. CASE Head(inp).t # "eol"
  <2>1. line' = Append(line, Head(inp)) /\ UNCHANGED <<host, sent>> BY <1>4 DEF ReadUnit
  <2>2. Coming' = Coming BY <1>1, <1>2, <2>1, ReadKeeps
  <2>3. Reads'
    <3>1. line \in Seq(Symbol) /\ inp \in Seq(Symbol) /\ Head(inp) \in Symbol
      BY <1>1, <1>2, HeadTailProperties DEF Typed
    <3>2. /\ Len(line') = Len(line) + 1 /\ Len(line) \in Nat
          /\ \A i \in 1 .. Len(line) : line'[i] = line[i]
          /\ line'[Len(line) + 1] = Head(inp)
      BY <2>1, <3>1, AppendProperties
    <3>3. \A i \in 1 .. Len(line') : line'[i].t # "eol"
      <4> TAKE i \in 1 .. Len(line')
      <4>1. CASE i = Len(line) + 1 BY <1>4, <3>2, <4>1
      <4>2. CASE i # Len(line) + 1
        <5>1. i \in 1 .. Len(line) BY <3>2, <4>2
        <5> QED BY <1>2, <3>2, <5>1 DEF Reads
      <4> QED BY <4>1, <4>2
    <3> QED BY <1>1, <1>3, <2>1, <3>3 DEF Reads
  <2> QED BY <1>2, <2>1, <2>2, <2>3, SameExchange
<1>5. CASE Head(inp).t = "eol"
  <2>1. line' = <<>> /\ IF line = <<>> THEN UNCHANGED <<host, sent>> ELSE Heard(line)
    BY <1>5 DEF ReadUnit
  <2>2. host'.quiet = host.quiet /\ (host'.mode # "idle" => host'.told = NoAnswer)
    BY <1>3, <2>1, HeardHost
  <2>3. Reads' BY <2>1, <2>2, EmptySeq DEF Reads
  <2>4. Len(Coming) # 0
    <3>1. Len(Coming) = 0 => inp = <<>> BY <1>2, Silent
    <3> QED BY <1>1, <3>1
  <2>5. ASSUME Live PROVE Requested' /\ (Receiving' \/ Answered')
    <3>1. Requested /\ (Receiving \/ Answered) BY <2>4, <2>5 DEF Exchange, NoneYet
    <3>2. CASE Receiving BY <1>1, <1>2, <1>5, <2>1, <3>1, <3>2, NextChunk
    <3>3. CASE Answered /\ host.kind = "update" BY <1>1, <1>2, <1>5, <2>1, <3>1, <3>3, ResultHeard
    <3>4. CASE Answered /\ host.kind # "update" BY <1>1, <1>2, <1>5, <2>1, <3>1, <3>4, AnswerHeard
    <3> QED BY <3>1, <3>2, <3>3, <3>4
  <2>6. Live' => Live BY <1>1, <2>2 DEF Live
  <2> QED BY <2>3, <2>5, <2>6 DEF Exchange
<1> QED BY <1>4, <1>5

\* Something is written behind what was.
LEMMA JoinedUnits ==
  ASSUME NEW a \in Seq(Units), NEW b \in Seq(Units)
  PROVE  /\ Len(a \o b) = Len(a) + Len(b)
         /\ \A i \in 1 .. Len(b) : (a \o b)[Len(a) + i] = b[i]
OBVIOUS

\* A command is typed.
LEMMA TypeExchange ==
  ASSUME Inv, Exchange, NEW k \in Kinds, NEW d \in Seq({P, U, NL}), k # "update" => d = <<>>,
         Type(k, d)
  PROVE  Exchange'
<1> DEFINE u == Unit(k, Len(d), host.id + 1)
<1>1. /\ host.mode = "idle" /\ sent' = sent \o <<u, NL>> /\ UNCHANGED <<arrived, device, inp, line>>
  BY DEF Type
<1>2. UNCHANGED <<pos, dev, tx, stored>> BY <1>1 DEF device
<1>3. /\ host'.mode = FirstWait[k] /\ host'.id = host.id + 1 /\ host'.kind = k
      /\ host'.data = d /\ host'.n = 0 /\ host'.told = NoAnswer /\ host'.quiet = QuietLine
  BY DEF Type, Inv, Typed, Host
<1>4. Reads' BY <1>1, <1>3 DEF Exchange, Reads
<1>5. ASSUME QuietLine PROVE Requested' /\ NoneYet'
  <2>1. u \in Units
    <3>1. Len(d) \in Nat /\ host.id + 1 \in Nat BY DEF Inv, Typed, Host
    <3> QED BY <3>1 DEF Unit, Units, Word, Kinds
  <2> HIDE DEF u
  <2>2. sent \in Seq(Units) /\ Len(sent) \in Nat BY DEF Inv, Wire
  <2>3. /\ <<u, NL>> \in Seq(Units) /\ Len(<<u, NL>>) = 2
        /\ <<u, NL>>[1] = u /\ <<u, NL>>[2] = NL
    BY <2>1, Pieces
  <2>4. Len(sent') = Len(sent) + 2 /\ sent'[Len(sent) + 1] = u /\ sent'[Len(sent) + 2] = NL
    <3> DEFINE s == <<u, NL>>
    <3>1. s \in Seq(Units) /\ Len(s) = 2 /\ s[1] = u /\ s[2] = NL BY <2>3
    <3> HIDE DEF s
    <3>2. sent' = sent \o s BY <1>1 DEF s
    <3>3. /\ Len(sent') = Len(sent) + Len(s)
          /\ \A i \in 1 .. Len(s) : sent'[Len(sent) + i] = s[i]
      BY <2>2, <3>1, <3>2, JoinedUnits
    <3>4. 1 \in 1 .. Len(s) /\ 2 \in 1 .. Len(s) BY <3>1
    <3> QED BY <3>1, <3>3, <3>4
  <2>5. Base' = Len(sent)
    <3>1. Base' = Len(sent') - host'.n - 2 BY DEF Base
    <3> QED BY <1>3, <2>2, <2>4, <3>1
  <2>6. Requested'
    <3>1. Len(d) \in Nat /\ \A j \in 1 .. 0 : sent'[Base' + 2 + j] = host'.data[j] OBVIOUS
    <3> QED BY <1>3, <2>2, <2>4, <2>5, <3>1 DEF Requested, u
  <2>7. Len(Coming') = 0
    <3>1. line = <<>> /\ inp = <<>> /\ tx.ring = <<>> BY <1>1, <1>5 DEF Exchange, Reads, QuietLine
    <3>2. <<>> \o (<<>> \o <<>>) = <<>> OBVIOUS
    <3>3. Coming' = <<>> BY <1>1, <1>2, <3>1, <3>2 DEF Coming
    <3> QED BY <3>3, EmptySeq
  <2>8. NoneYet' BY <1>2, <1>3, <1>5, <2>5, <2>7 DEF NoneYet, QuietLine
  <2> QED BY <2>6, <2>8
<1>6. Live' => QuietLine BY <1>3 DEF Live
<1> QED BY <1>4, <1>5, <1>6 DEF Exchange

\* An exchange that is given up is over.
LEMMA AbandonedExchange ==
  ASSUME Inv, Exchange, GiveUp \/ Restart
  PROVE  Exchange'
<1>1. host \in Host /\ line' = <<>> BY DEF Inv, Typed, GiveUp, Restart
<1>2. CASE GiveUp
  <2>1. host'.mode = "idle" /\ host'.told = host.told /\ host.mode # "idle"
    BY <1>1, <1>2 DEF GiveUp, Host
  <2>2. host'.told = NoAnswer BY <2>1 DEF Exchange, Reads
  <2> QED BY <1>1, <2>1, <2>2, EmptySeq DEF Exchange, Reads, Live
<1>3. CASE Restart
  <2>1. host'.mode = "idle" /\ host'.told = NoAnswer BY <1>1, <1>3 DEF Restart, Prompt
  <2> QED BY <1>1, <2>1, EmptySeq DEF Exchange, Reads, Live
<1> QED BY <1>2, <1>3

LEMMA NextExchange == Inv /\ Inv' /\ Exchange /\ [Next]_vars => Exchange'
<1> SUFFICES ASSUME Inv, Inv', Exchange, [Next]_vars PROVE Exchange' OBVIOUS
<1>1. CASE UNCHANGED vars
  <2>1. UNCHANGED <<sent, pos, dev, stored, host, tx, inp, line>> BY <1>1 DEF vars, device, terminal
  <2>2. Coming' = Coming /\ Reads' BY <2>1 DEF Coming, Exchange, Reads
  <2> QED BY <2>1, <2>2, SameExchange
<1>2. CASE Arrive
  <2>1. UNCHANGED <<sent, pos, dev, stored, host, tx, inp, line>>
    BY <1>2 DEF Arrive, device, terminal
  <2>2. Coming' = Coming /\ Reads' BY <2>1 DEF Coming, Exchange, Reads
  <2> QED BY <2>1, <2>2, SameExchange
<1>3. CASE txDrain
  <2>1. UNCHANGED <<sent, pos, dev, stored, host, line>> BY <1>3 DEF txDrain, terminal
  <2>2. Coming' = Coming BY <1>3, DrainKeeps DEF Inv
  <2>3. Reads' BY <2>1 DEF Exchange, Reads
  <2> QED BY <2>1, <2>2, <2>3, SameExchange
<1>4. CASE Device BY <1>4, DeviceExchange
<1>5. CASE Terminal
  <2>1. ASSUME NEW k \in Kinds \ {"update"}, Type(k, <<>>) PROVE Exchange'
    <3>1. <<>> \in Seq({P, U, NL}) BY EmptySeq
    <3> QED BY <2>1, <3>1, TypeExchange
  <2>2. ASSUME NEW d \in Contents, Type("update", d) PROVE Exchange'
    <3>1. "update" \in Kinds BY DEF Kinds
    <3> QED BY <2>2, <3>1, TypeExchange, ContentsAssumption
  <2>3. CASE ReadUnit BY <2>3, ReadExchange
  <2>4. CASE GiveUp \/ Restart BY <2>4, AbandonedExchange
  <2> QED BY <1>5, <2>1, <2>2, <2>3, <2>4 DEF Terminal
<1> QED BY <1>1, <1>2, <1>3, <1>4, <1>5 DEF Next

\* A command typed on a quiet line is answered by its own answer, however the line and the
\* host delay its pieces; an update reported OK has stored the file the user chose.
THEOREM QuietIsAnswered == Spec => []QuietExchange
<1>1. Init => Exchange
  <2> SUFFICES ASSUME Init PROVE Exchange OBVIOUS
  <2>1. line = <<>> /\ host.mode = "idle" /\ host.quiet = FALSE BY DEF Init, Prompt
  <2> QED BY <2>1, EmptySeq DEF Exchange, Reads, Live
<1>2. Inv /\ Exchange => QuietExchange
  <2> SUFFICES ASSUME Inv, Exchange, host.quiet, host.told # NoAnswer
               PROVE  /\ host.told.id = host.id
                      /\ host.kind = "update" /\ host.told.t = "OK" => stored = host.data
    BY DEF QuietExchange
  <2>1. host.mode = "idle" /\ Live BY DEF Exchange, Reads, Live
  <2>2. Requested /\ (NoneYet \/ Receiving \/ Answered) BY <2>1 DEF Exchange
  <2>3. ~NoneYet BY <2>1, <2>2 DEF NoneYet, Requested, FirstWait, Kinds
  <2>4. ~Receiving BY <2>1 DEF Receiving, Await
  <2> QED BY <2>1, <2>2, <2>3, <2>4 DEF Answered, Answer
<1> QED BY <1>1, <1>2, InitInv, NextInv, NextExchange, PTL DEF Spec
=============================================================================
