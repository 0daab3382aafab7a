------------------------------ MODULE SerialLine ------------------------------
(***************************************************************************)
(* The serial line: the device's transport (src/Core/ARSUART.cpp) and      *)
(* command layer (src/Core/ARSCMD.cpp) at one end, the terminal            *)
(* (src/Terminal/ARSTerm.py) at the other.                                 *)
(*                                                                         *)
(* A unit on the wire stands for some bytes: the text of a command, its    *)
(* line end, or a piece of a file.  An answer line is a unit of text and a *)
(* line end.  The answer carries the number of the command it answers: the *)
(* terminal does not see that number, the properties do.                   *)
(*                                                                         *)
(* The device waits in two places, for the payload of an update and for    *)
(* quiet in rxFlush; everything else it does between two units is one      *)
(* step.  What a command does to tasks and files is in ARSSched and ARSFS; *)
(* here, only which answers it can give, and the file the last update left.*)
(***************************************************************************)
EXTENDS Integers, Sequences, SequencesExt

CONSTANTS
  CMD_MAX,         \* size of the line buffer, its final 0 included
  UART_CHUNK,      \* units the device acknowledges, and the terminal sends, at once
  TX_RING, TX_KEEP,\* size of the transmit ring; backlog a new answer leaves in it
  Contents,        \* files the user has, sequences of P, U and NL
  MaxCmd           \* bound: commands the user types

\* A ring with the backlog in it has room for the longest answer: for an acknowledgement
\* and an error, and for three lines.  (1024, at most 4241 and 8192 bytes in the code.)
ASSUME RingAssumption == TX_KEEP + 6 < TX_RING
\* The backlog a new answer leaves holds an acknowledgement, and the errors of a chunk that
\* comes too late and is read as lines: they do not push out the error of its timeout.
\* (At most 64 lines of 13 bytes, and 1024 bytes in the code.)
ASSUME KeepAssumption == 2 <= TX_KEEP /\ UART_CHUNK <= TX_KEEP
ASSUME BufferAssumption ==
  /\ CMD_MAX \in Nat \ {0, 1} /\ UART_CHUNK \in Nat \ {0} /\ MaxCmd \in Nat
  /\ TX_RING \in Nat /\ TX_KEEP \in Nat

VARIABLES
  sent,    \* all the terminal has written
  arrived, \* how many units of it have reached the device,
  pos,     \* and how many the device has read
  dev,     \* what the device is doing
  tx,      \* its transmit ring
  inp,     \* answers that have reached the host and are not read
  host,    \* what the terminal is doing
  line,    \* the answer line it is reading
  stored   \* the file the last update left
device == <<pos, dev, tx, stored>>
terminal == <<host, line>>
vars == <<sent, arrived, device, inp, terminal>>

-----------------------------------------------------------------------------
Unit(k, n, i) == [k |-> k, len |-> n, id |-> i]
NL == Unit("nl", 0, 0)
P  == Unit("p", 0, 0)    \* printable bytes that begin no command
U  == Unit("u", 0, 0)    \* a byte outside 0x20 .. 0x7E
Kinds == {"update", "bad", "ls", "get", "one"}
ASSUME ContentsAssumption == Contents \subseteq Seq({P, U, NL})

AnswerLine(t, i) == <<[t |-> t, id |-> i], [t |-> "eol", id |-> 0]>>
AnswerLines(ts, i) ==
  [k \in 1 .. 2 * Len(ts) |-> AnswerLine(ts[(k + 1) \div 2], i)[IF k % 2 = 1 THEN 1 ELSE 2]]

(* The answers of the commands served at once.                             *)
OneLine  == {<<"OK">>, <<"ERR">>}          \* start, kill, killid, reboot, del, format, ver
Listing  == {<<"LS", "OK">>, <<"LS", "ROW", "OK">>}                  \* ls, tasks, occ
Download == {<<"ERR">>, <<"DATA0", "OK">>, <<"DATA", "ROW", "OK">>}  \* get; DATA0: no bytes
Answers  == [one |-> OneLine, ls |-> Listing, get |-> Download]

\* Mutant: what is left of earlier answers is never dropped.
txBegin_keepsAll(r) == [r EXCEPT !.over = FALSE]

\* A new answer drops the rest of the old ones if nobody seems to read them.
txBegin(r) == [ring |-> IF Len(r.ring) > TX_KEEP THEN <<>> ELSE r.ring, over |-> FALSE]

\* When the ring is full the rest of the answer is dropped.
txPut(r, s) ==
  LET room == TX_RING - 1 - Len(r.ring)
  IN  IF r.over THEN r
      ELSE [ring |-> r.ring \o SubSeq(s, 1, IF Len(s) < room THEN Len(s) ELSE room),
            over |-> Len(s) > room]

Put(r, t, i)   == txPut(r, AnswerLine(t, i))
Begin(r, t, i) == Put(txBegin(r), t, i)

-----------------------------------------------------------------------------
(* The device.                                                             *)
Waiting   == [mode |-> "command", cmdBuf |-> <<>>, id |-> 0, len |-> 0, upBuf |-> <<>>]
Available == pos < arrived
c         == sent[pos + 1]
Take      == Available /\ pos' = pos + 1
Quietly   == UNCHANGED <<sent, arrived, inp, terminal>>

\* Mutant: the buffer is filled to its last byte.
PollChar_full ==
  /\ dev.mode = "command" /\ Take /\ c # NL
  /\ dev' = IF Len(dev.cmdBuf) < CMD_MAX THEN [dev EXCEPT !.cmdBuf = Append(@, c)] ELSE dev
  /\ UNCHANGED <<tx, stored>> /\ Quietly

\* A unit joins the line; past the end of the buffer it is dropped.
PollChar ==
  /\ dev.mode = "command" /\ Take /\ c # NL
  /\ dev' = IF Len(dev.cmdBuf) < CMD_MAX - 1
            THEN [dev EXCEPT !.cmdBuf = Append(@, c)] ELSE dev
  /\ UNCHANGED <<tx, stored>> /\ Quietly

\* The line is complete; Served(k): it is command k.
LineRead  == dev.mode = "command" /\ Take /\ c = NL /\ Quietly
Printable == U \notin ToSet(dev.cmdBuf)
Served(k) == LineRead /\ dev.cmdBuf # <<>> /\ Printable /\ dev.cmdBuf[1].k = k
Told      == dev.cmdBuf[1].id

BlankLine == LineRead /\ dev.cmdBuf = <<>> /\ UNCHANGED <<dev, tx, stored>>

\* A line with unprintable bytes, and what follows it, is dropped without an answer.
GarbledLine ==
  /\ LineRead /\ ~Printable
  /\ dev' = [Waiting EXCEPT !.mode = "flush"] /\ UNCHANGED <<tx, stored>>

\* A command behind late units ends the line, or has been cut off.
UnknownLine ==
  /\ Served("p")
  /\ tx' = Begin(tx, "ERR", Last(dev.cmdBuf).id)
  /\ dev' = Waiting /\ UNCHANGED stored

Command ==
  /\ \E k \in DOMAIN Answers :
       Served(k) /\ \E a \in Answers[k] : tx' = txPut(txBegin(tx), AnswerLines(a, Told))
  /\ dev' = Waiting /\ UNCHANGED stored

\* update with no length, the line buffer having cut it off, or with too large a one.
UpdateRefused ==
  /\ Served("bad")
  /\ tx' = Begin(tx, "ERR", Told)
  /\ dev' = [Waiting EXCEPT !.mode = "flush"] /\ UNCHANGED stored

\* Mutant: the answer is the return code of createFile.
Store_createRc(r, b, i) ==
  /\ stored' \in {b, <<>>} /\ tx' = Begin(r, "OK", i)

\* The directory or the flash may be full; a write that fails leaves the file empty.
Store(r, b, i) ==
  \/ stored' = b /\ tx' = Begin(r, "OK", i)
  \/ stored' \in {stored, <<>>} /\ tx' = Begin(r, "ERR", i)

\* Mutant: what an update cut short had received is not forgotten.
handleUpdate_keepsGot ==
  /\ Served("update")
  /\ LET n == dev.cmdBuf[1].len
         r == Begin(tx, "RDY", Told)
     IN  IF n <= Len(dev.upBuf) THEN Store(r, SubSeq(dev.upBuf, 1, n), Told) /\ dev' = Waiting
         ELSE /\ dev' = [dev EXCEPT !.mode = "payload", !.cmdBuf = <<>>, !.id = Told, !.len = n]
              /\ tx' = r /\ UNCHANGED stored

handleUpdate ==
  /\ Served("update")
  /\ LET n == dev.cmdBuf[1].len
         r == Begin(tx, "RDY", Told)
     IN  IF n = 0 THEN Store(r, <<>>, Told) /\ dev' = Waiting
         ELSE /\ dev' = [Waiting EXCEPT !.mode = "payload", !.id = Told, !.len = n]
              /\ tx' = r /\ UNCHANGED stored

\* A unit of the payload, the acknowledgement of its chunk, and the file.
PayloadByte ==
  LET b     == Append(dev.upBuf, c)
      acked == Len(b) = dev.len \/ Len(b) % UART_CHUNK = 0
      r     == IF acked THEN Begin(tx, "ACK", dev.id) ELSE tx
  IN  /\ dev.mode = "payload" /\ Take /\ Quietly
      /\ IF Len(b) = dev.len THEN Store(r, b, dev.id) /\ dev' = Waiting
         ELSE dev' = [dev EXCEPT !.upBuf = b] /\ tx' = r /\ UNCHANGED stored

\* Mutant: the clock starts with the first byte.
PayloadTimeout_late ==
  /\ dev.mode = "payload" /\ ~Available /\ dev.upBuf # <<>>
  /\ tx' = Put(tx, "ERR", dev.id) /\ dev' = [dev EXCEPT !.mode = "flush"]
  /\ UNCHANGED <<pos, stored>> /\ Quietly

\* Five seconds without a byte.
PayloadTimeout ==
  /\ dev.mode = "payload" /\ ~Available
  /\ tx' = Put(tx, "ERR", dev.id) /\ dev' = [dev EXCEPT !.mode = "flush"]
  /\ UNCHANGED <<pos, stored>> /\ Quietly

\* rxFlush drops what comes in, until 120 ms without a byte.
FlushByte ==
  /\ dev.mode = "flush" /\ Take /\ UNCHANGED <<dev, tx, stored>> /\ Quietly
FlushEnd ==
  /\ dev.mode = "flush" /\ ~Available
  /\ dev' = [dev EXCEPT !.mode = "command", !.cmdBuf = <<>>]
  /\ UNCHANGED <<pos, tx, stored>> /\ Quietly

Device == \/ PollChar \/ BlankLine \/ GarbledLine \/ UnknownLine \/ Command
          \/ UpdateRefused \/ handleUpdate \/ PayloadByte \/ PayloadTimeout
          \/ FlushByte \/ FlushEnd

\* The line takes some of the ring whenever the host accepts it; rxFlush sends nothing.
txDrain ==
  /\ dev.mode # "flush" /\ tx.ring # <<>>
  /\ inp' = Append(inp, Head(tx.ring)) /\ tx' = [tx EXCEPT !.ring = Tail(@)]
  /\ UNCHANGED <<sent, arrived, pos, dev, stored, terminal>>

Arrive == arrived < Len(sent) /\ arrived' = arrived + 1
          /\ UNCHANGED <<sent, device, inp, terminal>>

-----------------------------------------------------------------------------
(* The terminal.  quiet: the line was quiet when the command was typed;    *)
(* patient: no command was given up so far.                                *)
NoAnswer == [t |-> "none", id |-> 0]
Prompt   == [mode |-> "idle", id |-> 0, kind |-> "none", data |-> <<>>, n |-> 0,
             told |-> NoAnswer, quiet |-> FALSE, patient |-> TRUE]

\* Nothing under way, nothing left over, at either end or in between.
QuietLine ==
  /\ arrived = Len(sent) /\ pos = arrived /\ dev.mode = "command" /\ dev.cmdBuf = <<>>
  /\ tx.ring = <<>> /\ inp = <<>>

FirstWait == [update |-> "rdy", bad |-> "rdy", ls |-> "rows", get |-> "data", one |-> "one"]

\* The user types a command. drain() reads nothing: its body is a string.
Type(k, d) ==
  /\ host.mode = "idle" /\ host.id < MaxCmd
  /\ host' = [host EXCEPT !.mode = FirstWait[k], !.id = @ + 1, !.kind = k, !.data = d,
                          !.n = 0, !.told = NoAnswer, !.quiet = QuietLine]
  /\ sent' = sent \o <<Unit(k, Len(d), host.id + 1), NL>>
  /\ UNCHANGED <<arrived, device, inp, line>>

Done(t) == host' = [host EXCEPT !.mode = "idle", !.told = t] /\ UNCHANGED sent

\* The n-th unit onwards: the next chunk is written, or all has been.
SendChunk(n) ==
  LET end == IF n + UART_CHUNK < Len(host.data) THEN n + UART_CHUNK ELSE Len(host.data)
  IN  /\ host' = [host EXCEPT !.mode = IF n = end THEN "result" ELSE "ack", !.n = end]
      /\ sent' = sent \o SubSeq(host.data, n + 1, end)

Skip == UNCHANGED <<host, sent>>

\* A line l is heard.  startswith looks at its first unit, == at the whole of it.
Starts(l, S) == l[1].t \in S
Is(l, t)     == l[1].t = t /\ Len(l) = 1

HeardReady(l) ==
  /\ host.mode = "rdy"
  /\ IF Is(l, "RDY") THEN SendChunk(0)
     ELSE IF Starts(l, {"RDY", "ERR"}) THEN Done(l[1]) ELSE Skip

HeardAck(l) ==
  /\ host.mode = "ack"
  /\ IF Starts(l, {"ACK"}) THEN SendChunk(host.n)
     ELSE IF Starts(l, {"ERR"}) THEN Done(l[1]) ELSE Skip

HeardResult(l) ==
  host.mode = "result" /\ IF Starts(l, {"OK", "ERR"}) THEN Done(l[1]) ELSE Skip

\* Whatever comes is taken for the answer.
HeardOne(l)  == host.mode = "one" /\ Done(l[1])
HeardRows(l) == host.mode = "rows" /\ IF Is(l, "OK") THEN Done(l[1]) ELSE Skip

\* get reads until it has the bytes announced, and leaves the OK behind them.
HeardGet(l) ==
  \/ /\ host.mode = "data"
     /\ IF Starts(l, {"DATA"}) THEN host' = [host EXCEPT !.mode = "hex"] /\ UNCHANGED sent
        ELSE Done(l[1])
  \/ host.mode = "hex" /\ (Is(l, "OK") \/ Starts(l, {"ROW"})) /\ Done(l[1])

Heard(l) == \/ HeardReady(l) \/ HeardAck(l) \/ HeardResult(l)
            \/ HeardOne(l) \/ HeardRows(l) \/ HeardGet(l)

\* One unit of the input is read.
ReadUnit ==
  /\ host.mode # "idle" /\ inp # <<>> /\ inp' = Tail(inp)
  /\ IF Head(inp).t # "eol"
     THEN line' = Append(line, Head(inp)) /\ UNCHANGED <<host, sent>>
     ELSE line' = <<>> /\ IF line = <<>> THEN UNCHANGED <<host, sent>> ELSE Heard(line)
  /\ UNCHANGED <<arrived, device>>

\* Nothing came in time; the line read so far is forgotten.
GiveUp ==
  /\ host.mode # "idle" /\ line' = <<>>
  /\ host' = [host EXCEPT !.mode = "idle", !.patient = FALSE]
  /\ UNCHANGED <<sent, arrived, device, inp>>

\* The terminal ends, by Ctrl-C or by a line that is no hexadecimal, and is started
\* again: opening the port clears its input.
Restart ==
  /\ host' = [Prompt EXCEPT !.id = host.id, !.patient = FALSE] /\ line' = <<>> /\ inp' = <<>>
  /\ UNCHANGED <<sent, arrived, device>>

Terminal ==
  \/ \E k \in Kinds \ {"update"} : Type(k, <<>>)
  \/ \E d \in Contents : Type("update", d)
  \/ ReadUnit \/ GiveUp \/ Restart

Init ==
  /\ sent = <<>> /\ arrived = 0 /\ pos = 0 /\ dev = Waiting
  /\ tx = [ring |-> <<>>, over |-> FALSE] /\ inp = <<>>
  /\ host = Prompt /\ line = <<>> /\ stored = <<>>

Next == Device \/ txDrain \/ Arrive \/ Terminal

\* poll and the waits inside the handlers never stop, and the line delivers.
Spec == Init /\ [][Next]_vars /\ WF_vars(Device) /\ WF_vars(Arrive)

-----------------------------------------------------------------------------
\* The buffers hold what their sizes allow.
TypeOK ==
  /\ pos <= arrived /\ arrived <= Len(sent)
  /\ dev.mode \in {"command", "payload", "flush"}
  /\ Len(dev.cmdBuf) < CMD_MAX
  /\ dev.mode = "payload" => Len(dev.upBuf) < dev.len
  /\ Len(tx.ring) < TX_RING
  /\ host.mode \in {"idle", "result", "ack", "hex"} \cup {FirstWait[k] : k \in Kinds}

\* However long the host has not read, the ring's end cuts no answer (txOver is kept for
\* answers longer than there are), and nothing leaves the ring but what is sent and, when a
\* later command begins, a backlog past TX_KEEP: then all that is unsent goes at once, the
\* rest of an answer half sent included (what README.md:451 sees cut).  An answer of two
\* lines finds its first one in the backlog.
OnlyBacklogIsDropped ==
  [][/\ ~tx'.over
     /\ \/ IsPrefix(tx.ring, tx'.ring)
        \/ tx'.ring = Tail(tx.ring)
        \/ Len(tx.ring) + 2 > TX_KEEP]_vars

\* Whatever was abandoned, delayed or resent, the file an update leaves is one piece of
\* what the terminal wrote: as long as the update line before it says, and nothing of
\* an earlier attempt.
NeverSpliced ==
  stored # <<>> =>
    \E i \in DOMAIN sent :
      /\ sent[i].k = "update" /\ sent[i].len = Len(stored)
      /\ i + 1 + Len(stored) <= Len(sent)
      /\ stored = SubSeq(sent, i + 2, i + 1 + Len(stored))

\* A command typed when the line is quiet is answered by its own answer, and an update
\* reported OK has stored the file the user chose.
QuietExchange ==
  host.quiet /\ host.told # NoAnswer =>
    /\ host.told.id = host.id
    /\ host.kind = "update" /\ host.told.t = "OK" => stored = host.data

\* The terminal may vanish in the middle of anything: the device serves commands, and
\* runs tasks, again.
DeviceComesBack == dev.mode # "command" ~> dev.mode = "command"

\* ARSTerm.py:63-64: drain() keeps a command from reading the answer of the one before
\* it.  Here not even a user who waits for every answer gets his own.
AnswerIsOwn == host.patient /\ host.told # NoAnswer => host.told.id = host.id
=============================================================================
