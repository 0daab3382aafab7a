------------------------------ MODULE Language ------------------------------
(***************************************************************************)
(* What a program of the ARS language does (README.md, "ARS language" and  *)
(* "instruction set"), with neither addresses nor code: a line at a time,  *)
(* on variables by name.  A call makes fresh variables, the parameters     *)
(* first and the others with any value, and a return forgets them.         *)
(*                                                                         *)
(* Variables hold one element or several; <<v, k>> is element k of v.      *)
(***************************************************************************)
EXTENDS ARSSource

CONSTANTS
  Sources,     \* the programs: sequences of lines
  Input,       \* what a pin or the clock may be read as
  Letter,      \* what the other task may send
  Device       \* addresses of device registers

VARIABLES
  prog,        \* the program
  line,        \* the line that is next, 0 before the start and after the end
  frames,      \* the calls: the variables of each and the line it came from
  result,      \* CalcResu
  args,        \* parameters pushed and not yet taken
  box,         \* box[0], the program's mailbox, and box[1], the other task's
  reg,         \* device registers
  pin          \* the last pin written, and its level
vars == <<prog, line, frames, result, args, box, reg, pin>>

EMPTY == [flag |-> 0, content |-> 0]
Lines == prog
L == Lines[line]
Top == Len(frames)

Instr(i) == InstrFrom(Lines, i)
\* How many elements stand before element e of a function's variables.
Before(h, e) == Cardinality({d \in Elements(Lines, h) :
  LET i == LineOf(Lines, h, d[1])
      j == LineOf(Lines, h, e[1])
  IN  i < j \/ (i = j /\ d[2] < e[2])})

IsFresh(f, h, params, from) ==
  /\ DOMAIN f.var = Elements(Lines, h) /\ f.from = from
  /\ \A e \in Elements(Lines, h) :
       IF Before(h, e) < Len(params) THEN f.var[e] = params[Before(h, e) + 1]
       ELSE f.var[e] \in Int
\* The frames are one more, and the others as before.
Pushed(h, from) ==
  /\ Len(frames') = Top + 1 /\ SubSeq(frames', 1, Top) = frames
  /\ IsFresh(frames'[Top + 1], h, args, from)

Element(v, k) == frames[Top].var[<<v, k>>]
Value(k) == LET o == L.args[k] IN
  IF IsAddr(o) THEN Element(o.var, 0) ELSE Literal(L.type, o.num)
Index(k) == LET o == L.args[k] IN IF IsAddr(o) THEN Element(o.var, 0) ELSE o.num
InType(v) == IF L.type = "B" THEN ars_i8(v) ELSE v

Step == line' = Instr(line + 1) /\ UNCHANGED prog
SetTo(v, k, x) == frames' = [frames EXCEPT ![Top].var[<<v, k>>] = x]

-----------------------------------------------------------------------------
Begin ==
  /\ line = 0 /\ frames = <<>>
  /\ LET h == Named(Lines, "main", "")
     IN  line' = Instr(EndMem(Lines, h)) /\ Pushed(h, 0)
  /\ args' = <<>>
  /\ UNCHANGED <<prog, result, box, reg, pin>>

\* Instructions whose effect is a result.
Result ==
  CASE L.word \in Calc \cup Conds -> Compute(L.word, L.type, Value(1), Value(2), result)
    [] L.word \in {"bit_aox", "bit_mov"} -> Bits(L.type, Index(1), Index(2))
    [] L.word = "val"        -> InType(Value(1))
    [] L.word = "read_array" -> Element(L.args[1].var, Index(2))
    [] L.word = "to_int"     -> FloatVal(Value(1))
    [] L.word = "to_float"   -> Float(Value(1))
    [] OTHER -> result

Evaluate ==
  /\ L.word \in Calc \cup Conds \cup
       {"bit_aox", "bit_mov", "val", "read_array", "to_int", "to_float"}
  /\ result' = Result /\ Step /\ UNCHANGED <<frames, args, box, reg, pin>>

\* Instructions that set one variable, or one element.
Assign ==
  /\ CASE L.word = "mov"       -> SetTo(L.args[1].var, 0, InType(Value(2)))
       [] L.word = "push"      -> SetTo(L.args[1].var, 0, InType(result))
       [] L.word = "set_array" -> SetTo(L.args[1].var, Index(2), InType(result))
       [] L.word = "reg_read"  -> SetTo(L.args[1].var, 0, reg[Index(2)])
       [] OTHER -> FALSE
  /\ Step /\ UNCHANGED <<result, args, box, reg, pin>>

\* As many elements as there are numbers.
InitArray ==
  /\ L.word = "init_array"
  /\ frames' = [frames EXCEPT ![Top].var = [e \in DOMAIN @ |->
                  IF e[1] = L.args[1].var /\ e[2] + 3 \in DOMAIN L.args
                  THEN InType(Value(e[2] + 3)) ELSE @[e]]]
  /\ Step /\ UNCHANGED <<result, args, box, reg, pin>>

Pushp == /\ L.word = "pushp" /\ args' = Append(args, InType(Value(1)))
         /\ Step /\ UNCHANGED <<frames, result, box, reg, pin>>

Jmp ==
  /\ L.word \in {"jmp", "jmp_t"}
  /\ line' = IF L.word = "jmp" \/ result # 0 THEN Instr(Named(Lines, "lb", L.args[1].var)) ELSE Instr(line + 1)
  /\ UNCHANGED <<prog, frames, result, args, box, reg, pin>>

Call ==
  /\ L.word = "call"
  /\ LET h == Named(Lines, "fn", L.args[1].var) IN
       /\ line' = Instr(EndMem(Lines, h)) /\ args' = <<>>
       /\ Pushed(h, Instr(line + 1))
  /\ UNCHANGED <<prog, result, box, reg, pin>>

Ret == /\ L.word = "ret" /\ line' = frames[Top].from
       /\ frames' = SubSeq(frames, 1, Top - 1)
       /\ UNCHANGED <<prog, result, args, box, reg, pin>>

Hlt == /\ L.word = "hlt" /\ line' = 0 /\ frames' = <<>>
       /\ UNCHANGED <<prog, result, args, box, reg, pin>>

\* The native functions: 0 writes a pin, 1 reads one, 2 reads the clock.
Param(k) == IF k <= Len(args) THEN args[k] ELSE 0
Invoke ==
  /\ L.word = "abi_invoke" /\ args' = <<>>
  /\ \/ Index(1) = 0 /\ pin' = [number |-> Param(1), level |-> Param(2)] /\ UNCHANGED result
     \/ Index(1) \in {1, 2} /\ result' \in Input /\ UNCHANGED pin
  /\ Step /\ UNCHANGED <<frames, box, reg>>

RegWrite == /\ L.word = "reg_write" /\ reg' = [reg EXCEPT ![Index(1)] = ars_i8(Index(2))]
            /\ Step /\ UNCHANGED <<frames, result, args, box, pin>>

IpcSend ==
  /\ L.word = "ipc_send"
  /\ LET to == Index(1)
         free == box[to].flag = 0
     IN  /\ box' = IF free THEN [box EXCEPT ![to] = [flag |-> 1, content |-> Index(2)]] ELSE box
         /\ result' = Truth(free)
  /\ Step /\ UNCHANGED <<frames, args, reg, pin>>

\* Which instruction is next is left open, for the firmware misses it.
IpcRecv ==
  /\ L.word = "ipc_recv" /\ SetTo(L.args[1].var, 0, IF box[0].flag = 1 THEN box[0].content ELSE 0)
  /\ box' = [box EXCEPT ![0].flag = 0]
  /\ \E i \in DOMAIN Lines : Lines[i].word \in Instruction /\ line' = i
  /\ UNCHANGED <<prog, result, args, reg, pin>>

\* The other task reads its mail or writes to this one.
Other ==
  /\ \/ box[1].flag = 1 /\ box' = [box EXCEPT ![1].flag = 0]
     \/ box[0].flag = 0 /\ \E m \in Letter : box' = [box EXCEPT ![0] = [flag |-> 1, content |-> m]]
  /\ UNCHANGED <<prog, line, frames, result, args, reg, pin>>

Init ==
  /\ prog \in Sources /\ line = 0 /\ frames = <<>> /\ result = 0 /\ args = <<>>
  /\ box = [t \in {0, 1} |-> EMPTY] /\ reg = [d \in Device |-> 0]
  /\ pin = [number |-> 0, level |-> 0]

Next == \/ Begin \/ Other
        \/ /\ line # 0
           /\ \/ Evaluate \/ Assign \/ InitArray \/ Pushp \/ Jmp \/ Call \/ Ret \/ Hlt
              \/ Invoke \/ RegWrite \/ IpcSend \/ IpcRecv

Spec == Init /\ [][Next]_vars
=============================================================================
