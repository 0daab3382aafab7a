-------------------------------- MODULE Interp --------------------------------
(***************************************************************************)
(* The interpreter, src/Core/INTERPRETER.cpp, on the code that the         *)
(* compiler emits: one task that is built from its source, loaded by the   *)
(* scheduler and run an instruction at a time.  Addresses of code are      *)
(* offsets into the image; variables are the bytes of a frame.             *)
(*                                                                         *)
(* Frames come from the allocator as ARSHeap has it: one per level, apart  *)
(* from all others.  Here they are a stack.  A new frame holds zeros, or   *)
(* what was in runMem before a reboot_all (Memory.cpp:29).                 *)
(***************************************************************************)
EXTENDS Compiler

CONSTANTS
  Sources,       \* programs: sequences of lines
  OS_MAX_PARAM,  \* bytes of the parameter stack
  Device,        \* addresses of device registers
  Input,         \* what a pin or the clock may be read as
  Letter,        \* what the other task may send
  Fill           \* what the bytes of a new frame may hold

VARIABLES
  prog,      \* the source
  c,         \* what the compiler made of it
  cmd,       \* CurCmd as an offset, or NULL
  frames,    \* of each level, the bytes of its variables and its return address
  CalcResu,
  Stack,     \* the parameter stack up to IndexOfSPS
  pushed,    \* bytes of each parameter on it, kept for the properties
  Msgs,      \* Msgs[0], the mailbox of this task, and Msgs[1], of another one
  reg,       \* device registers
  pin,       \* the pin written last, and its level
  wild       \* an access outside the variables of the frame
vars == <<prog, c, cmd, frames, CalcResu, Stack, pushed, Msgs, reg, pin, wild>>

NULL == -1

Init ==
  /\ prog \in Sources /\ c = Start /\ cmd = NULL /\ frames = <<>>
  /\ CalcResu = 0 /\ Stack = <<>> /\ pushed = <<>>
  /\ Msgs = [t \in {0, 1} |-> [flag |-> 0, content |-> 0]]
  /\ reg = [d \in Device |-> 0] /\ pin = [number |-> 0, level |-> 0] /\ wild = FALSE

-----------------------------------------------------------------------------
(***************************************************************************)
(* Memory: little-endian words, and the bytes of the current frame.        *)
(***************************************************************************)
\* Mutant: the bytes of a negative number are negative.
Bytes_signed(v, n) == [k \in 1 .. n |-> Sign(v) * (((Sign(v) * v) \div 256 ^ (k - 1)) % 256)]

Bytes(v, n) == [k \in 1 .. n |-> (v \div 256 ^ (k - 1)) % 256]
Word(b) == b[1] + 256 * b[2] + 65536 * b[3] + 16777216 * ars_i8(b[4])
Signed(b) == IF Len(b) = 1 THEN ars_i8(b[1]) ELSE Word(b)
Get(mem, a, n) == Signed([k \in 1 .. n |-> mem[a + k - 1]])
Put(mem, a, b) == [x \in DOMAIN mem |-> IF x - a + 1 \in DOMAIN b THEN b[x - a + 1] ELSE mem[x]]

mem == frames[Len(frames)].mem
Store(a, n, v) == frames' = [frames EXCEPT ![Len(frames)].mem = Put(@, a, Bytes(v, n))]

(***************************************************************************)
(* Decoding: opcode, the three bits pt, and operands, fetched as the       *)
(* handlers fetch them.                                                    *)
(***************************************************************************)
op == c.ins[cmd].op
pt == c.ins[cmd].type
P(k) == c.word[cmd + 4 * k - 3]
W == IF pt \div 2 = 0 THEN 1 ELSE 4        \* of the types with a size

\* Operands that are addresses of values, and how many bytes each has.
Fetched ==
  CASE op \in Calc \cup Conds \cup {"reg_write", "ipc_send"}
         -> {k \in 1 .. 2 : (pt \div k) % 2 = 1}
    [] op = "bit_aox" -> 2 .. 1 + pt
    [] op = "bit_mov" -> 1 .. pt % 4
    [] op \in {"mov", "set_array", "read_array", "init_array", "reg_read"}
         -> IF pt % 2 = 1 THEN {2} ELSE {}
    [] op \in {"val", "pushp", "abi_invoke"} -> IF pt % 2 = 1 THEN {1} ELSE {}
    [] op \in {"to_int", "to_float"} -> {1}
    [] OTHER -> {}
Width(k) ==
  CASE op \in {"mov", "val", "pushp"} -> W
    [] op = "reg_write" -> IF k = 2 THEN 1 ELSE 4
    [] op = "ipc_send"  -> IF (pt = 1 /\ k = 1) \/ (pt = 3 /\ k = 2) THEN 1 ELSE 4
    [] OTHER -> 4
Arg(k) == IF k \in Fetched THEN Get(mem, P(k), Width(k)) ELSE P(k)

\* Mutant: an index counts words, whatever the elements are.
Target_words ==
  CASE op \in {"set_array", "read_array"} -> <<P(1) + 4 * Arg(2), W>>
    [] op = "mov" -> <<P(1), W>>
    [] op = "init_array" -> <<P(1), W * Arg(2)>>
    [] op = "push" -> <<P(1), IF pt = 0 THEN 1 ELSE 4>>
    [] op = "reg_read" -> <<P(1), 1>>
    [] op = "ipc_recv" -> <<P(1), 4>>
    [] OTHER -> <<0, 0>>

\* The variable, or the elements, an instruction reads or writes besides.
Target ==
  CASE op = "mov" -> <<P(1), W>>
    [] op \in {"set_array", "read_array"} -> <<P(1) + W * Arg(2), W>>
    [] op = "init_array" -> <<P(1), W * Arg(2)>>
    [] op = "push" -> <<P(1), IF pt = 0 THEN 1 ELSE 4>>
    [] op = "reg_read" -> <<P(1), 1>>
    [] op = "ipc_recv" -> <<P(1), 4>>
    [] OTHER -> <<0, 0>>
Inside(a, n) == n = 0 \/ (a \in DOMAIN mem /\ a + n - 1 \in DOMAIN mem)
InFrame == /\ \A k \in Fetched : Inside(P(k), Width(k))
           /\ Inside(Target[1], Target[2])
           /\ op = "call" => Len(Stack) <= c.word[P(1)]

\* The operand words arssched_loop steps over.  The compiler emits as many, but for
\* ipc_recv, where it emits one (Compiler.c:594).
schedParamQ ==
  [i \in Calc \cup Conds \cup {"mov", "set_array", "read_array", "init_array", "bit_mov",
                                "reg_write", "reg_read", "ipc_send", "ipc_recv"} |-> 2]
  @@ [i \in {"push", "pushp", "jmp", "jmp_t", "call", "abi_invoke", "val", "to_int",
             "to_float"} |-> 1]
  @@ [i \in {"ret", "hlt"} |-> 0] @@ [i \in {"bit_aox"} |-> 3]

\* arssched_loop goes on behind the operands, unless the handler has jumped.
Next4 == cmd' = cmd + 1 + 4 * schedParamQ[op]

-----------------------------------------------------------------------------
(***************************************************************************)
(* The handlers.                                                           *)
(***************************************************************************)
mov == /\ op = "mov" /\ Store(P(1), W, Arg(2))
       /\ Next4 /\ UNCHANGED <<CalcResu, Stack, pushed, Msgs, reg, pin>>

\* The table behind the operands: CurPhyMem runs along the array, and an element
\* that is an address takes it elsewhere.  Behind the table's end the next opcode is
\* taken for a tag.
Element(f) ==
  LET v == c.word[f.at + 1]
      from == f.to IN
  IF f.at \notin DOMAIN c.word THEN [f EXCEPT !.at = @ + 1]
  ELSE IF c.word[f.at] = 0
  THEN [at |-> f.at + 1 + W, to |-> from + W, mem |-> Put(f.mem, from, Bytes(v, W))]
  ELSE [at |-> f.at + 5, to |-> v + 2 * W,
        mem |-> Put(f.mem, v + W, Bytes(Get(f.mem, v, W), W))]

init_array ==
  /\ op = "init_array"
  /\ LET f == FoldLeft(LAMBDA g, i : Element(g), [at |-> cmd + 9, to |-> P(1), mem |-> mem],
                       [i \in 1 .. Arg(2) |-> i])
     IN  frames' = [frames EXCEPT ![Len(frames)].mem = f.mem] /\ cmd' = f.at
  /\ UNCHANGED <<CalcResu, Stack, pushed, Msgs, reg, pin>>

set_read_array ==
  /\ \/ op = "set_array" /\ Store(Target[1], W, CalcResu) /\ UNCHANGED CalcResu
     \/ op = "read_array" /\ CalcResu' = Get(mem, Target[1], W) /\ UNCHANGED frames
  /\ Next4 /\ UNCHANGED <<Stack, pushed, Msgs, reg, pin>>

\* A float is converted from the number CalcResu is, not copied.
push ==
  /\ op = "push" /\ Store(P(1), Target[2], IF pt = 2 THEN Float(CalcResu) ELSE CalcResu)
  /\ Next4 /\ UNCHANGED <<CalcResu, Stack, pushed, Msgs, reg, pin>>

\* Float operands change places when only the second is an address.
Calculated ==
  LET float == pt \div 4 = 1
      x == Arg(1)
      y == Arg(2)
  IN  IF op \in Calc /\ float /\ pt % 4 = 2 THEN Compute(op, "F", y, x, CalcResu)
      ELSE Compute(op, IF float THEN "F" ELSE "I", x, y, CalcResu)

\* val, the conversions, calc, conds, bit_and_or_xor, bit_move.
Evaluate ==
  /\ op \in Calc \cup Conds \cup {"val", "to_int", "to_float", "bit_aox", "bit_mov"}
  /\ CalcResu' =
       CASE op = "val"      -> IF W = 1 THEN ars_i8(Arg(1)) ELSE Arg(1)
         [] op = "to_int"   -> FloatVal(Arg(1))
         [] op = "to_float" -> Float(Arg(1))
         [] op = "bit_aox"  -> Bits(<<"A", "O", "X">>[P(1)], Arg(2), Arg(3))
         [] op = "bit_mov"  -> Bits(IF pt \div 4 = 1 THEN "R" ELSE "L", Arg(1), Arg(2))
         [] OTHER           -> Calculated
  /\ Next4 /\ UNCHANGED <<frames, Stack, pushed, Msgs, reg, pin>>

\* The native functions of Glue.h that do not touch files take words from the
\* bottom of the stack, and the stack is emptied.
Param(k) == Word([i \in 1 .. 4 |-> IF 4 * k + i - 4 <= Len(Stack) THEN Stack[4 * k + i - 4] ELSE 0])
gWrite == pin' = [number |-> Param(1) % 256, level |-> Param(2) % 256] /\ UNCHANGED CalcResu
gRead  == CalcResu' \in Input /\ UNCHANGED pin
Timer  == CalcResu' \in Input /\ UNCHANGED pin
abi_invoke ==
  /\ op = "abi_invoke"
  /\ \/ Arg(1) = 0 /\ gWrite
     \/ Arg(1) = 1 /\ gRead
     \/ Arg(1) = 2 /\ Timer
  /\ Stack' = <<>> /\ pushed' = <<>>
  /\ Next4 /\ UNCHANGED <<frames, Msgs, reg>>

\* The compiler emits the one-byte forms only.
reg_write == /\ op = "reg_write" /\ reg' = [reg EXCEPT ![Arg(1)] = ars_i8(Arg(2))]
             /\ Next4 /\ UNCHANGED <<frames, CalcResu, Stack, pushed, Msgs, pin>>
reg_read == /\ op = "reg_read" /\ Store(P(1), 1, reg[Arg(2)])
            /\ Next4 /\ UNCHANGED <<CalcResu, Stack, pushed, Msgs, reg, pin>>

\* With two addresses the first is the message and the second the receiver.
ipc_send ==
  LET id  == IF pt = 3 THEN Arg(2) ELSE Arg(1)
      val == IF pt = 3 THEN Arg(1) ELSE Arg(2)
      ok  == Msgs[id].flag = 0
  IN  /\ op = "ipc_send"
      /\ Msgs' = IF ok THEN [Msgs EXCEPT ![id] = [flag |-> 1, content |-> val]] ELSE Msgs
      /\ CalcResu' = Truth(ok)
      /\ Next4 /\ UNCHANGED <<frames, Stack, pushed, reg, pin>>

ipc_recv ==
  /\ op = "ipc_recv" /\ Store(P(1), 4, IF Msgs[0].flag = 1 THEN Msgs[0].content ELSE 0)
  /\ Msgs' = [Msgs EXCEPT ![0].flag = 0]
  /\ Next4 /\ UNCHANGED <<CalcResu, Stack, pushed, reg, pin>>

pushp ==
  /\ op = "pushp"
  /\ IF Len(Stack) + W > OS_MAX_PARAM THEN UNCHANGED <<Stack, pushed>>
     ELSE Stack' = Stack \o Bytes(Arg(1), W) /\ pushed' = Append(pushed, W)
  /\ Next4 /\ UNCHANGED <<frames, CalcResu, Msgs, reg, pin>>

\* The frame at head: its bytes, with the parameters in front.
Frame(head, fill, back) ==
  [mem |-> Put([a \in 0 .. c.word[head] - 1 |-> fill], 0, Stack), ret |-> back]
Enter(head, back) ==
  /\ \E fill \in Fill : frames' = Append(frames, Frame(head, fill, back))
  /\ cmd' = head + 4
  /\ Stack' = <<>> /\ pushed' = <<>>

\* Mutant: the return address is the operand's (INTERPRETER.cpp:476).
call_short == op = "call" /\ Enter(P(1), cmd + 1) /\ UNCHANGED <<CalcResu, Msgs, reg, pin>>

call == op = "call" /\ Enter(P(1), cmd + 5) /\ UNCHANGED <<CalcResu, Msgs, reg, pin>>

ret == /\ op = "ret" /\ Len(frames) > 1
       /\ cmd' = frames[Len(frames)].ret /\ frames' = SubSeq(frames, 1, Len(frames) - 1)
       /\ UNCHANGED <<CalcResu, Stack, pushed, Msgs, reg, pin>>

jmp == /\ op = "jmp" /\ cmd' = P(1)
       /\ UNCHANGED <<frames, CalcResu, Stack, pushed, Msgs, reg, pin>>

jmp_t == /\ op = "jmp_t"
         /\ IF CalcResu # 0 THEN cmd' = P(1) ELSE Next4
         /\ UNCHANGED <<frames, CalcResu, Stack, pushed, Msgs, reg, pin>>

hlt == /\ op = "hlt" /\ cmd' = NULL /\ frames' = <<>>
       /\ UNCHANGED <<CalcResu, Stack, pushed, Msgs, reg, pin>>

-----------------------------------------------------------------------------
\* The compiler builds the program once.
Build == /\ c = Start /\ c' = Compile(prog)
         /\ UNCHANGED <<prog, cmd, frames, CalcResu, Stack, pushed, Msgs, reg, pin, wild>>

\* The scheduler starts it, again and again.
Load == /\ c # Start /\ ~c.failed /\ cmd = NULL /\ ~wild
        /\ Enter(c.word[0], NULL)
        /\ UNCHANGED <<prog, c, CalcResu, Msgs, reg, pin, wild>>

\* Jumps, calls, returns and tables of any length leave CurCmd at the opcode of an
\* instruction the compiler emitted, never among operands.  (ipc_recv leaves it four
\* bytes behind the next one: see MCRecvSources.)
AtInstruction == cmd # NULL => cmd \in DOMAIN c.ins

\* A turn of the task: nothing is followed once it has left its code or its frame.
interprete ==
  /\ cmd # NULL /\ AtInstruction /\ ~wild /\ UNCHANGED <<prog, c>>
  /\ IF InFrame
     THEN /\ UNCHANGED wild
          /\ \/ mov \/ init_array \/ set_read_array \/ push \/ Evaluate \/ abi_invoke
             \/ reg_write \/ reg_read \/ ipc_send \/ ipc_recv \/ pushp
             \/ call \/ ret \/ jmp \/ jmp_t \/ hlt
     ELSE wild' = TRUE /\ UNCHANGED <<cmd, frames, CalcResu, Stack, pushed, Msgs, reg, pin>>

\* The other task reads its mail, or writes to this one.
Other ==
  /\ \/ Msgs[1].flag = 1 /\ Msgs' = [Msgs EXCEPT ![1].flag = 0]
     \/ Msgs[0].flag = 0 /\ \E m \in Letter : Msgs' = [Msgs EXCEPT ![0] = [flag |-> 1, content |-> m]]
  /\ UNCHANGED <<prog, c, cmd, frames, CalcResu, Stack, pushed, reg, pin, wild>>

Next == Build \/ Load \/ interprete \/ Other
Spec == Init /\ [][Next]_vars

-----------------------------------------------------------------------------
\* Variables, parameters and mail hold what their C types allow, and a task has a
\* frame exactly while it runs.
TypeOK ==
  /\ cmd \in Nat \cup {NULL} /\ CalcResu \in Int /\ wild \in BOOLEAN
  /\ \A i \in DOMAIN frames : \A a \in DOMAIN frames[i].mem : frames[i].mem[a] \in 0 .. 255
  /\ cmd = NULL <=> frames = <<>>
  /\ Len(Stack) <= OS_MAX_PARAM /\ FoldLeft(+, 0, pushed) = Len(Stack)
  /\ \A t \in {0, 1} : Msgs[t].flag \in {0, 1}

\* A program in which each line is right by itself is refused exactly when a name in
\* it has no meaning: a variable that is not declared in its own function, or that is
\* used behind a hlt, which ends a function's names as well as endfn does; a function
\* that does not begin further up; a label that stands nowhere.  What another function
\* declares is no excuse, and a function may call itself.
lines == prog
HeaderOf(i) == Max({0} \cup {h \in 1 .. i : lines[h].word \in {"main", "fn"}})
Closed(i) == \E j \in HeaderOf(i) .. i - 1 : lines[j].word \in {"hlt", "endfn", "endmain"}
Visible(i) == IF Closed(i) THEN {} ELSE {lines[j].word : j \in Declared(lines, HeaderOf(i))}
Meaningless(i) ==
  \E o \in Range(lines[i].args) : IsAddr(o) /\
    CASE lines[i].word \in {"jmp", "jmp_t"}
           -> ~\E j \in DOMAIN lines : lines[j].word = "lb" /\ lines[j].args[1] = o
      [] lines[i].word = "call"
           -> ~\E j \in 1 .. i : lines[j].word = "fn" /\ lines[j].args[1] = o
      [] OTHER -> o.var \notin Visible(i)
NamesResolve ==
  c # Start => (c.failed <=> \E i \in DOMAIN lines :
                               lines[i].word \in Instruction /\ Meaningless(i))

\* An instruction reads and writes the variables of its own frame, whole, and no
\* byte beyond them.
StaysInFrame == ~wild

(***************************************************************************)
(* The program as its source reads: the line an address belongs to, the    *)
(* variables of a frame by their names, parameters as values.              *)
(***************************************************************************)
LineAt(a) == IF a \in DOMAIN c.at THEN c.at[a] ELSE 0
HeadAt(a) == Max({h \in DOMAIN c.scopes : h <= a})
Frame_(f, a) ==
  LET h     == HeadAt(a)
      scope == c.scopes[h]
      at    == LineAt(h)
      size  == [i \in Declared(lines, at) |-> SizeOf(lines[i].type)]
  IN  [var  |-> [e \in Elements(lines, at) |->
                   LET n == size[LineOf(lines, at, e[1])]
                   IN  Get(f.mem, Find(scope, e[1]) + n * e[2], n)],
       from |-> IF f.ret = NULL THEN 0 ELSE LineAt(f.ret)]
Readable == [i \in DOMAIN frames |->
  Frame_(frames[i], IF i = Len(frames) THEN cmd ELSE frames[i + 1].ret - 5)]
Values == [k \in DOMAIN pushed |->
  LET n == FoldLeft(+, 0, SubSeq(pushed, 1, k)) IN Signed(SubSeq(Stack, n - pushed[k] + 1, n))]

Lang == INSTANCE Language WITH
  line <- IF cmd = NULL THEN 0 ELSE LineAt(cmd), frames <- Readable,
  result <- CalcResu, args <- Values, box <- Msgs

\* What the compiled program does, byte by byte, is what its lines say: operands
\* reach their handlers in the form and order the handlers expect, variables lie where
\* both think they do, and parameters arrive in the variables declared first.  The
\* programs are those where each operand has the type of its instruction.
IsLanguage == Lang!Spec
=============================================================================
