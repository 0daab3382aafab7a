------------------------------- MODULE MCProgram -------------------------------
(* The programs of src/Compiler/Demo, and small ones for every instruction. *)
EXTENDS Interp

\* Lines.
Word0(word)      == Line(word, "", <<>>)
At(word, name)   == Line(word, "", <<Var(name)>>)
Do(word, args)   == Line(word, "", args)
Decl(v, t, n)    == Line(v, t, <<Num(n)>>)
Vars(decls)      == <<Word0("mem")>> \o decls \o <<Word0("end_mem")>>
Main(decls, body) == <<Word0("main")>> \o Vars(decls) \o body \o <<Word0("endmain")>>
Fn(f, decls, body) == <<At("fn", f)>> \o Vars(decls) \o body \o <<Word0("endfn")>>
Hlt == <<Word0("hlt")>>
Ret == Word0("ret")

a == Var("$a")
b == Var("$b")
d == Var("$d")
n == Var("$n")
v == Var("$v")
x == Var("$x")
y == Var("$y")

-----------------------------------------------------------------------------
(* The demos, with shorter recursions. *)
LEDFlash == Main(<<Decl("$sensor", "I", 0), Decl("$val", "I", 0)>>,
  <<Line("mov", "I", <<Var("$sensor"), Num(13)>>), Line("mov", "I", <<Var("$val"), Num(0)>>),
    At("lb", "loop"),
    Line("pushp", "I", <<Var("$sensor")>>), Do("abi_invoke", <<Num(1)>>),
    Line("push", "I", <<Var("$val")>>), Line("eq", "I", <<Var("$val"), Num(1)>>),
    At("jmp_t", "led_on"),
    Line("pushp", "I", <<Num(6)>>), Line("pushp", "I", <<Num(0)>>), Do("abi_invoke", <<Num(0)>>),
    At("jmp", "loop"), At("lb", "led_on"),
    Line("pushp", "I", <<Num(6)>>), Line("pushp", "I", <<Num(1)>>), Do("abi_invoke", <<Num(0)>>),
    At("jmp", "loop"), Word0("hlt")>>)

LEDStream(count, delay) ==
  Fn("delay_ms",
     <<Decl("$len", "I", 0), Decl("$now", "I", 0), Decl("$start", "I", 0), Decl("$mid", "I", 0)>>,
     <<Do("abi_invoke", <<Num(2)>>), Line("push", "I", <<Var("$start")>>),
       At("lb", "loop"),
       Do("abi_invoke", <<Num(2)>>), Line("push", "I", <<Var("$now")>>),
       Line("sub", "I", <<Var("$now"), Var("$start")>>), Line("push", "I", <<Var("$mid")>>),
       Line("ge", "I", <<Var("$mid"), Var("$len")>>), At("jmp_t", "finish"),
       At("jmp", "loop"), At("lb", "finish"), Ret>>)
  \o Main(
     <<Decl("$delay", "I", 0), Decl("$count", "I", 0), Decl("$ele", "I", 0), Decl("$array", "I", 2)>>,
     <<Line("mov", "I", <<Var("$delay"), Num(delay)>>), Line("mov", "I", <<Var("$count"), Num(0)>>),
       Line("init_array", "I", <<Var("$array"), Num(count), Num(18), Num(19), Num(20)>>),
       At("lb", "loop_main"),
       Line("read_array", "I", <<Var("$array"), Var("$count")>>), Line("push", "I", <<Var("$ele")>>),
       Line("pushp", "I", <<Var("$ele")>>), Line("pushp", "I", <<Num(1)>>), Do("abi_invoke", <<Num(0)>>),
       Line("pushp", "I", <<Var("$delay")>>), At("call", "delay_ms"),
       Line("pushp", "I", <<Var("$ele")>>), Line("pushp", "I", <<Num(0)>>), Do("abi_invoke", <<Num(0)>>),
       Line("add", "I", <<Var("$count"), Num(1)>>), Line("push", "I", <<Var("$count")>>),
       Line("gt", "I", <<Var("$count"), Num(2)>>), At("jmp_t", "clean"),
       At("jmp", "loop_main"), At("lb", "clean"),
       Line("mov", "I", <<Var("$count"), Num(0)>>), At("jmp", "loop_main"), Word0("hlt")>>)

recursionTest ==
  Fn("fact", <<Decl("$max_level", "I", 0), Decl("$next_level", "I", 0), Decl("$result", "I", 0)>>,
     <<Line("eq", "I", <<Var("$max_level"), Num(1)>>), At("jmp_t", "rt"),
       Line("sub", "I", <<Var("$max_level"), Num(1)>>), Line("push", "I", <<Var("$next_level")>>),
       Line("pushp", "I", <<Var("$next_level")>>), At("call", "fact"),
       Line("push", "I", <<Var("$result")>>), Line("mul", "I", <<Var("$max_level"), Var("$result")>>), Ret,
       At("lb", "rt"), Ret>>)
  \o Fn("fibonacci",
     <<Decl("$a", "I", 0), Decl("$b", "I", 0), Decl("$depth", "I", 0), Decl("$c", "I", 0),
       Decl("$next_depth", "I", 0), Decl("$result", "I", 0)>>,
     <<Line("eq", "I", <<Var("$depth"), Num(1)>>), At("jmp_t", "rt2"),
       Line("add", "I", <<a, b>>), Line("push", "I", <<Var("$c")>>),
       Line("sub", "I", <<Var("$depth"), Num(1)>>), Line("push", "I", <<Var("$next_depth")>>),
       Line("pushp", "I", <<b>>), Line("pushp", "I", <<Var("$c")>>),
       Line("pushp", "I", <<Var("$next_depth")>>), At("call", "fibonacci"), Ret,
       At("lb", "rt2"), Line("add", "I", <<b, Num(0)>>), Ret>>)
  \o Main(<<Decl("$x", "I", 0)>>,
     <<Line("mov", "I", <<x, Num(4)>>), Line("pushp", "I", <<x>>), At("call", "fact"),
       Line("pushp", "I", <<Num(1)>>), Line("pushp", "I", <<Num(1)>>), Line("pushp", "I", <<Num(4)>>),
       At("call", "fibonacci"), Word0("hlt")>>)

-----------------------------------------------------------------------------
(* In the programs below each operand has the type of its instruction.  Left *)
(* out are forms the README has and the code does something else with: the   *)
(* count of init_array as elements less one (README.md:662), mov I of a byte *)
(* (README.md:712), push F of the bits of a float (README.md:776), and a     *)
(* float calculation with only its second operand a variable (README.md:791).*)
Sum(op_, t, p, q) ==
  Main(<<Decl("$b", "B", 0), Decl("$x", t, 0), Decl("$y", t, 0), Decl("$v", "I", 0)>>,
       <<Line("mov", "B", <<b, Num(9)>>),
         Line("mov", t, <<x, Num(7)>>), Line("mov", t, <<y, Num(-2)>>),
         Line(op_, t, <<p, q>>), Line("push", "I", <<v>>)>> \o Hlt)
Sums == {Sum(op_, t, p, q) :
  op_ \in Calc \cup Conds, t \in {"I", "F"}, p \in {x, Num(7)}, q \in {y, Num(-2), Num(0)}}
  \ {Sum(op_, "F", Num(7), y) : op_ \in Calc}

\* Bits, from two variables, one or none.
Bit(op_, t, p, q) ==
  Main(<<Decl("$x", "I", 0), Decl("$y", "I", 0)>>,
       <<Line("mov", "I", <<x, Num(6)>>), Line("mov", "I", <<y, Num(3)>>),
         Line(op_, t, <<p, q>>), Line("push", "I", <<x>>)>> \o Hlt)
BitPrograms ==
  {Bit("bit_aox", t, pq[1], pq[2]) :
     t \in {"A", "O", "X"}, pq \in {<<x, y>>, <<x, Num(5)>>, <<Num(6), Num(5)>>}} \cup
  {Bit("bit_mov", t, pq[1], pq[2]) :
     t \in {"L", "R"}, pq \in {<<x, y>>, <<x, Num(1)>>, <<Num(6), Num(1)>>}}

\* Arrays of each type, with a variable before and behind, read and set by a number
\* and by a variable; negative bytes and numbers; conversions.
Arrays(t) ==
  Main(<<Decl("$n", "I", 0), Decl("$a", t, 2), Decl("$b", "B", 0), Decl("$v", t, 0), Decl("$d", t, 1)>>,
       <<Line("init_array", t, <<a, Num(3), Num(5), Num(-6), Num(7)>>),
         Line("mov", t, <<v, Num(-2)>>), Line("mov", t, <<d, v>>),
         Line("mov", "I", <<n, Num(1)>>), Line("init_array", t, <<d, n, Num(3)>>),
         Line("read_array", t, <<a, n>>), Line("set_array", t, <<d, Num(1)>>),
         Line("val", t, <<v>>), Line("set_array", t, <<a, n>>),
         Line("val", t, <<Num(-128)>>), Line("push", IF t = "B" THEN "B" ELSE "I", <<v>>),
         Line("read_array", t, <<a, Num(2)>>), Line("push", IF t = "B" THEN "B" ELSE "I", <<d>>)>> \o Hlt)

Conversions ==
  Main(<<Decl("$b", "B", 0), Decl("$x", "F", 0), Decl("$n", "I", 0)>>,
       <<Line("mov", "B", <<b, Num(200)>>), Line("val", "B", <<b>>), Line("push", "I", <<n>>),
         Do("to_float", <<n>>), Line("push", "I", <<x>>), Do("to_int", <<x>>), Line("push", "B", <<b>>)>>
       \o Hlt)

\* Parameters of each size; locals of the same names at other places.
Calls ==
  Fn("inner", <<Decl("$x", "I", 0), Decl("$b", "B", 0)>>,
     <<Line("add", "I", <<x, Num(1)>>), Line("push", "I", <<x>>), Line("mov", "B", <<b, Num(1)>>), Ret>>)
  \o Fn("outer", <<Decl("$b", "B", 0), Decl("$y", "F", 0), Decl("$x", "I", 0), Decl("$a", "B", 1)>>,
     <<Line("pushp", "I", <<x>>), Line("pushp", "B", <<b>>), At("call", "inner"),
       Line("push", "I", <<x>>), At("call", "inner"), Line("set_array", "B", <<a, Num(1)>>), Ret>>)
  \o Main(<<Decl("$y", "F", 0), Decl("$b", "B", 0)>>,
     <<Line("mov", "F", <<y, Num(3)>>), Line("mov", "B", <<b, Num(-5)>>),
       Line("pushp", "B", <<b>>), Line("pushp", "F", <<y>>), Line("pushp", "I", <<Num(300)>>),
       At("call", "outer"),
       Line("pushp", "B", <<Num(4)>>), Line("pushp", "F", <<Num(2)>>), At("call", "outer")>> \o Hlt)

\* Device registers, native functions by a variable, mail.
Devices ==
  Main(<<Decl("$x", "I", 0), Decl("$b", "B", 0), Decl("$a", "B", 0)>>,
       <<Line("mov", "I", <<x, Num(1)>>), Line("mov", "B", <<b, Num(-3)>>),
         Do("reg_write", <<Num(0), Num(200)>>), Do("reg_write", <<x, Num(4)>>),
         Do("reg_read", <<a, Num(0)>>), Do("reg_read", <<a, x>>),
         Do("reg_write", <<Num(0), b>>), Do("reg_write", <<x, b>>), Do("reg_read", <<b, Num(0)>>),
         Line("pushp", "I", <<Num(2)>>), Do("abi_invoke", <<x>>), Line("push", "I", <<x>>)>> \o Hlt)
Mail ==
  Main(<<Decl("$b", "B", 0), Decl("$x", "I", 0)>>,
       <<Line("mov", "B", <<b, Num(1)>>), Line("mov", "I", <<x, Num(-70000)>>),
         Do("ipc_send", <<b, Num(8)>>), At("lb", "again"), Do("ipc_send", <<Num(1), x>>),
         At("jmp_t", "sent"), At("jmp", "again"), At("lb", "sent"),
         Do("ipc_send", <<Num(0), Num(3)>>), Do("ipc_recv", <<x>>)>>
       \o Hlt \o Hlt \o Hlt \o Hlt \o Hlt)

\* Names without a meaning.
Helper == Fn("f", <<Decl("$p", "I", 0)>>, <<Line("mov", "I", <<Var("$p"), Num(1)>>), Ret>>)
Using(body) == Helper \o Main(<<Decl("$x", "I", 0)>>, body \o Hlt)
Meaning ==
  {Using(body) : body \in
    {<<Line("mov", "I", <<x, Num(1)>>), At("call", "f")>>,
     <<Line("mov", "I", <<x, Var("$p")>>)>>, <<Line("mov", "I", <<Var("$p"), Num(1)>>)>>,
     <<Line("add", "I", <<Num(1), y>>)>>, <<At("call", "g")>>, <<At("jmp", "nowhere")>>,
     Hlt \o <<Line("push", "I", <<x>>)>>, Hlt \o <<At("lb", "end"), At("jmp", "end")>>,
     <<At("jmp_t", "end")>> \o Hlt \o <<At("lb", "end"), Word0("nop")>>}}
  \cup {Main(<<Decl("$x", "I", 0)>>, <<At("call", "f")>> \o Hlt) \o Helper,
        Fn("f", <<Decl("$x", "I", 0)>>, <<Ret, Line("push", "I", <<x>>)>>)
          \o Using(<<At("call", "f")>>)}

-----------------------------------------------------------------------------
MCSources == {LEDFlash, LEDStream(3, 1), LEDStream(3, 100), recursionTest, Arrays("B"), Arrays("I"), Arrays("F"),
              Conversions, Calls, Devices, Mail} \cup Sums \cup BitPrograms \cup Meaning
\* A message whose receiver is a variable too (README.md:824: ipc_send receiver value).
MCMailSources ==
  {Main(<<Decl("$b", "B", 0), Decl("$x", "I", 0)>>,
        <<Line("mov", "B", <<b, Num(1)>>), Line("mov", "I", <<x, Num(m)>>),
          Do("ipc_send", <<b, x>>)>> \o Hlt) : m \in {0, 1}}
\* A message is fetched, and the program goes on.
MCRecvSources ==
  {Main(<<Decl("$x", "I", 0)>>,
        <<Do("ipc_recv", <<x>>), Line("val", "I", <<x>>)>> \o Hlt)}
-----------------------------------------------------------------------------
(* Byte code as ByteCode.h has it. *)
Opcode == <<"mov", "set_array", "read_array", "init_array", "push", "pushp",
  "add", "sub", "mul", "div", "eq", "lt", "gt", "le", "ge", "ne", "jmp", "jmp_t", "call", "ret",
  "bit_aox", "bit_mov", "abi_invoke", "reg_write", "reg_read", "val", "to_int", "to_float",
  "ipc_send", "ipc_recv", "hlt">>
Image(k) == [i \in 1 .. k.ptr |->
  IF i - 1 \in DOMAIN k.ins
  THEN 8 * (IndexFirstSubSeq(<<k.ins[i - 1].op>>, Opcode) - 1) + k.ins[i - 1].type
  ELSE LET q == Max({w \in DOMAIN k.word : w < i}) IN Bytes(k.word[q], 4)[i - q]]
LED_Stream == <<
  62, 0, 0, 0, 16, 0, 0, 0, 176, 2, 0, 0, 0, 33, 8, 0, 0, 0, 176, 2,
  0, 0, 0, 33, 4, 0, 0, 0, 59, 4, 0, 0, 0, 8, 0, 0, 0, 33, 12, 0,
  0, 0, 115, 12, 0, 0, 0, 0, 0, 0, 0, 136, 61, 0, 0, 0, 128, 18, 0, 0,
  0, 152, 24, 0, 0, 0, 2, 0, 0, 0, 0, 244, 1, 0, 0, 2, 4, 0, 0, 0,
  0, 0, 0, 0, 26, 12, 0, 0, 0, 3, 0, 0, 0, 0, 18, 0, 0, 0, 0, 19,
  0, 0, 0, 0, 20, 0, 0, 0, 19, 12, 0, 0, 0, 4, 0, 0, 0, 33, 8, 0,
  0, 0, 43, 8, 0, 0, 0, 42, 1, 0, 0, 0, 176, 0, 0, 0, 0, 43, 0, 0,
  0, 0, 144, 4, 0, 0, 0, 43, 8, 0, 0, 0, 42, 0, 0, 0, 0, 176, 0, 0,
  0, 0, 49, 4, 0, 0, 0, 1, 0, 0, 0, 33, 4, 0, 0, 0, 97, 4, 0, 0,
  0, 2, 0, 0, 0, 136, 195, 0, 0, 0, 128, 108, 0, 0, 0, 2, 4, 0, 0, 0,
  0, 0, 0, 0, 128, 108, 0, 0, 0, 240>>
LED_Flash == <<
  4, 0, 0, 0, 8, 0, 0, 0, 2, 0, 0, 0, 0, 13, 0, 0, 0, 2, 4, 0,
  0, 0, 0, 0, 0, 0, 43, 0, 0, 0, 0, 176, 1, 0, 0, 0, 33, 4, 0, 0,
  0, 81, 4, 0, 0, 0, 1, 0, 0, 0, 136, 75, 0, 0, 0, 42, 6, 0, 0, 0,
  42, 0, 0, 0, 0, 176, 0, 0, 0, 0, 128, 26, 0, 0, 0, 42, 6, 0, 0, 0,
  42, 1, 0, 0, 0, 176, 0, 0, 0, 0, 128, 26, 0, 0, 0, 240>>

\* The code that the firmware carries (src/Core/ByteCode.h) is what the compiler makes
\* of the demos today, byte for byte: headers, table and jumps.  One operand differs,
\* and is named here: ByteCode.h:10 has a delay of 500 (244, 1), LEDStream.txt:30 one
\* of 100, although ByteCode.h:5 says that the code is that of LEDStream.txt.
ShippedCode ==
  c # Start => /\ prog = LEDFlash => Image(c) = LED_Flash
               /\ prog = LEDStream(3, 100) =>
                    Image(c) = [LED_Stream EXCEPT ![72] = 100, ![73] = 0]
=============================================================================
