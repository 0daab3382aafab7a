------------------------------ MODULE ARSSource ------------------------------
(***************************************************************************)
(* What the compiler (src/Compiler/Source/Compiler.c) and the interpreter  *)
(* (src/Core/INTERPRETER.cpp) have in common: the lines of a program, the  *)
(* instructions, and the arithmetic of four-byte words.                    *)
(*                                                                         *)
(* A line is a word, a type letter (or none) and operands; an operand is a *)
(* variable, or another name, or a number.  A float is a word too: the bit *)
(* pattern of x is some Float(x), another word than the integer x unless x *)
(* is 0.  Moves copy patterns, conversions change them.                    *)
(***************************************************************************)
EXTENDS Integers, Sequences, FiniteSets, Bitwise

Line(word, type, args) == [word |-> word, type |-> type, args |-> args]
Var(name) == [var |-> name, num |-> 0]
Num(k)    == [var |-> "", num |-> k]
IsAddr(o) == o.var # ""

Calc  == {"add", "sub", "mul", "div"}
Conds == {"eq", "lt", "gt", "le", "ge", "ne"}
Instruction == Calc \cup Conds \cup
  {"mov", "set_array", "read_array", "init_array", "push", "pushp", "jmp", "jmp_t", "call", "ret",
   "bit_aox", "bit_mov", "abi_invoke", "reg_write", "reg_read", "val", "to_int", "to_float",
   "ipc_send", "ipc_recv", "hlt"}

SizeOf(type) == IF type = "B" THEN 1 ELSE 4

ars_i8(v) == ((v + 128) % 256) - 128        \* a word cut to a signed byte

FLOAT == 1056964608                         \* 0x3F000000
Float(x)    == IF x = 0 THEN 0 ELSE FLOAT + x
FloatVal(w) == IF w > FLOAT - 1000000 THEN w - FLOAT ELSE 0    \* tiny otherwise
Literal(type, k) == IF type = "F" THEN Float(k) ELSE k
Number(type, w)  == IF type = "F" THEN FloatVal(w) ELSE w

Truth(b) == IF b THEN 1 ELSE 0
Sign(v) == IF v < 0 THEN -1 ELSE 1
Quotient(a, b) == Sign(a) * Sign(b) * ((Sign(a) * a) \div (Sign(b) * b))

\* The result of op on the words a and b, or old when it divides by zero.
Compute(op, type, a, b, old) ==
  LET x == Number(type, a)
      y == Number(type, b)
  IN CASE op = "add" -> Literal(type, x + y)
       [] op = "sub" -> Literal(type, x - y)
       [] op = "mul" -> Literal(type, x * y)
       [] op = "div" -> IF y = 0 THEN old ELSE Literal(type, Quotient(x, y))
       [] op = "eq"  -> Truth(x = y)
       [] op = "ne"  -> Truth(x # y)
       [] op = "lt"  -> Truth(x < y)
       [] op = "le"  -> Truth(x <= y)
       [] op = "gt"  -> Truth(x > y)
       [] op = "ge"  -> Truth(x >= y)

\* bit_aox and bit_mov.
Bits(op, a, b) ==
  CASE op = "A" -> a & b
    [] op = "O" -> a | b
    [] op = "X" -> a ^^ b
    [] op = "L" -> a * 2 ^ b
    [] op = "R" -> a \div 2 ^ b
-----------------------------------------------------------------------------
(***************************************************************************)
(* The text of a program: where its functions, labels and variables stand. *)
(* A header is the line of fn or main; a variable v of several elements is *)
(* the names <<v, 0>>, <<v, 1>>, ...                                       *)
(***************************************************************************)
Named(lines, word, name) == CHOOSE i \in DOMAIN lines :
  /\ lines[i].word = word
  /\ word # "main" => lines[i].args[1].var = name
  /\ \A j \in 1 .. i - 1 :
       ~(lines[j].word = word /\ (word # "main" => lines[j].args[1].var = name))

\* The instruction at line i, or the first one behind it.
InstrFrom(lines, i) == CHOOSE j \in i .. Len(lines) :
  lines[j].word \in Instruction /\ \A k \in i .. j - 1 : lines[k].word \notin Instruction

EndMem(lines, h) == CHOOSE i \in h + 1 .. Len(lines) :
  lines[i].word = "end_mem" /\ \A j \in h + 1 .. i - 1 : lines[j].word # "end_mem"
Declared(lines, h) == h + 2 .. EndMem(lines, h) - 1
Elements(lines, h) ==
  UNION {{<<lines[i].word, k>> : k \in 0 .. lines[i].args[1].num} : i \in Declared(lines, h)}
LineOf(lines, h, v) == CHOOSE i \in Declared(lines, h) : lines[i].word = v
=============================================================================
