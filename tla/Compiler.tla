------------------------------ MODULE Compiler ------------------------------
(***************************************************************************)
(* The compiler, src/Compiler/Source/Compiler.c: one pass over the lines   *)
(* that emits code, and a second over the jumps that fills in their        *)
(* targets.  Its globals are a record c.  Of the code pool, ins[a] is the  *)
(* opcode byte at address a and word[a] the operand, header or table entry *)
(* that begins at a.  failed stands for exit(1).  line, at and scopes are  *)
(* kept for the properties: the lines read, the last one that began at an  *)
(* address, and each function's symbols.                                   *)
(***************************************************************************)
EXTENDS ARSSource, SequencesExt, TLC

Start == [ins |-> <<>>, word |-> (0 :> 0), ptr |-> 4, symbols |-> <<>>, totalVarLen |-> 0,
          needMemInit |-> FALSE, inMemSection |-> FALSE, funcHead |-> 0,
          functions |-> <<>>, labels |-> <<>>, unlabels |-> <<>>, failed |-> FALSE,
          line |-> 0, at |-> <<>>, scopes |-> <<>>]

\* Tables are searched from the front; UNDEFINED stands for no entry.
UNDEFINED == -1
Entry(name, addr) == [name |-> name, addr |-> addr]
Find(table, name) ==
  LET i == SelectInSeq(table, LAMBDA e : e.name = name)
  IN  IF i = 0 THEN UNDEFINED ELSE table[i].addr

-----------------------------------------------------------------------------
(***************************************************************************)
(* One instruction: its operands, and the three bits behind the opcode.    *)
(***************************************************************************)
TypeBits == [B |-> 0, I |-> 1, F |-> 2]
Shift    == [L |-> 0, R |-> 1]
Aox      == [A |-> 1, O |-> 2, X |-> 3]
TypesOf(op) ==
  CASE op \in {"mov", "set_array", "read_array", "init_array", "push", "pushp", "val"}
         -> DOMAIN TypeBits
    [] op \in Calc \cup Conds -> {"I", "F"}
    [] op = "bit_aox" -> DOMAIN Aox
    [] op = "bit_mov" -> DOMAIN Shift
    [] OTHER -> {""}

\* These take a variable first, whatever the operand looks like (getVarOffset).
Destination == {"mov", "set_array", "read_array", "init_array", "push", "reg_read",
                "to_int", "to_float", "ipc_recv"}
\* The numbers in these are of the type of the instruction.
Typed == {"mov", "pushp", "val"} \cup Calc \cup Conds

\* What makes the handler of the word give up.
Refused(c, l) ==
  \/ l.type \notin TypesOf(l.word)
  \/ l.word = "call" /\ Find(c.functions, l.args[1].var) = UNDEFINED
  \/ /\ l.word \notin {"jmp", "jmp_t", "call"}
     /\ \E k \in DOMAIN l.args :
          IsAddr(l.args[k]) /\ Find(c.symbols, l.args[k].var) = UNDEFINED
  \/ l.word \in Destination /\ ~IsAddr(l.args[1])
  \/ l.word \in {"bit_aox", "bit_mov"} /\ ~IsAddr(l.args[1]) /\ IsAddr(l.args[2])

Operand(c, type, o) ==
  IF IsAddr(o) THEN Find(c.symbols, o.var) ELSE Literal(type, o.num)

Ref(o) == Truth(IsAddr(o))

\* Mutant: the bits of the two operands are exchanged.
Refs_swapped(l) == Ref(l.args[2]) + 2 * Ref(l.args[1])

Refs(l) == Ref(l.args[1]) + 2 * Ref(l.args[2])

ParamType(l) ==
  CASE l.word \in {"mov", "set_array", "read_array", "init_array"}
         -> 2 * TypeBits[l.type] + Ref(l.args[2])
    [] l.word \in {"val", "pushp"} -> 2 * TypeBits[l.type] + Ref(l.args[1])
    [] l.word = "push" -> TypeBits[l.type]
    [] l.word \in Calc \cup Conds -> Refs(l) + 4 * Truth(l.type = "F")
    [] l.word \in {"reg_write", "ipc_send"} -> Refs(l)
    [] l.word = "bit_aox" -> Ref(l.args[1]) + Ref(l.args[2])
    [] l.word = "bit_mov" -> Ref(l.args[1]) + Ref(l.args[2]) + 4 * Shift[l.type]
    [] l.word = "abi_invoke" -> Ref(l.args[1])
    [] l.word = "reg_read" -> Ref(l.args[2])
    [] OTHER -> 0

Words(c, l) ==
  LET type == IF l.word \in Typed THEN l.type ELSE "I"
      plain == [k \in 1 .. Len(l.args) |-> Operand(c, type, l.args[k])]
  IN CASE l.word \in {"jmp", "jmp_t"} -> <<0>>
       [] l.word = "call" -> <<Find(c.functions, l.args[1].var)>>
       [] l.word = "bit_aox" -> <<Aox[l.type]>> \o plain
       [] l.word = "init_array" -> SubSeq(plain, 1, 2)
       [] OTHER -> plain

Emit(c, ins, words) ==
  [c EXCEPT !.ins  = @ @@ (c.ptr :> ins),
            !.word = @ @@ [a \in {c.ptr + 4 * k - 3 : k \in DOMAIN words} |->
                             words[(a - c.ptr + 3) \div 4]],
            !.ptr  = @ + 1 + 4 * Len(words)]

\* An entry of the table behind init_array: a tag byte and an address or a number.
EmitElement(c, type, o) ==
  [c EXCEPT !.word = @ @@ (c.ptr :> Ref(o)) @@ (c.ptr + 1 :> Operand(c, type, o)),
            !.ptr  = @ + 1 + (IF IsAddr(o) THEN 4 ELSE SizeOf(type))]

Forget(c) == [c EXCEPT !.symbols = <<>>, !.totalVarLen = 0]

Instr(c, l) ==
  LET e == Emit(c, [op |-> l.word, type |-> ParamType(l)], Words(c, l))
  IN CASE l.word \in {"jmp", "jmp_t"} ->
            [e EXCEPT !.unlabels = Append(@, Entry(l.args[1].var, c.ptr))]
       [] l.word = "init_array" ->
            FoldLeft(LAMBDA d, o : EmitElement(d, l.type, o), e, SubSeq(l.args, 3, Len(l.args)))
       [] l.word = "hlt" -> Forget(e)
       [] OTHER -> e

-----------------------------------------------------------------------------
(***************************************************************************)
(* One line.                                                               *)
(***************************************************************************)
\* A declared length of n is n + 1 elements.
Declare(c, l) ==
  [c EXCEPT !.symbols = Append(@, Entry(l.word, c.totalVarLen)),
            !.totalVarLen = @ + SizeOf(l.type) * (l.args[1].num + 1),
            !.failed = l.type \notin DOMAIN TypeBits]

\* Mutant: the size is written where the code goes on.
MemLine_atPtr(c, l) ==
  CASE l.word = "mem"     -> [c EXCEPT !.inMemSection = TRUE]
    [] l.word = "end_mem" -> [c EXCEPT !.inMemSection = FALSE, !.needMemInit = FALSE,
                                       !.word = (c.ptr :> c.totalVarLen) @@ @,
                                       !.scopes = (c.funcHead :> c.symbols) @@ @]
    [] OTHER -> Declare(c, l)

MemLine(c, l) ==
  CASE l.word = "mem"     -> [c EXCEPT !.inMemSection = TRUE]
    [] l.word = "end_mem" -> [c EXCEPT !.inMemSection = FALSE, !.needMemInit = FALSE,
                                       !.word[c.funcHead] = c.totalVarLen,
                                       !.scopes = (c.funcHead :> c.symbols) @@ @]
    [] OTHER -> Declare(c, l)

\* main and fn: four bytes are kept for the size of the variables.
Header(c) == [c EXCEPT !.needMemInit = TRUE, !.funcHead = c.ptr, !.ptr = @ + 4,
                       !.word = @ @@ (c.ptr :> 0), !.scopes = (c.ptr :> <<>>) @@ @]

\* Mutant: the symbols of a function stay for the next.
CodeLine_keepsSymbols(c, l) ==
  CASE l.word = "main" -> [Header(c) EXCEPT !.word[0] = c.ptr]
    [] l.word = "fn"   -> [Header(c) EXCEPT !.functions = Append(@, Entry(l.args[1].var, c.ptr))]
    [] l.word = "lb"   -> [c EXCEPT !.labels = Append(@, Entry(l.args[1].var, c.ptr))]
    [] l.word \in Instruction -> IF Refused(c, l) THEN [c EXCEPT !.failed = TRUE] ELSE Instr(c, l)
    [] OTHER -> c

CodeLine(c, l) ==
  CASE l.word = "main" -> [Header(c) EXCEPT !.word[0] = c.ptr]
    [] l.word = "fn"   -> [Header(c) EXCEPT !.functions = Append(@, Entry(l.args[1].var, c.ptr))]
    [] l.word = "lb"   -> [c EXCEPT !.labels = Append(@, Entry(l.args[1].var, c.ptr))]
    [] l.word \in {"endfn", "endmain"} -> Forget(c)
    [] l.word \in Instruction -> IF Refused(c, l) THEN [c EXCEPT !.failed = TRUE] ELSE Instr(c, l)
    [] OTHER -> c            \* an unknown word is ignored, with a warning

InMem(c, l) == c.needMemInit /\ (c.inMemSection \/ l.word \in {"mem", "end_mem"})

compileOneLine(c, l) ==
  LET d == [c EXCEPT !.line = @ + 1, !.at = (c.ptr :> c.line + 1) @@ @]
  IN  IF InMem(d, l) THEN MemLine(d, l) ELSE CodeLine(d, l)

Patch(c, u) ==
  LET target == Find(c.labels, u.name) IN
  IF target = UNDEFINED THEN [c EXCEPT !.failed = TRUE]
  ELSE [c EXCEPT !.word[u.addr + 1] = target]

resolveLabels(c) == FoldLeft(Patch, c, c.unlabels)

\* main: a line that fails is the last one looked at.
CompileLine(c, l) == IF c.failed THEN c ELSE compileOneLine(c, l)
Compile(lines) == resolveLabels(FoldLeft(CompileLine, Start, lines))
=============================================================================
