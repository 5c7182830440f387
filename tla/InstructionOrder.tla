--------------------------- MODULE InstructionOrder ---------------------------
(***************************************************************************)
(* Where the instructions of a basic block end up in the C text, and in    *)
(* which order C runs them.  createExpressions makes a statement of some   *)
(* instructions and leaves the expression of the others to their only user *)
(* (canInline, inlineOrCreateVariable): a load or a call then runs where   *)
(* the user is printed, as often as the user prints it, and next to other  *)
(* operands in an order C leaves open.                                     *)
(*                                                                         *)
(* A value is its instruction's position in the block; 0 is a constant, a  *)
(* parameter or a phi variable.  There is one memory cell, which every     *)
(* load reads and every store and call writes.                             *)
(***************************************************************************)
EXTENDS Naturals, Sequences, FiniteSets

CONSTANTS
  Size,      \* bound: instructions before the return
  Kinds      \* their opcodes

Dup == {"fcmp", "abs"}                   \* print each operand twice
ValueOps == {"load", "call", "binary", "bitcast", "select", "insertvalue"} \cup Dup

ASSUME KindsAssumption == Size \in Nat /\ Kinds \subseteq ValueOps \cup {"store"}

VARIABLES
  block,     \* the block being translated
  next,      \* its next instruction
  expr,      \* exprMap: the kind of expression of each value
  stmts,     \* Block::expressions
  running,   \* the statement of the C text that runs
  done,      \* the values of the operands evaluated so far in it
  vars,      \* the C variables' values
  mem,       \* the memory cell
  trace      \* calls made: their operands and the memory they saw

ioVars == <<block, next, expr, stmts, running, done, vars, mem, trace>>
cVars == <<running, done, vars, mem, trace>>

\* What is computed is kept as a term.
Term(op, n, args) == [op |-> op, n |-> n, args |-> args]
Constant == Term("constant", 0, <<>>)

(***************************************************************************)
(* The LLVM block.                                                         *)
(***************************************************************************)
Complete == block # <<>> /\ block[Len(block)].op = "ret"
Values == {0} \cup {i \in DOMAIN block : block[i].op \in ValueOps}

Operands(op) ==
  CASE op = "load" -> {<<>>}
    [] op = "call" -> {<<>>} \cup {<<x>> : x \in Values}
    [] op \in {"store", "bitcast", "abs", "ret"} -> {<<x>> : x \in Values}
    [] op = "fcmp" -> {<<x, 0>> : x \in Values \ {0}}
    [] op \in {"binary", "insertvalue"} -> Values \X Values
    [] op = "select" -> {0} \X Values \X Values

\* arm: the operand a select chooses; escapes: used in another block.
Instructions(op) ==
  [op : {op}, args : Operands(op), arm : IF op = "select" THEN {2, 3} ELSE {2},
   escapes : IF op \in {"call", "load"} THEN BOOLEAN ELSE {FALSE}]

\* The block is any sequence of instructions.
Choose ==
  /\ ~Complete
  /\ \E op \in IF Len(block) < Size THEN Kinds \cup {"ret"} ELSE {"ret"} :
       \E x \in Instructions(op) : block' = Append(block, x)
  /\ expr' = Append(expr, "none") /\ vars' = Append(vars, Constant)
  /\ UNCHANGED <<next, stmts, running, done, mem, trace>>

(***************************************************************************)
(* createExpressions.                                                      *)
(***************************************************************************)
Uses(i) == {u \in (DOMAIN block) \X (1..3) :
              u[2] \in DOMAIN block[u[1]].args /\ block[u[1]].args[u[2]] = i}
HasNUses(i, n) == Cardinality(Uses(i)) + (IF block[i].escapes THEN 1 ELSE 0) = n
User(i) == CHOOSE j \in DOMAIN block : \E u \in Uses(i) : u[1] = j

\* mutant of ReadOnly
ReadOnlyAndStores == {"load", "binary", "fcmp", "bitcast", "store"}

\* Opcodes that cannot change what a load reads.  (abs is a call.)
ReadOnly == {"load", "binary", "fcmp", "bitcast"}

\* mutant of CanInline: the user may be in another block
CanInlineAnywhere(i) ==
  /\ HasNUses(i, 1)
  /\ Uses(i) # {} => \A j \in (i + 1)..(User(i) - 1) : block[j].op \in ReadOnly

CanInline(i) ==
  /\ HasNUses(i, 1) /\ Uses(i) # {}
  /\ \A j \in (i + 1)..(User(i) - 1) : block[j].op \in ReadOnly

Statement(kind, i) == [kind |-> kind, at |-> i]

Emit(ss, e) ==
  /\ stmts' = stmts \o ss
  /\ expr' = [expr EXCEPT ![next] = e]
  /\ next' = next + 1
  /\ UNCHANGED <<block, cVars>>

InlineOrCreateVariable ==
  IF CanInline(next) THEN Emit(<<>>, "inlined")
  ELSE Emit(<<Statement("assign", next)>>, "variable")

Parsing(ops) == Complete /\ next <= Len(block) /\ block[next].op \in ops

ParseLLVMInstruction ==
  Parsing({"load", "binary", "fcmp", "select"}) /\ InlineOrCreateVariable

\* mutant of ParseCallInstruction
ParseCallInstructionIfUsed ==
  /\ Parsing({"call", "abs"})
  /\ IF HasNUses(next, 0) THEN Emit(<<>>, "none") ELSE InlineOrCreateVariable

ParseCallInstruction ==
  /\ Parsing({"call", "abs"})
  /\ IF HasNUses(next, 0) THEN Emit(<<Statement("call", next)>>, "none")
     ELSE InlineOrCreateVariable

ParseStoreInstruction ==
  Parsing({"store"}) /\ Emit(<<Statement("store", next)>>, "none")

\* A variable is initialised with the aggregate, then the field is set.
ParseInsertValueInstruction ==
  /\ Parsing({"insertvalue"})
  /\ Emit(<<Statement("init", next), Statement("field", next)>>, "variable")

\* With bitcast unions: the source is assigned to one field, the value is the
\* other one.
ParseBitcastInstruction ==
  Parsing({"bitcast"}) /\ Emit(<<Statement("assign", next)>>, "variable")

ParseRETURN ==       \* parseBreaks
  Parsing({"ret"}) /\ Emit(<<Statement("ret", next)>>, "none")

Translate ==
  \/ ParseLLVMInstruction \/ ParseCallInstruction \/ ParseStoreInstruction
  \/ ParseInsertValueInstruction \/ ParseBitcastInstruction \/ ParseRETURN

(***************************************************************************)
(* The C text.  An occurrence is a path of operand slots from the root of  *)
(* a statement and the instruction evaluated there.  A select evaluates    *)
(* its condition and the operand it chooses.                               *)
(***************************************************************************)
Slots(i) ==
  LET x == block[i]
  IN  IF x.op \in Dup THEN x.args \o x.args
      ELSE IF x.op = "select" THEN <<x.args[1], x.args[x.arm]>>
      ELSE x.args

SlotsOf(s, path, i) ==
  IF path # <<>> THEN Slots(i)
  ELSE CASE s.kind = "init"  -> <<block[i].args[1]>>
         [] s.kind = "field" -> <<block[i].args[2]>>
         [] OTHER            -> Slots(i)

Inlined(i) == i # 0 /\ expr[i] = "inlined"

Occurrences(s) ==
  LET Below(T) == UNION {{<<Append(o[1], k), SlotsOf(s, o[1], o[2])[k]>> :
                            k \in {m \in DOMAIN SlotsOf(s, o[1], o[2]) :
                                     Inlined(SlotsOf(s, o[1], o[2])[m])}} : o \in T}
      D[d \in 0..Len(block)] ==
        IF d = 0 THEN {<< <<>>, s.at >>} ELSE D[d-1] \cup Below(D[d-1])
  IN  D[Len(block)]

\* What an instruction does with its operands in a memory.
Effect(i, vs, m, tr) ==
  LET x == block[i]
      n == Len(tr) + 1
  IN  CASE x.op = "load"  -> [v |-> m, mem |-> m, trace |-> tr]
        [] x.op = "store" -> [v |-> Constant, mem |-> vs[1], trace |-> tr]
        [] x.op = "call"  -> [v |-> Term("result", n, <<>>), mem |-> Term("written", n, <<>>),
                              trace |-> Append(tr, [at |-> i, args |-> vs, mem |-> m])]
        [] x.op = "ret"   -> [v |-> Constant, mem |-> m,
                              trace |-> Append(tr, [at |-> i, args |-> vs, mem |-> m])]
        [] x.op = "select" -> [v |-> vs[2], mem |-> m, trace |-> tr]
        [] OTHER -> [v |-> Term(x.op, 0, SubSeq(vs, 1, Len(x.args))), mem |-> m, trace |-> tr]

Translated == Complete /\ next > Len(block)

\* One occurrence whose inlined operands have been evaluated; any of them.
Evaluate ==
  /\ Translated /\ running <= Len(stmts)
  /\ LET s == stmts[running]
         occs == Occurrences(s)
     IN  \E o \in occs :
           LET p == o[1]
               i == o[2]
               slots == SlotsOf(s, p, i)
               V(k) == IF Inlined(slots[k]) THEN done[Append(p, k)]
                       ELSE IF slots[k] = 0 THEN Constant ELSE vars[slots[k]]
               vs == [k \in DOMAIN slots |-> V(k)]
               e == IF p = <<>> /\ s.kind \in {"init", "field"}
                    THEN [v |-> vs[1], mem |-> mem, trace |-> trace]
                    ELSE Effect(i, vs, mem, trace)
           IN  /\ p \notin DOMAIN done
               /\ \A k \in DOMAIN slots : Inlined(slots[k]) => Append(p, k) \in DOMAIN done
               /\ mem' = e.mem /\ trace' = e.trace
               /\ IF p # <<>>
                  THEN /\ done' = [q \in DOMAIN done \cup {p} |-> IF q = p THEN e.v ELSE done[q]]
                       /\ UNCHANGED <<vars, running>>
                  ELSE /\ done' = << >>
                       /\ running' = running + 1
                       /\ vars' = CASE s.kind \in {"assign", "init"} -> [vars EXCEPT ![i] = e.v]
                                    [] s.kind = "field" ->
                                         [vars EXCEPT ![i] = Term("insertvalue", 0, <<@, e.v>>)]
                                    [] OTHER -> vars
  /\ UNCHANGED <<block, next, expr, stmts>>

Returned == Translated /\ running > Len(stmts)

IOInit ==
  /\ block = <<>> /\ next = 1 /\ expr = <<>> /\ stmts = <<>>
  /\ running = 1 /\ done = << >> /\ vars = <<>>
  /\ mem = Constant /\ trace = <<>>

Stutter == Returned /\ UNCHANGED ioVars

IONext == Choose \/ Translate \/ Evaluate \/ Stutter

IOSpec == IOInit /\ [][IONext]_ioVars

(***************************************************************************)
(* The block as LLVM runs it, one instruction after the other.             *)
(***************************************************************************)
LlvmRun ==
  LET R[n \in 0..Len(block)] ==
        IF n = 0 THEN [vals |-> <<>>, mem |-> Constant, trace |-> <<>>]
        ELSE LET r == R[n-1]
                 x == block[n]
                 V(k) == IF x.args[k] = 0 THEN Constant ELSE r.vals[x.args[k]]
                 vs == IF x.op = "select" THEN <<V(1), V(x.arm)>>
                       ELSE [k \in DOMAIN x.args |-> V(k)]
                 e == Effect(n, vs, r.mem, r.trace)
             IN  [vals |-> Append(r.vals, e.v), mem |-> e.mem, trace |-> e.trace]
  IN  R[Len(block)]

(***************************************************************************)
(* Properties.                                                             *)
(***************************************************************************)
\* The translation has a kind of expression for each value, an inlined one for
\* a user in the same block (inlineOrCreateVariable), and each statement is of
\* a translated instruction.
IOTypeOK ==
  /\ next \in 1..(Len(block) + 1)
  /\ \A i \in DOMAIN block :
       /\ expr[i] \in {"none", "variable", "inlined"}
       /\ Inlined(i) => Uses(i) # {}
  /\ \A s \in DOMAIN stmts :
       /\ stmts[s].kind \in {"assign", "call", "store", "init", "field", "ret"}
       /\ stmts[s].at < next
  /\ running \in 1..(Len(stmts) + 1)

\* The values an inlined value is printed in, and so on up to a statement.
Chain(i) ==
  LET C[n \in 0..Len(block)] ==
        IF n = 0 THEN {i}
        ELSE C[n-1] \cup {u[1] : u \in UNION {Uses(j) : j \in {k \in C[n-1] : Inlined(k)}}}
  IN  C[Len(block)]

\* A call that is printed later does not move past a load, and C evaluates it
\* exactly once.  (The other blocks do not keep the order of LLVM.)
CallsInPlace ==
  \A i \in DOMAIN block :
    block[i].op = "call" /\ Inlined(i) =>
      /\ \A j \in Chain(i) \ {i} : block[j].op \notin Dup \cup {"select"}
      /\ \A j \in i..Len(block) :
           block[j].op = "load" => \E k \in Chain(i) : k < j /\ ~Inlined(k)

\* Whatever order C chooses for the operands of a statement, the block makes
\* the calls LLVM makes, with the same arguments, in the same state of memory,
\* and leaves memory and the returned value as LLVM does.
SameEffects ==
  Returned /\ CallsInPlace => trace = LlvmRun.trace /\ mem = LlvmRun.mem

\* Every call is printed, in one statement only: inlining neither loses a call
\* nor puts it into two statements.
CallsInOneStatement ==
  Translated =>
    \A i \in DOMAIN block :
      block[i].op \in {"call", "abs"} =>
        Cardinality({s \in DOMAIN stmts : stmts[s].at \in Chain(i)
                                          /\ stmts[s].kind # "field"}) = 1
===============================================================================
