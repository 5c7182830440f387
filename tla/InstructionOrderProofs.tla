----------------------- MODULE InstructionOrderProofs -----------------------
(***************************************************************************)
(* Where a block's values are printed, for blocks of every length.         *)
(***************************************************************************)
EXTENDS InstructionOrder, NaturalSets, FiniteSetTheorems, TLAPS

ExprKinds == {"none", "variable", "inlined"}
StatementKinds == {"assign", "call", "store", "init", "field", "ret"}
Statements == [kind : StatementKinds, at : Nat]
Instrs == [op : ValueOps \cup {"store", "ret"}, args : Seq(Nat), arm : {2, 3},
           escapes : BOOLEAN]

\* The statements that are a value's own; an insertvalue's second one is not
\* counted.
Printed(i) == {s \in DOMAIN stmts : stmts[s].at = i /\ stmts[s].kind # "field"}

\* A translated value is either left to its only use or has one statement.
Placed(i) ==
  IF Inlined(i) THEN HasNUses(i, 1) /\ Uses(i) # {} /\ Printed(i) = {}
  ELSE \E s \in DOMAIN stmts : Printed(i) = {s}

OperandsBefore == \A i \in DOMAIN block : \A k \in DOMAIN block[i].args : block[i].args[k] < i

IOInv ==
  /\ block \in Seq(Instrs) /\ expr \in Seq(ExprKinds) /\ Len(expr) = Len(block)
  /\ stmts \in Seq(Statements)
  /\ next \in 1..(Len(block) + 1) /\ running \in 1..(Len(stmts) + 1)
  /\ ~Complete => next = 1
  /\ OperandsBefore
  /\ \A s \in DOMAIN stmts : stmts[s].at \in 1..(next - 1)
  /\ \A i \in DOMAIN block : i >= next => expr[i] = "none"
  /\ \A i \in DOMAIN block : i < next => Placed(i)

-----------------------------------------------------------------------------
(* The block. *)

LEMMA WiderSeq ==
  ASSUME NEW S, NEW T, S \subseteq T, NEW s \in Seq(S)
  PROVE  s \in Seq(T)
OBVIOUS

\* The operands of a new instruction come before it.
LEMMA NewOperands ==
  ASSUME block \in Seq(Instrs), NEW op \in ValueOps \cup {"store", "ret"}, NEW x \in Instructions(op)
  PROVE  /\ x \in Instrs
         /\ \A k \in DOMAIN x.args : x.args[k] \in 0..Len(block)
<1>1. Values \subseteq 0..Len(block) /\ 0 \in Values /\ Len(block) \in Nat
  BY DEF Values
<1>2. x.op = op /\ x.args \in Operands(op) /\ x.arm \in {2, 3} /\ x.escapes \in BOOLEAN
      /\ x = [op |-> op, args |-> x.args, arm |-> x.arm, escapes |-> x.escapes]
  BY DEF Instructions
<1> PICK V : V = Values
  OBVIOUS
<1>3. \/ x.args = <<>>
      \/ \E a \in V : x.args = <<a>>
      \/ x.args \in V \X V
      \/ x.args \in V \X V \X V
  <2>1. \A y \in V \ {0} : <<y, 0>> \in V \X V
    BY <1>1
  <2>2. {0} \X V \X V \subseteq V \X V \X V
    BY <1>1
  <2> QED
    BY <1>2, <2>1, <2>2 DEF Operands, ValueOps, Dup
<1>4. x.args \in Seq(V)
  <2>1. CASE x.args \in V \X V
    <3>1. PICK a \in V, b \in V : x.args = <<a, b>>
      BY <2>1
    <3> QED
      BY <3>1
  <2>2. CASE x.args \in V \X V \X V
    <3>1. PICK a \in V, b \in V, c \in V : x.args = <<a, b, c>>
      BY <2>2
    <3> QED
      BY <3>1
  <2>3. CASE \E a \in V : x.args = <<a>>
    BY <2>3
  <2>4. CASE x.args = <<>>
    BY <2>4
  <2> QED
    BY <1>3, <2>1, <2>2, <2>3, <2>4
<1>5. x.args \in Seq(Nat)
  <2>1. V \subseteq Nat
    BY <1>1
  <2> QED
    BY <1>4, <2>1, WiderSeq
<1> QED
  BY <1>1, <1>2, <1>4, <1>5 DEF Instrs

\* Before the first instruction is chosen the invariant holds.
LEMMA InvInit == IOInit => IOInv
<1> SUFFICES ASSUME IOInit PROVE IOInv
  OBVIOUS
<1>1. /\ block = <<>> /\ next = 1 /\ expr = <<>> /\ stmts = <<>> /\ running = 1
      /\ DOMAIN block = {} /\ DOMAIN stmts = {}
  BY DEF IOInit
<1>2. block \in Seq(Instrs) /\ expr \in Seq(ExprKinds) /\ stmts \in Seq(Statements)
  BY <1>1
<1> QED
  BY <1>1, <1>2 DEF IOInv, OperandsBefore

\* Choosing one more instruction of the block keeps it: its operands come before it.
LEMMA InvChoose ==
  ASSUME IOInv, Choose
  PROVE  IOInv'
<1>1. PICK op \in ValueOps \cup {"store", "ret"} :
         \E x \in Instructions(op) : block' = Append(block, x)
  BY KindsAssumption DEF Choose
<1> PICK x \in Instructions(op) : block' = Append(block, x)
  BY <1>1
<1>2. /\ ~Complete /\ next = 1 /\ next' = 1 /\ stmts' = stmts /\ running' = running
      /\ expr' = Append(expr, "none") /\ running \in 1..(Len(stmts) + 1)
      /\ stmts \in Seq(Statements)
      /\ \A s \in DOMAIN stmts : stmts[s].at \in 1..(next - 1)
      /\ \A i \in DOMAIN block : i >= next => expr[i] = "none"
  BY DEF Choose, IOInv
<1>3. /\ block \in Seq(Instrs) /\ expr \in Seq(ExprKinds) /\ Len(expr) = Len(block)
      /\ OperandsBefore
  BY DEF IOInv
<1>4. x \in Instrs /\ \A k \in DOMAIN x.args : x.args[k] \in 0..Len(block)
  BY <1>3, NewOperands
<1>5. /\ block' \in Seq(Instrs) /\ Len(block') = Len(block) + 1 /\ Len(block) \in Nat
      /\ DOMAIN block' = 1..(Len(block) + 1) /\ DOMAIN block = 1..Len(block)
      /\ block'[Len(block) + 1] = x
      /\ \A i \in DOMAIN block : block'[i] = block[i]
  BY <1>3, <1>4
<1>6. /\ expr' \in Seq(ExprKinds) /\ Len(expr') = Len(block')
      /\ \A i \in DOMAIN block' : expr'[i] = "none"
  BY <1>2, <1>3, <1>5 DEF ExprKinds
<1>7. OperandsBefore'
  <2> SUFFICES ASSUME NEW i \in DOMAIN block', NEW k \in DOMAIN block'[i].args
               PROVE  block'[i].args[k] < i
    BY DEF OperandsBefore
  <2>1. CASE i \in DOMAIN block
    BY <1>3, <1>5, <2>1 DEF OperandsBefore
  <2>2. CASE i = Len(block) + 1
    BY <1>4, <1>5, <2>2
  <2> QED
    BY <1>5, <2>1, <2>2
<1>8. \A i \in DOMAIN block' : ~(i < next')
  BY <1>2, <1>5
<1>9. next' \in 1..(Len(block') + 1)
  BY <1>2, <1>5
<1> QED
  BY <1>2, <1>5, <1>6, <1>7, <1>8, <1>9 DEF IOInv

-----------------------------------------------------------------------------
(* createExpressions. *)

\* One instruction: its own statement, if it gets one, comes first, and it is
\* left to its only use otherwise.
LEMMA InvEmit ==
  ASSUME IOInv, Complete, next <= Len(block),
         NEW ss \in Seq(Statements), NEW e \in ExprKinds, Emit(ss, e),
         \A k \in DOMAIN ss : ss[k].at = next /\ (ss[k].kind # "field" <=> k = 1),
         IF e = "inlined" THEN ss = <<>> /\ HasNUses(next, 1) /\ Uses(next) # {} ELSE ss # <<>>
  PROVE  IOInv'
<1>1. /\ block' = block /\ running' = running /\ next' = next + 1 /\ stmts' = stmts \o ss
      /\ expr' = [expr EXCEPT ![next] = e]
  BY DEF Emit, cVars
<1>2. /\ block \in Seq(Instrs) /\ expr \in Seq(ExprKinds) /\ Len(expr) = Len(block)
      /\ stmts \in Seq(Statements)
      /\ next \in 1..(Len(block) + 1) /\ running \in 1..(Len(stmts) + 1)
      /\ \A s \in DOMAIN stmts : stmts[s].at \in 1..(next - 1)
      /\ \A i \in DOMAIN block : i >= next => expr[i] = "none"
      /\ \A i \in DOMAIN block : i < next => Placed(i)
  BY DEF IOInv
<1> DEFINE n == Len(stmts)
<1>3. /\ n \in Nat /\ DOMAIN stmts = 1..n /\ DOMAIN block = 1..Len(block)
      /\ Len(block) \in Nat /\ next \in DOMAIN block /\ next \in Nat \ {0}
  BY <1>2
<1>4. /\ stmts' \in Seq(Statements) /\ Len(ss) \in Nat /\ DOMAIN ss = 1..Len(ss)
      /\ DOMAIN stmts' = 1..(n + Len(ss)) /\ Len(stmts') = n + Len(ss)
      /\ \A k \in 1..n : stmts'[k] = stmts[k]
      /\ \A k \in 1..Len(ss) : stmts'[n + k] = ss[k]
  BY <1>1, <1>2
<1>5. /\ expr' \in Seq(ExprKinds) /\ Len(expr') = Len(block')
      /\ \A i \in DOMAIN block : expr'[i] = IF i = next THEN e ELSE expr[i]
  BY <1>1, <1>2, <1>3
<1> HIDE DEF n
<1> PICK m : m = next
  OBVIOUS
<1>6. \A s \in DOMAIN stmts' :
        s \in 1..n \/ (s - n \in 1..Len(ss) /\ stmts'[s] = ss[s - n])
  BY <1>3, <1>4
<1>7. \A s \in DOMAIN stmts' : stmts'[s].at \in 1..(next' - 1)
  <2> SUFFICES ASSUME NEW s \in DOMAIN stmts' PROVE stmts'[s].at \in 1..next
    <3>1. next' - 1 = next
      BY <1>1, <1>3
    <3> QED
      BY <3>1
  <2>1. CASE s \in 1..n
    BY <1>2, <1>3, <1>4, <2>1
  <2>2. CASE s - n \in 1..Len(ss) /\ stmts'[s] = ss[s - n]
    BY <1>3, <1>4, <2>2
  <2> QED
    BY <1>6, <2>1, <2>2
<1>8. ASSUME NEW i \in DOMAIN block, i < next
      PROVE  Placed(i)'
  <2>1. Inlined(i)' = Inlined(i)
    BY <1>1, <1>3, <1>5, <1>8 DEF Inlined
  <2>2. Printed(i)' = Printed(i)
    <3>1. \A s \in DOMAIN stmts' : s \notin 1..n => stmts'[s].at = next
      BY <1>4, <1>6
    <3> QED
      BY <1>3, <1>4, <1>8, <3>1 DEF Printed
  <2>3. Uses(i)' = Uses(i) /\ HasNUses(i, 1)' = HasNUses(i, 1)
    BY <1>1 DEF Uses, HasNUses
  <2>4. Placed(i) /\ \A s : s \in DOMAIN stmts => s \in DOMAIN stmts'
    BY <1>2, <1>3, <1>4, <1>8
  <2> QED
    BY <2>1, <2>2, <2>3, <2>4 DEF Placed
<1>9. Placed(m)'
  <2>1. Inlined(m)' = (e = "inlined")
    BY <1>1, <1>3, <1>5 DEF Inlined
  <2>2. \A s \in 1..n : stmts'[s].at # next
    <3>1. \A s \in 1..n : stmts[s].at \in 1..(next - 1)
      BY <1>2, <1>3
    <3> QED
      BY <1>3, <1>4, <3>1
  <2>3. CASE e = "inlined"
    <3>1. Len(ss) = 0
      BY <2>3
    <3>2. Printed(m)' = {}
      BY <1>1, <1>3, <1>4, <2>2, <3>1 DEF Printed
    <3>3. Uses(m)' = Uses(m) /\ HasNUses(m, 1)' = HasNUses(m, 1)
      BY <1>1 DEF Uses, HasNUses
    <3> QED
      BY <2>1, <2>3, <3>2, <3>3 DEF Placed
  <2>4. CASE e # "inlined"
    <3>1. 1 \in 1..Len(ss) /\ n + 1 \in DOMAIN stmts'
      BY <1>3, <1>4, <2>4
    <3>2. stmts'[n + 1].at = next /\ stmts'[n + 1].kind # "field"
      BY <1>4, <3>1
    <3>3. ASSUME NEW s \in DOMAIN stmts', stmts'[s].at = next, stmts'[s].kind # "field"
          PROVE  s = n + 1
      <4>1. s - n \in 1..Len(ss) /\ stmts'[s] = ss[s - n]
        BY <1>6, <2>2, <3>3
      <4>2. s - n = 1
        BY <1>4, <3>3, <4>1
      <4> QED
        BY <1>3, <1>4, <4>2
    <3>4. {s \in DOMAIN stmts' : stmts'[s].at = next /\ stmts'[s].kind # "field"} = {n + 1}
      BY <3>1, <3>2, <3>3
    <3>5. Printed(m)' = {n + 1}
      BY <3>4 DEF Printed
    <3> QED
      BY <2>1, <2>4, <3>1, <3>5 DEF Placed
  <2> QED
    BY <2>3, <2>4
<1>10. \A i \in DOMAIN block' : i < next' => Placed(i)'
  <2> SUFFICES ASSUME NEW i \in DOMAIN block', i < next' PROVE Placed(i)'
    OBVIOUS
  <2>1. i < next \/ i = m
    BY <1>1, <1>3
  <2> QED
    BY <1>1, <1>8, <1>9, <2>1
<1>11. \A i \in DOMAIN block' : i >= next' => expr'[i] = "none"
  <2> SUFFICES ASSUME NEW i \in DOMAIN block, i >= next + 1 PROVE expr'[i] = "none"
    BY <1>1
  <2>1. i >= next /\ i # next
    BY <1>3
  <2> QED
    BY <1>2, <1>5, <2>1
<1>12. running' \in 1..(Len(stmts') + 1) /\ next' \in 1..(Len(block') + 1)
  BY <1>1, <1>2, <1>3, <1>4 DEF n
<1>13. OperandsBefore' /\ Complete'
  BY <1>1 DEF IOInv, OperandsBefore, Complete
<1> QED
  BY <1>1, <1>2, <1>4, <1>5, <1>7, <1>10, <1>11, <1>12, <1>13 DEF IOInv

\* A statement made for an instruction has that instruction and the kind asked for.
LEMMA StatementType ==
  ASSUME NEW kind \in StatementKinds, NEW i \in Nat
  PROVE  /\ Statement(kind, i) \in Statements
         /\ Statement(kind, i).at = i /\ Statement(kind, i).kind = kind
BY DEF Statement, Statements

\* A statement of its own for the instruction.
LEMMA InvOne ==
  ASSUME IOInv, Complete, next <= Len(block), NEW kind \in StatementKinds, kind # "field",
         NEW e \in ExprKinds, e # "inlined", Emit(<<Statement(kind, next)>>, e)
  PROVE  IOInv'
<1> DEFINE s == Statement(kind, next)
<1>1. s \in Statements /\ s.at = next /\ s.kind = kind
  BY StatementType DEF IOInv
<1> HIDE DEF s
<1>2. /\ <<s>> \in Seq(Statements) /\ DOMAIN <<s>> = {1} /\ <<s>>[1] = s /\ <<s>> # <<>>
  BY <1>1
<1>3. Emit(<<s>>, e)
  BY DEF s
<1> QED
  BY <1>1, <1>2, <1>3, InvEmit

\* inlineOrCreateVariable keeps it, on both of its branches.
LEMMA InvInlineOrCreateVariable ==
  ASSUME IOInv, Complete, next <= Len(block), InlineOrCreateVariable
  PROVE  IOInv'
<1>1. CASE CanInline(next)
  <2>1. Emit(<<>>, "inlined") /\ HasNUses(next, 1) /\ Uses(next) # {}
    BY <1>1 DEF InlineOrCreateVariable, CanInline
  <2>2. <<>> \in Seq(Statements) /\ DOMAIN <<>> = {} /\ "inlined" \in ExprKinds
    BY DEF ExprKinds
  <2> QED
    BY <2>1, <2>2, InvEmit
<1>2. CASE ~CanInline(next)
  BY <1>2, InvOne DEF InlineOrCreateVariable, StatementKinds, ExprKinds
<1> QED
  BY <1>1, <1>2

\* Every handler of an instruction keeps it.
LEMMA InvTranslate ==
  ASSUME IOInv, Translate
  PROVE  IOInv'
<1>1. Complete /\ next <= Len(block)
  BY DEF Translate, Parsing, ParseLLVMInstruction, ParseCallInstruction, ParseStoreInstruction,
         ParseInsertValueInstruction, ParseBitcastInstruction, ParseRETURN
<1>2. CASE ParseLLVMInstruction
  BY <1>1, <1>2, InvInlineOrCreateVariable DEF ParseLLVMInstruction
<1>3. CASE ParseCallInstruction
  BY <1>1, <1>3, InvInlineOrCreateVariable, InvOne
     DEF ParseCallInstruction, StatementKinds, ExprKinds
<1>4. CASE ParseStoreInstruction
  BY <1>1, <1>4, InvOne DEF ParseStoreInstruction, StatementKinds, ExprKinds
<1>5. CASE ParseInsertValueInstruction
  <2> DEFINE s == Statement("init", next)
             t == Statement("field", next)
  <2>1. /\ s \in Statements /\ s.at = next /\ s.kind = "init"
        /\ t \in Statements /\ t.at = next /\ t.kind = "field"
    BY StatementType DEF IOInv, StatementKinds
  <2>2. Emit(<<s, t>>, "variable")
    BY <1>5 DEF ParseInsertValueInstruction
  <2> HIDE DEF s, t
  <2>3. /\ <<s, t>> \in Seq(Statements) /\ DOMAIN <<s, t>> = {1, 2} /\ <<s, t>>[1] = s
        /\ <<s, t>>[2] = t /\ <<s, t>> # <<>> /\ "variable" \in ExprKinds
    BY <2>1 DEF ExprKinds
  <2> QED
    BY <1>1, <2>1, <2>2, <2>3, InvEmit
<1>6. CASE ParseBitcastInstruction
  BY <1>1, <1>6, InvOne DEF ParseBitcastInstruction, StatementKinds, ExprKinds
<1>7. CASE ParseRETURN
  BY <1>1, <1>7, InvOne DEF ParseRETURN, StatementKinds, ExprKinds
<1> QED
  BY <1>2, <1>3, <1>4, <1>5, <1>6, <1>7 DEF Translate

\* Running the C text does not disturb it.
LEMMA InvElsewhere ==
  ASSUME IOInv, UNCHANGED <<block, next, expr, stmts>>, running' \in 1..(Len(stmts) + 1)
  PROVE  IOInv'
<1>1. /\ block' = block /\ next' = next /\ expr' = expr /\ stmts' = stmts
  OBVIOUS
<1>2. \A i : Placed(i)' = Placed(i)
  BY <1>1 DEF Placed, Inlined, HasNUses, Uses, Printed
<1>3. Complete' = Complete /\ OperandsBefore' = OperandsBefore
  BY <1>1 DEF Complete, OperandsBefore
<1> QED
  BY <1>1, <1>2, <1>3 DEF IOInv

\* Every step keeps the invariant.
LEMMA InvNext == IOInv /\ [IONext]_ioVars => IOInv'
<1> SUFFICES ASSUME IOInv, [IONext]_ioVars PROVE IOInv'
  OBVIOUS
<1>1. CASE Choose
  BY <1>1, InvChoose
<1>2. CASE Translate
  BY <1>2, InvTranslate
<1>3. CASE Evaluate
  <2>1. /\ UNCHANGED <<block, next, expr, stmts>> /\ running <= Len(stmts)
        /\ running' = running \/ running' = running + 1
    BY <1>3 DEF Evaluate
  <2>2. running \in 1..(Len(stmts) + 1) /\ Len(stmts) \in Nat
    BY DEF IOInv
  <2> QED
    BY <2>1, <2>2, InvElsewhere
<1>4. CASE UNCHANGED ioVars
  <2>1. UNCHANGED <<block, next, expr, stmts>> /\ running' = running
    BY <1>4 DEF ioVars
  <2> QED
    BY <2>1, InvElsewhere DEF IOInv
<1> QED
  BY <1>1, <1>2, <1>3, <1>4 DEF IONext, Stutter

\* However far createExpressions has come in a block, each instruction behind
\* it is either inlined, with a single use and no statement of its own, or has
\* exactly one statement; statements are of instructions already reached, and
\* operands are defined in front of their uses.
THEOREM BlockInvariant == IOSpec => []IOInv
<1> QED
  BY InvInit, InvNext, PTL DEF IOSpec

-----------------------------------------------------------------------------
(* Where a value ends up. *)

Above(X) == X \cup {u[1] : u \in UNION {Uses(j) : j \in {k \in X : Inlined(k)}}}

IsChain(C, i) ==
  C = [n \in 0..Len(block) |->
         IF n = 0 THEN {i}
         ELSE C[n-1] \cup {u[1] : u \in UNION {Uses(j) : j \in {k \in C[n-1] : Inlined(k)}}}]

\* A use comes behind what it uses.
LEMMA UsesAbove ==
  ASSUME IOInv, NEW i, NEW u \in Uses(i)
  PROVE  u[1] \in DOMAIN block /\ i < u[1]
<1>1. u[1] \in DOMAIN block /\ u[2] \in DOMAIN block[u[1]].args /\ block[u[1]].args[u[2]] = i
  BY DEF Uses
<1> QED
  BY <1>1 DEF IOInv, OperandsBefore

\* The recursive function in Chain exists.
LEMMA ChainDefined ==
  ASSUME IOInv, NEW i \in DOMAIN block
  PROVE  \E C : IsChain(C, i) /\ Chain(i) = C[Len(block)]
<1> DEFINE S == SUBSET DOMAIN block
           step == [X \in S |-> Above(X)]
<1>1. \A X \in S : step[X] \in S /\ step[X] = Above(X)
  BY UsesAbove DEF Above
<1>2. Len(block) \in Nat /\ {i} \in S
  BY DEF IOInv
<1> HIDE DEF step
<1>3. PICK R : Iterates(R, Len(block), {i}, step)
  BY <1>2, IteratesDefined
<1>4. \A n \in 0..Len(block) : R[n] \in S
  <2> HIDE DEF S
  <2> QED
    BY <1>1, <1>2, <1>3, IteratesTypical
<1>5. IsChain(R, i)
  <2>1. \A n \in 0..Len(block) : n # 0 => step[R[n-1]] = Above(R[n-1])
    BY <1>1, <1>2, <1>4
  <2>2. R = [n \in 0..Len(block) |-> IF n = 0 THEN {i} ELSE step[R[n-1]]]
    BY <1>3 DEF Iterates
  <2>3. [n \in 0..Len(block) |-> IF n = 0 THEN {i} ELSE step[R[n-1]]]
          = [n \in 0..Len(block) |-> IF n = 0 THEN {i} ELSE Above(R[n-1])]
    BY <2>1
  <2> QED
    BY <2>2, <2>3 DEF IsChain, Above
<1> DEFINE C == CHOOSE C : IsChain(C, i)
<1>6. IsChain(C, i)
  BY <1>5
<1>7. Chain(i) = C[Len(block)]
  BY DEF Chain, IsChain
<1> HIDE DEF C
<1> QED
  BY <1>6, <1>7

\* A value has finitely many uses.
LEMMA FiniteUses ==
  ASSUME IOInv, NEW i
  PROVE  IsFiniteSet(Uses(i))
<1>1. Len(block) \in Int /\ 1 \in Int /\ 3 \in Int
  BY DEF IOInv
<1>2. IsFiniteSet((1..Len(block)) \X (1..3))
  BY <1>1, FS_Interval, FS_Product
<1>3. Uses(i) \in SUBSET ((1..Len(block)) \X (1..3))
  BY DEF Uses, IOInv
<1> QED
  BY <1>2, <1>3, FS_Subset

\* The only use of an inlined value.
LEMMA OneUse ==
  ASSUME IOInv, NEW i \in DOMAIN block, Inlined(i)
  PROVE  \E u \in Uses(i) : Uses(i) = {u}
<1>1. Placed(i)
  BY DEF IOInv, Inlined
<1>2. HasNUses(i, 1) /\ Uses(i) # {}
  BY <1>1 DEF Placed
<1>3. IsFiniteSet(Uses(i))
  BY FiniteUses
<1>4. Cardinality(Uses(i)) = 1
  <2>1. Cardinality(Uses(i)) \in Nat /\ Cardinality(Uses(i)) # 0
    BY <1>2, <1>3, FS_CardinalityType, FS_EmptySet
  <2> QED
    BY <1>2, <2>1 DEF HasNUses
<1> QED
  BY <1>3, <1>4, FS_Singleton

\* The members of a chain are inlined into each other, up to one.
Tops(X, t) ==
  /\ X \subseteq DOMAIN block /\ t \in X
  /\ \A j \in X \ {t} : Inlined(j) /\ \A u \in Uses(j) : u[1] \in X

\* One step up a chain moves its last instruction further on, if that is inlined.
LEMMA NextTop ==
  ASSUME IOInv, NEW X, NEW t, Tops(X, t)
  PROVE  \E v : Tops(Above(X), v) /\ (Inlined(t) => v > t) /\ (~Inlined(t) => v = t)
<1>1. X \subseteq DOMAIN block /\ t \in X /\ t \in DOMAIN block
      /\ \A j \in X \ {t} : Inlined(j) /\ \A u \in Uses(j) : u[1] \in X
  BY DEF Tops
<1>2. CASE ~Inlined(t)
  <2>1. Above(X) = X
    BY <1>1, <1>2 DEF Above
  <2> QED
    BY <1>2, <2>1
<1>3. CASE Inlined(t)
  <2>1. PICK w \in Uses(t) : Uses(t) = {w}
    BY <1>1, <1>3, OneUse
  <2>2. w[1] \in DOMAIN block /\ t < w[1]
    BY UsesAbove
  <2>3. Above(X) = X \cup {w[1]}
    <3>1. ASSUME NEW j \in X, NEW u \in Uses(j)
          PROVE  u[1] \in X \cup {w[1]}
      BY <1>1, <2>1, <3>1
    <3> QED
      BY <1>1, <1>3, <2>1, <3>1 DEF Above
  <2>4. Tops(Above(X), w[1])
    BY <1>1, <1>3, <2>1, <2>2, <2>3 DEF Tops
  <2> QED
    BY <1>3, <2>2, <2>4
<1> QED
  BY <1>2, <1>3

\* Every value is printed in one place in the end.
LEMMA ChainHasTop ==
  ASSUME IOInv, NEW i \in DOMAIN block
  PROVE  \E t : Tops(Chain(i), t) /\ ~Inlined(t)
<1>1. PICK C : IsChain(C, i) /\ Chain(i) = C[Len(block)]
  BY ChainDefined
<1>2. Len(block) \in Nat /\ DOMAIN block = 1..Len(block)
  BY DEF IOInv
<1> DEFINE T == {n \in Nat : n <= Len(block) =>
                   \E t : Tops(C[n], t) /\ (Inlined(t) => t >= i + n)}
<1>3. 0 \in T
  <2>1. C[0] = {i}
    BY <1>1, <1>2 DEF IsChain
  <2>2. Tops(C[0], i) /\ i >= i + 0
    BY <1>2, <2>1 DEF Tops
  <2> QED
    BY <2>2
<1>4. ASSUME NEW n \in T PROVE n + 1 \in T
  <2> SUFFICES ASSUME n + 1 <= Len(block)
               PROVE  \E t : Tops(C[n+1], t) /\ (Inlined(t) => t >= i + (n + 1))
    OBVIOUS
  <2>1. n \in Nat /\ n <= Len(block) /\ n + 1 \in 0..Len(block) /\ n + 1 # 0 /\ (n + 1) - 1 = n
    BY <1>2
  <2>2. PICK t : Tops(C[n], t) /\ (Inlined(t) => t >= i + n)
    BY <2>1
  <2>3. C[n+1] = Above(C[n])
    BY <1>1, <2>1 DEF IsChain, Above
  <2>4. PICK v : Tops(C[n+1], v) /\ (Inlined(t) => v > t) /\ (~Inlined(t) => v = t)
    BY <2>2, <2>3, NextTop
  <2>5. t \in Nat /\ v \in Nat /\ i \in Nat
    BY <1>2, <2>2, <2>4 DEF Tops
  <2>6. Inlined(v) => v >= i + (n + 1)
    BY <2>1, <2>2, <2>4, <2>5
  <2> QED
    BY <2>4, <2>6
<1> HIDE DEF T
<1>5. Nat \subseteq T
  BY <1>3, <1>4, SetInduction
<1>6. PICK t : Tops(C[Len(block)], t) /\ (Inlined(t) => t >= i + Len(block))
  BY <1>2, <1>5 DEF T
<1>7. t \in 1..Len(block) /\ i \in 1..Len(block)
  BY <1>2, <1>6 DEF Tops
<1> QED
  BY <1>1, <1>2, <1>6, <1>7

-----------------------------------------------------------------------------
\* createExpressions has an expression for each value, an inlined one only for
\* a value that is used in the block, and makes statements only of
\* instructions it has reached, in blocks of every length.
THEOREM ExpressionsWellFormed == IOSpec => []IOTypeOK
<1>1. IOInv => IOTypeOK
  <2> SUFFICES ASSUME IOInv PROVE IOTypeOK
    OBVIOUS
  <2>1. ASSUME NEW i \in DOMAIN block
        PROVE  expr[i] \in {"none", "variable", "inlined"} /\ (Inlined(i) => Uses(i) # {})
    <3>1. expr[i] \in ExprKinds
      BY DEF IOInv
    <3>2. Inlined(i) => Placed(i)
      BY DEF IOInv, Inlined
    <3> QED
      BY <3>1, <3>2 DEF ExprKinds, Placed
  <2>2. ASSUME NEW s \in DOMAIN stmts
        PROVE  /\ stmts[s].kind \in {"assign", "call", "store", "init", "field", "ret"}
               /\ stmts[s].at < next
    <3>1. stmts[s] \in Statements /\ stmts[s].at \in 1..(next - 1) /\ next \in Nat
      BY DEF IOInv
    <3> QED
      BY <3>1 DEF Statements, StatementKinds
  <2> QED
    BY <2>1, <2>2 DEF IOTypeOK, IOInv
<1> QED
  BY <1>1, BlockInvariant, PTL

\* However calls, loads and arithmetic are nested into each other, each call is
\* printed in exactly one statement: a call is moved to its only use, that one
\* to its only use, and so on, up to a value with a statement of its own.
THEOREM EachCallPrinted == IOSpec => []CallsInOneStatement
<1>1. IOInv => CallsInOneStatement
  <2> SUFFICES ASSUME IOInv, Translated, NEW i \in DOMAIN block
               PROVE  Cardinality({s \in DOMAIN stmts : stmts[s].at \in Chain(i)
                                                        /\ stmts[s].kind # "field"}) = 1
    BY DEF CallsInOneStatement
  <2>1. PICK t : Tops(Chain(i), t) /\ ~Inlined(t)
    BY ChainHasTop
  <2>2. \A j \in DOMAIN block : Placed(j)
    BY DEF IOInv, Translated
  <2>3. PICK s \in DOMAIN stmts : Printed(t) = {s}
    BY <2>1, <2>2 DEF Placed, Tops
  <2>4. \A j \in Chain(i) \ {t} : Printed(j) = {}
    BY <2>1, <2>2 DEF Placed, Tops
  <2>5. {r \in DOMAIN stmts : stmts[r].at \in Chain(i) /\ stmts[r].kind # "field"} = Printed(t)
    BY <2>1, <2>4 DEF Printed, Tops
  <2> QED
    BY <2>3, <2>5, FS_Singleton
<1> QED
  BY <1>1, BlockInvariant, PTL

-----------------------------------------------------------------------------
(* What the run of the C text needs to know of the translated block. *)

Arities(x) ==
  /\ Len(x.args) <= 3
  /\ x.op = "select" => Len(x.args) = 3
  /\ x.op = "insertvalue" => Len(x.args) = 2

BlockShape ==
  \A i \in DOMAIN block :
    /\ Arities(block[i])
    /\ \A k \in DOMAIN block[i].args :
         block[i].args[k] = 0 \/ block[block[i].args[k]].op \in ValueOps

\* The statements of an insertvalue are the two of it, and what has no value
\* is not used.
Fits(ss, x) ==
  /\ ss[x].kind \in {"init", "field"} <=> block[ss[x].at].op = "insertvalue"
  /\ ss[x].kind = "field" => x > 1 /\ ss[x-1] = Statement("init", ss[x].at)
  /\ ss[x].kind = "init" => x < Len(ss) /\ ss[x+1] = Statement("field", ss[x].at)
  /\ ss[x].kind \in {"call", "store", "ret"} => Uses(ss[x].at) = {}

\* Nothing between an inlined value and its use changes what a load reads.
MayBeInlined(i) ==
  /\ block[i].op \notin {"store", "ret", "insertvalue", "bitcast"}
  /\ \A u \in Uses(i) : \A j \in (i + 1)..(u[1] - 1) : block[j].op \in ReadOnly

InOrder(ss) == \A x, y \in DOMAIN ss : x <= y => ss[x].at <= ss[y].at

StatementShape ==
  /\ \A x \in DOMAIN stmts : Fits(stmts, x)
  /\ InOrder(stmts)
  /\ \A i \in DOMAIN block : Inlined(i) => MayBeInlined(i)

VarsShape == Len(vars) = Len(block) /\ \E A : vars \in Seq(A)

Fresh == running = 1 /\ done = << >> /\ mem = Constant /\ trace = <<>>

ShapeInv ==
  /\ IOInv /\ BlockShape /\ StatementShape /\ VarsShape
  /\ ~Translated => Fresh

LEMMA NewShape ==
  ASSUME block \in Seq(Instrs), NEW op \in ValueOps \cup {"store", "ret"}, NEW x \in Instructions(op)
  PROVE  /\ Arities(x)
         /\ \A k \in DOMAIN x.args : x.args[k] \in Values
<1>1. x.op = op /\ x.args \in Operands(op)
  BY DEF Instructions
<1>2. 0 \in Values
  BY DEF Values
<1> PICK V : V = Values
  OBVIOUS
<1>3. CASE op = "select"
  <2>1. PICK b \in V, c \in V : x.args = <<0, b, c>>
    BY <1>1, <1>3 DEF Operands
  <2> QED
    BY <1>1, <1>2, <1>3, <2>1 DEF Arities
<1>4. CASE op \in {"binary", "insertvalue"}
  <2>1. PICK b \in V, c \in V : x.args = <<b, c>>
    BY <1>1, <1>4 DEF Operands
  <2> QED
    BY <1>1, <1>2, <1>4, <2>1 DEF Arities
<1>5. CASE op = "fcmp"
  <2>1. PICK b \in V : x.args = <<b, 0>>
    BY <1>1, <1>5 DEF Operands
  <2> QED
    BY <1>1, <1>2, <1>5, <2>1 DEF Arities
<1>6. CASE op \in {"load", "call", "store", "bitcast", "abs", "ret"}
  <2>1. x.args = <<>> \/ \E b \in V : x.args = <<b>>
    BY <1>1, <1>6 DEF Operands
  <2> QED
    BY <1>1, <1>2, <1>6, <2>1 DEF Arities
<1> QED
  BY <1>3, <1>4, <1>5, <1>6 DEF ValueOps, Dup

\* An empty block has the shape.
LEMMA ShapeInit == IOInit => ShapeInv
<1> SUFFICES ASSUME IOInit PROVE ShapeInv
  OBVIOUS
<1>1. /\ block = <<>> /\ stmts = <<>> /\ vars = <<>>
      /\ DOMAIN block = {} /\ DOMAIN stmts = {} /\ Fresh
  BY DEF IOInit, Fresh
<1>2. BlockShape /\ StatementShape
  BY <1>1 DEF BlockShape, StatementShape, InOrder
<1>3. VarsShape
  BY <1>1 DEF VarsShape
<1> QED
  BY <1>1, <1>2, <1>3, InvInit DEF ShapeInv

\* A new instruction has the arity of its opcode and values for operands.
LEMMA ShapeChoose ==
  ASSUME ShapeInv, Choose
  PROVE  ShapeInv'
<1>1. PICK op \in ValueOps \cup {"store", "ret"} :
         \E x \in Instructions(op) : block' = Append(block, x)
  BY KindsAssumption DEF Choose
<1> PICK x \in Instructions(op) : block' = Append(block, x)
  BY <1>1
<1>2. /\ IOInv /\ ~Complete /\ next = 1 /\ stmts' = stmts /\ vars' = Append(vars, Constant)
      /\ expr' = Append(expr, "none") /\ running' = running /\ done' = done
      /\ mem' = mem /\ trace' = trace /\ next' = next
      /\ \A i \in DOMAIN block : expr[i] = "none"
  BY DEF Choose, ShapeInv, IOInv
<1>3. IOInv'
  BY <1>2, InvChoose
<1>4. /\ block \in Seq(Instrs) /\ expr \in Seq(ExprKinds) /\ Len(expr) = Len(block)
      /\ stmts \in Seq(Statements) /\ OperandsBefore
      /\ \A s \in DOMAIN stmts : stmts[s].at \in 1..(next - 1)
  BY <1>2 DEF IOInv
<1>5. DOMAIN stmts = {}
  <2>1. 1..(next - 1) = {}
    BY <1>2
  <2> QED
    BY <1>4, <2>1
<1>6. Arities(x) /\ x \in Instrs /\ \A k \in DOMAIN x.args : x.args[k] \in Values
  BY <1>4, NewShape, NewOperands
<1>7. /\ DOMAIN block' = 1..(Len(block) + 1) /\ DOMAIN block = 1..Len(block)
      /\ block'[Len(block) + 1] = x /\ Len(block') = Len(block) + 1 /\ Len(block) \in Nat
      /\ \A i \in DOMAIN block : block'[i] = block[i] /\ i \in DOMAIN block'
  BY <1>4, <1>6
<1>8. BlockShape'
  <2> SUFFICES ASSUME NEW i \in DOMAIN block'
               PROVE  /\ Arities(block'[i])
                      /\ \A k \in DOMAIN block'[i].args :
                           block'[i].args[k] = 0 \/ block'[block'[i].args[k]].op \in ValueOps
    BY DEF BlockShape, Arities
  <2>1. CASE i = Len(block) + 1
    BY <1>6, <1>7, <2>1 DEF Values
  <2>2. CASE i \in DOMAIN block
    <3>1. /\ Arities(block[i])
          /\ \A k \in DOMAIN block[i].args :
               /\ block[i].args[k] = 0 \/ block[block[i].args[k]].op \in ValueOps
               /\ block[i].args[k] < i
      BY <2>2, <1>4 DEF ShapeInv, BlockShape, OperandsBefore
    <3>2. ASSUME NEW k \in DOMAIN block[i].args
          PROVE  block[i].args[k] = 0 \/ block[i].args[k] \in DOMAIN block
      <4>0. block[i] \in Instrs
        BY <1>4, <2>2
      <4>1. block[i].args \in Seq(Nat)
        BY <4>0 DEF Instrs
      <4>2. block[i].args[k] \in Nat /\ block[i].args[k] < i /\ i \in 1..Len(block)
        BY <1>7, <2>2, <3>1, <4>1
      <4> QED
        BY <1>7, <4>2
    <3>3. block'[i] = block[i]
      BY <1>7, <2>2
    <3>4. \A k \in DOMAIN block[i].args :
            block[i].args[k] = 0 \/ block'[block[i].args[k]].op \in ValueOps
      BY <1>7, <3>1, <3>2
    <3> QED
      BY <3>1, <3>3, <3>4
  <2>3. i = Len(block) + 1 \/ i \in DOMAIN block
    BY <1>7
  <2> QED
    BY <2>1, <2>2, <2>3
<1>9. \A i \in DOMAIN block' : ~Inlined(i)'
  <2>1. "none" \in ExprKinds
    BY DEF ExprKinds
  <2>2. ASSUME NEW i \in 1..(Len(block) + 1) PROVE expr'[i] = "none"
    <3>1. expr' = Append(expr, "none") /\ Len(expr) = Len(block)
      BY <1>2, <1>4
    <3>2. i = Len(expr) + 1 \/ i \in 1..Len(expr)
      BY <1>7, <3>1
    <3>3. i \in 1..Len(expr) => expr[i] = "none"
      BY <1>2, <1>7, <3>1
    <3> QED
      BY <1>4, <2>1, <3>1, <3>2, <3>3
  <2> QED
    BY <1>7, <2>2 DEF Inlined
<1>10. StatementShape'
  BY <1>2, <1>5, <1>9 DEF StatementShape, InOrder
<1>11. VarsShape'
  <2>1. PICK A : vars \in Seq(A) /\ Len(vars) = Len(block)
    BY DEF ShapeInv, VarsShape
  <2>2. vars \in Seq(A \cup {Constant})
    BY <2>1, WiderSeq
  <2>3. vars' \in Seq(A \cup {Constant}) /\ Len(vars') = Len(vars) + 1
    BY <1>2, <2>2
  <2> QED
    BY <1>7, <2>1, <2>3 DEF VarsShape
<1>12. Fresh'
  BY <1>2 DEF ShapeInv, Translated, Fresh
<1> QED
  BY <1>3, <1>8, <1>10, <1>11, <1>12 DEF ShapeInv

\* An instruction without a value has no uses.
LEMMA Unused ==
  ASSUME BlockShape, NEW i \in DOMAIN block, i # 0, block[i].op \notin ValueOps
  PROVE  Uses(i) = {}
BY DEF BlockShape, Uses

\* Statements that fit the next instruction keep the shape.
LEMMA ShapeEmit ==
  ASSUME ShapeInv, Complete, next <= Len(block), IOInv',
         NEW ss \in Seq(Statements), NEW e, Emit(ss, e),
         \A k \in DOMAIN ss : ss[k].at = next /\ Fits(ss, k),
         e = "inlined" => MayBeInlined(next)
  PROVE  ShapeInv' /\ Fresh'
<1>1. /\ block' = block /\ next' = next + 1 /\ stmts' = stmts \o ss
      /\ expr' = [expr EXCEPT ![next] = e] /\ UNCHANGED cVars
  BY DEF Emit
<1>2. /\ IOInv /\ block \in Seq(Instrs) /\ expr \in Seq(ExprKinds) /\ Len(expr) = Len(block)
      /\ stmts \in Seq(Statements) /\ next \in 1..(Len(block) + 1)
      /\ \A s \in DOMAIN stmts : stmts[s].at \in 1..(next - 1)
      /\ BlockShape /\ \A x \in DOMAIN stmts : Fits(stmts, x)
      /\ InOrder(stmts)
      /\ \A i \in DOMAIN block : Inlined(i) => MayBeInlined(i)
  BY DEF ShapeInv, IOInv, StatementShape
<1> DEFINE n == Len(stmts)
<1>3. /\ n \in Nat /\ DOMAIN stmts = 1..n /\ Len(ss) \in Nat /\ DOMAIN ss = 1..Len(ss)
      /\ DOMAIN stmts' = 1..(n + Len(ss)) /\ Len(stmts') = n + Len(ss)
      /\ \A k \in 1..n : stmts'[k] = stmts[k]
      /\ \A k \in 1..Len(ss) : stmts'[n + k] = ss[k]
  BY <1>1, <1>2
<1> HIDE DEF n
<1>4. ASSUME NEW x \in DOMAIN stmts'
      PROVE  x \in 1..n \/ (x \in Nat /\ x - n \in 1..Len(ss) /\ stmts'[x] = ss[x - n] /\ x > n)
  BY <1>3
<1>5. \A x \in DOMAIN stmts' : Fits(stmts', x)
  <2> SUFFICES ASSUME NEW x \in DOMAIN stmts' PROVE Fits(stmts', x)
    OBVIOUS
  <2>1. CASE x \in 1..n
    <3>1. Fits(stmts, x) /\ stmts'[x] = stmts[x] /\ x < n => stmts'[x+1] = stmts[x+1]
      BY <1>2, <1>3, <2>1
    <3>2. x > 1 => stmts'[x-1] = stmts[x-1]
      BY <1>3, <2>1
    <3>3. Fits(stmts, x) /\ stmts'[x] = stmts[x] /\ (x < n => stmts'[x+1] = stmts[x+1])
      BY <1>2, <1>3, <2>1
    <3>4. x < Len(stmts) => x < Len(stmts') /\ x < n
      BY <1>3, <2>1 DEF n
    <3> QED
      BY <3>2, <3>3, <3>4 DEF Fits
  <2>2. CASE x \notin 1..n
    <3> DEFINE k == x - n
    <3>1. k \in 1..Len(ss) /\ stmts'[x] = ss[k] /\ x = n + k
      BY <1>3, <1>4, <2>2
    <3>2. k > 1 => stmts'[x-1] = ss[k-1] /\ x > 1
      <4>1. k > 1 => k - 1 \in 1..Len(ss) /\ n + (k - 1) = x - 1
        BY <1>3, <3>1
      <4> QED
        BY <1>3, <3>1, <4>1
    <3>3. k < Len(ss) => stmts'[x+1] = ss[k+1] /\ x < Len(stmts')
      <4>1. k < Len(ss) => k + 1 \in 1..Len(ss) /\ n + (k + 1) = x + 1
        BY <1>3, <3>1
      <4> QED
        BY <1>3, <3>1, <4>1
    <3>4. Fits(ss, k)
      BY <1>3, <3>1
    <3> HIDE DEF k
    <3> QED
      BY <3>1, <3>2, <3>3, <3>4 DEF Fits
  <2> QED
    BY <2>1, <2>2
<1>6. InOrder(stmts')
  <2> SUFFICES ASSUME NEW x \in DOMAIN stmts', NEW y \in DOMAIN stmts', x <= y
               PROVE  stmts'[x].at <= stmts'[y].at
    BY DEF InOrder
  <2>1. CASE y \in 1..n
    <3>1. x \in 1..n
      BY <1>3, <2>1
    <3> QED
      BY <1>2, <1>3, <2>1, <3>1 DEF InOrder
  <2>2. CASE y \notin 1..n
    <3>1. stmts'[y].at = next
      BY <1>3, <1>4, <2>2
    <3>2. x \notin 1..n => stmts'[x].at = next
      BY <1>3, <1>4
    <3>3. x \in 1..n => stmts'[x].at \in 1..(next - 1)
      BY <1>2, <1>3
    <3> QED
      BY <1>2, <3>1, <3>2, <3>3
  <2> QED
    BY <2>1, <2>2
<1>7. ASSUME NEW i \in DOMAIN block, Inlined(i)'
      PROVE  MayBeInlined(i)
  <2>1. CASE i = next
    <3>1. expr'[i] = e
      BY <1>1, <1>2, <2>1
    <3> QED
      BY <1>7, <2>1, <3>1 DEF Inlined
  <2>2. CASE i # next
    <3>1. expr'[i] = expr[i]
      BY <1>1, <1>2, <2>2
    <3> QED
      BY <1>2, <1>7, <3>1 DEF Inlined
  <2> QED
    BY <2>1, <2>2
<1>8. StatementShape'
  <2>1. ASSUME NEW x \in DOMAIN stmts'
        PROVE  Fits(stmts, x)'
    <3>1. Fits(stmts', x)
      BY <1>5
    <3>2. \A i : Uses(i)' = Uses(i)
      BY <1>1 DEF Uses
    <3> QED
      BY <1>1, <3>1, <3>2 DEF Fits, Statement
  <2>2. \A i \in DOMAIN block' : Inlined(i)' => MayBeInlined(i)'
    BY <1>1, <1>7 DEF MayBeInlined, Uses
  <2>3. InOrder(stmts)'
    BY <1>6 DEF InOrder
  <2> QED
    BY <2>1, <2>2, <2>3 DEF StatementShape
<1>9. BlockShape'
  BY <1>1, <1>2 DEF BlockShape
<1>10. VarsShape'
  BY <1>1 DEF VarsShape, ShapeInv, cVars
<1>11. Fresh'
  <2>1. Fresh
    BY <1>2 DEF ShapeInv, Translated
  <2> QED
    BY <1>1, <2>1 DEF Fresh, cVars
<1> QED
  BY <1>8, <1>9, <1>10, <1>11 DEF ShapeInv

\* So does a single statement that is not half of an insertvalue.
LEMMA ShapeOne ==
  ASSUME ShapeInv, Complete, next <= Len(block), IOInv', NEW kind \in {"assign", "call", "store", "ret"},
         NEW e, e # "inlined", Emit(<<Statement(kind, next)>>, e),
         block[next].op # "insertvalue",
         kind # "assign" => Uses(next) = {}
  PROVE  ShapeInv' /\ Fresh'
<1> DEFINE s == Statement(kind, next)
           ss == <<s>>
<1>1. s \in Statements /\ s.at = next /\ s.kind = kind
  BY StatementType DEF ShapeInv, IOInv, StatementKinds
<1>2. Emit(ss, e)
  OBVIOUS
<1> HIDE DEF s
<1>3. ss \in Seq(Statements) /\ DOMAIN ss = {1} /\ ss[1] = s /\ Len(ss) = 1
  BY <1>1
<1> HIDE DEF ss
<1>4. ASSUME NEW k \in DOMAIN ss
      PROVE  ss[k].at = next /\ Fits(ss, k)
  BY <1>1, <1>3 DEF Fits
<1> QED
  BY <1>2, <1>3, <1>4, ShapeEmit

\* What inlineOrCreateVariable inlines has nothing between it and its use that
\* changes memory.
LEMMA ShapeInlineOrCreateVariable ==
  ASSUME ShapeInv, Complete, next <= Len(block), IOInv', InlineOrCreateVariable,
         block[next].op \notin {"store", "ret", "insertvalue", "bitcast"}
  PROVE  ShapeInv' /\ Fresh'
<1>1. CASE CanInline(next)
  <2>1. Emit(<<>>, "inlined")
    BY <1>1 DEF InlineOrCreateVariable
  <2>2. <<>> \in Seq(Statements) /\ DOMAIN <<>> = {}
    OBVIOUS
  <2>3. MayBeInlined(next)
    <3> SUFFICES ASSUME NEW u \in Uses(next), NEW j \in (next + 1)..(u[1] - 1)
                 PROVE  block[j].op \in ReadOnly
      BY DEF MayBeInlined
    <3>1. HasNUses(next, 1) /\ \A x \in (next + 1)..(User(next) - 1) : block[x].op \in ReadOnly
      BY <1>1 DEF CanInline
    <3>2. IsFiniteSet(Uses(next))
      BY FiniteUses DEF ShapeInv
    <3>3. Cardinality(Uses(next)) = 1
      <4>1. Cardinality(Uses(next)) \in Nat /\ Cardinality(Uses(next)) # 0
        BY <3>2, FS_CardinalityType, FS_EmptySet
      <4> QED
        BY <3>1, <4>1 DEF HasNUses
    <3>4. PICK v : Uses(next) = {v}
      BY <3>2, <3>3, FS_Singleton
    <3>5. User(next) = u[1]
      <4>1. u[1] \in DOMAIN block /\ \E w \in Uses(next) : w[1] = u[1]
        BY DEF Uses
      <4>2. \E w \in Uses(next) : w[1] = User(next)
        BY <4>1 DEF User
      <4> QED
        BY <3>4, <4>2
    <3> QED
      BY <3>1, <3>5
  <2> QED
    BY <2>1, <2>2, <2>3, ShapeEmit
<1>2. CASE ~CanInline(next)
  BY <1>2, ShapeOne DEF InlineOrCreateVariable
<1> QED
  BY <1>1, <1>2

\* Every handler of an instruction keeps the shape.
LEMMA ShapeTranslate ==
  ASSUME ShapeInv, Translate
  PROVE  ShapeInv' /\ Fresh'
<1>1. Complete /\ next <= Len(block)
  BY DEF Translate, Parsing, ParseLLVMInstruction, ParseCallInstruction, ParseStoreInstruction,
         ParseInsertValueInstruction, ParseBitcastInstruction, ParseRETURN
<1>2. IOInv' /\ next \in DOMAIN block /\ next # 0
  BY <1>1, InvTranslate DEF ShapeInv, IOInv
<1>3. CASE ParseLLVMInstruction
  BY <1>1, <1>2, <1>3, ShapeInlineOrCreateVariable DEF ParseLLVMInstruction, Parsing
<1>4. CASE ParseCallInstruction
  <2>1. CASE HasNUses(next, 0)
    <3>1. Emit(<<Statement("call", next)>>, "none") /\ block[next].op # "insertvalue"
      BY <1>4, <2>1 DEF ParseCallInstruction, Parsing
    <3>2. Uses(next) = {}
      <4>1. IsFiniteSet(Uses(next))
        BY FiniteUses DEF ShapeInv
      <4>2. Cardinality(Uses(next)) = 0
        <5>1. Cardinality(Uses(next)) \in Nat
          BY <4>1, FS_CardinalityType
        <5> QED
          BY <2>1, <5>1 DEF HasNUses
      <4> QED
        BY <4>1, <4>2, FS_EmptySet
    <3> QED
      BY <1>1, <1>2, <3>1, <3>2, ShapeOne
  <2>2. CASE ~HasNUses(next, 0)
    BY <1>1, <1>2, <1>4, <2>2, ShapeInlineOrCreateVariable DEF ParseCallInstruction, Parsing
  <2> QED
    BY <2>1, <2>2
<1>5. CASE ParseStoreInstruction
  <2>1. Emit(<<Statement("store", next)>>, "none") /\ block[next].op = "store"
    BY <1>5 DEF ParseStoreInstruction, Parsing
  <2>2. Uses(next) = {}
    BY <1>2, <2>1, Unused DEF ShapeInv, ValueOps, Dup
  <2> QED
    BY <1>1, <1>2, <2>1, <2>2, ShapeOne
<1>6. CASE ParseInsertValueInstruction
  <2> DEFINE s == Statement("init", next)
             t == Statement("field", next)
             ss == <<s, t>>
  <2>1. /\ s \in Statements /\ s.at = next /\ s.kind = "init"
        /\ t \in Statements /\ t.at = next /\ t.kind = "field"
    BY StatementType DEF ShapeInv, IOInv, StatementKinds
  <2>2. Emit(ss, "variable") /\ block[next].op = "insertvalue"
    BY <1>6 DEF ParseInsertValueInstruction, Parsing
  <2>3. s = Statement("init", next) /\ t = Statement("field", next)
    OBVIOUS
  <2> HIDE DEF s, t
  <2>4. ss \in Seq(Statements) /\ DOMAIN ss = {1, 2} /\ ss[1] = s /\ ss[2] = t /\ Len(ss) = 2
    BY <2>1
  <2> HIDE DEF ss
  <2>5. ASSUME NEW k \in DOMAIN ss
        PROVE  ss[k].at = next /\ Fits(ss, k)
    BY <2>1, <2>2, <2>3, <2>4, <2>5 DEF Fits
  <2> QED
    BY <1>1, <1>2, <2>2, <2>4, <2>5, ShapeEmit
<1>7. CASE ParseBitcastInstruction
  <2>1. Emit(<<Statement("assign", next)>>, "variable") /\ block[next].op # "insertvalue"
    BY <1>7 DEF ParseBitcastInstruction, Parsing
  <2> QED
    BY <1>1, <1>2, <2>1, ShapeOne
<1>8. CASE ParseRETURN
  <2>1. Emit(<<Statement("ret", next)>>, "none") /\ block[next].op = "ret"
    BY <1>8 DEF ParseRETURN, Parsing
  <2>2. Uses(next) = {}
    BY <1>2, <2>1, Unused DEF ShapeInv, ValueOps, Dup
  <2> QED
    BY <1>1, <1>2, <2>1, <2>2, ShapeOne
<1> QED
  BY <1>3, <1>4, <1>5, <1>6, <1>7, <1>8 DEF Translate

-----------------------------------------------------------------------------
(* The occurrences of a statement. *)

Places(s) == {o \in Seq(Nat) \X DOMAIN block : o[1] = <<>> => o[2] = s.at}
OperandsOf(s, o) == SlotsOf(s, o[1], o[2])
Nested(s, o) == {k \in DOMAIN OperandsOf(s, o) : Inlined(OperandsOf(s, o)[k])}
Operand(s, o, k) == <<Append(o[1], k), OperandsOf(s, o)[k]>>
Below(s, T) == UNION {{Operand(s, o, k) : k \in Nested(s, o)} : o \in T}

IsLevels(D, s) ==
  D = [d \in 0..Len(block) |->
         IF d = 0 THEN {<< <<>>, s.at >>} ELSE D[d-1] \cup Below(s, D[d-1])]

\* An instruction has at most three operands; an insertvalue two, a select three.
LEMMA ArgsShape ==
  ASSUME ShapeInv, NEW i \in DOMAIN block
  PROVE  /\ block[i].args \in Seq(Nat) /\ Len(block[i].args) \in 0..3
         /\ DOMAIN block[i].args = 1..Len(block[i].args)
         /\ DOMAIN block[i].args \subseteq 1..3
         /\ block[i].op = "insertvalue" => Len(block[i].args) = 2 /\ DOMAIN block[i].args = 1..2
         /\ block[i].op = "select" => DOMAIN block[i].args = 1..3 /\ block[i].arm \in 1..3
<1>1. block[i] \in Instrs /\ Arities(block[i])
  BY DEF ShapeInv, IOInv, BlockShape
<1>2. block[i].args \in Seq(Nat) /\ block[i].arm \in {2, 3}
  BY <1>1 DEF Instrs
<1> DEFINE a == block[i].args
<1>3. a \in Seq(Nat) /\ Len(a) <= 3 /\ (block[i].op = "select" => Len(a) = 3)
      /\ (block[i].op = "insertvalue" => Len(a) = 2)
  BY <1>1, <1>2 DEF Arities
<1> HIDE DEF a
<1>4. Len(a) \in 0..3 /\ DOMAIN a = 1..Len(a)
  <2>1. Len(a) \in Nat /\ DOMAIN a = 1..Len(a)
    BY <1>3
  <2>2. Len(a) <= 3
    BY <1>3
  <2> QED
    BY <2>1, <2>2
<1>5. DOMAIN a \subseteq 1..3
  BY <1>4
<1>6. block[i].arm \in 1..3
  BY <1>2
<1> QED
  BY <1>3, <1>4, <1>5, <1>6 DEF a

\* Each slot of an occurrence is an operand of its instruction.
LEMMA SlotIsUse ==
  ASSUME ShapeInv, NEW x \in DOMAIN stmts, NEW o \in Places(stmts[x]),
         NEW k \in DOMAIN OperandsOf(stmts[x], o)
  PROVE  /\ k \in Nat
         /\ \E m \in 1..3 : m \in DOMAIN block[o[2]].args
                            /\ block[o[2]].args[m] = OperandsOf(stmts[x], o)[k]
<1> DEFINE i == o[2]
           a == block[i].args
           s == stmts[x]
<1>1. i \in DOMAIN block /\ o[1] \in Seq(Nat) /\ (o[1] = <<>> => i = s.at)
  BY DEF Places
<1>3. /\ a \in Seq(Nat) /\ Len(a) \in 0..3 /\ DOMAIN a = 1..Len(a)
      /\ block[i].op = "insertvalue" => DOMAIN a = 1..2
      /\ block[i].op = "select" => DOMAIN a = 1..3 /\ block[i].arm \in 1..3
  BY <1>1, ArgsShape
<1>4. DOMAIN a \subseteq 1..3
  BY <1>1, ArgsShape
<1>5. CASE o[1] = <<>> /\ s.kind \in {"init", "field"}
  <2>1. block[i].op = "insertvalue"
    BY <1>1, <1>5 DEF ShapeInv, StatementShape, Fits
  <2>2. 1 \in DOMAIN a /\ 2 \in DOMAIN a
    BY <1>3, <2>1
  <2>3. OperandsOf(s, o) = <<a[1]>> \/ OperandsOf(s, o) = <<a[2]>>
    BY <1>5 DEF OperandsOf, SlotsOf
  <2>4. k = 1 /\ (OperandsOf(s, o)[k] = a[1] \/ OperandsOf(s, o)[k] = a[2])
    BY <2>3
  <2> QED
    BY <2>2, <2>4
<1>6. CASE ~(o[1] = <<>> /\ s.kind \in {"init", "field"})
  <2>1. OperandsOf(s, o) = Slots(i)
    BY <1>6 DEF OperandsOf, SlotsOf
  <2>2. CASE block[i].op \in Dup
    <3>1. OperandsOf(s, o) = a \o a
      BY <2>1, <2>2 DEF Slots
    <3> HIDE DEF a
    <3>2. k \in 1..(Len(a) + Len(a)) /\ (a \o a)[k] = IF k <= Len(a) THEN a[k] ELSE a[k - Len(a)]
      BY <1>3, <3>1
    <3>3. k \in Nat /\ (k <= Len(a) => k \in DOMAIN a) /\ (k > Len(a) => k - Len(a) \in DOMAIN a)
      BY <1>3, <3>2
    <3>4. \E m \in DOMAIN a : a[m] = (a \o a)[k]
      BY <1>3, <3>2, <3>3
    <3> QED
      BY <1>4, <3>1, <3>3, <3>4 DEF a
  <2>3. CASE block[i].op = "select"
    <3>1. OperandsOf(s, o) = <<a[1], a[block[i].arm]>>
      BY <2>1, <2>3 DEF Slots, Dup
    <3>2. 1 \in DOMAIN a /\ block[i].arm \in DOMAIN a
      BY <1>3, <2>3
    <3>3. (k = 1 /\ OperandsOf(s, o)[k] = a[1]) \/ (k = 2 /\ OperandsOf(s, o)[k] = a[block[i].arm])
      BY <3>1
    <3> QED
      BY <1>4, <3>2, <3>3
  <2>4. CASE block[i].op \notin Dup \cup {"select"}
    <3>1. OperandsOf(s, o) = a
      BY <2>1, <2>4 DEF Slots
    <3>2. k \in DOMAIN a /\ a[k] = OperandsOf(s, o)[k]
      BY <3>1
    <3> HIDE DEF a
    <3>3. k \in Nat /\ k \in 1..3
      BY <1>3, <1>4, <3>2
    <3> QED
      BY <3>2, <3>3 DEF a
  <2> QED
    BY <2>2, <2>3, <2>4
<1> QED
  BY <1>5, <1>6

\* What is inlined is evaluated before what it is inlined in, which is its user.
LEMMA OperandFacts ==
  ASSUME ShapeInv, NEW x \in DOMAIN stmts, NEW o \in Places(stmts[x]),
         NEW k \in DOMAIN OperandsOf(stmts[x], o)
  PROVE  LET j == OperandsOf(stmts[x], o)[k] IN
           /\ j \in Nat /\ j < o[2]
           /\ j # 0 => /\ j \in DOMAIN block /\ block[j].op \in ValueOps
                       /\ \E u \in Uses(j) : u[1] = o[2]
<1> DEFINE i == o[2]
           j == OperandsOf(stmts[x], o)[k]
<1>1. i \in DOMAIN block
  BY DEF Places
<1>2. PICK m \in 1..3 : m \in DOMAIN block[i].args /\ block[i].args[m] = j
  BY SlotIsUse
<1>3. block[i] \in Instrs /\ DOMAIN block = 1..Len(block) /\ Len(block) \in Nat
  BY <1>1 DEF ShapeInv, IOInv
<1>4. j \in Nat /\ j < i
  <2>1. block[i].args \in Seq(Nat)
    BY <1>1, ArgsShape
  <2>2. block[i].args[m] \in Nat
    BY <1>2, <2>1
  <2>3. block[i].args[m] < i
    BY <1>1, <1>2 DEF ShapeInv, IOInv, OperandsBefore
  <2> QED
    BY <1>2, <2>2, <2>3
<1>5. j # 0 => j \in DOMAIN block /\ block[j].op \in ValueOps
  <2>1. j = 0 \/ block[j].op \in ValueOps
    BY <1>1, <1>2 DEF ShapeInv, BlockShape
  <2> QED
    BY <1>1, <1>3, <1>4, <2>1
<1>6. <<i, m>> \in Uses(j) /\ <<i, m>>[1] = i
  BY <1>1, <1>2 DEF Uses
<1> QED
  BY <1>4, <1>5, <1>6

\* The operands of an occurrence lie one step below it.
LEMMA OperandPlace ==
  ASSUME ShapeInv, NEW x \in DOMAIN stmts, NEW o \in Places(stmts[x]),
         NEW k \in Nested(stmts[x], o)
  PROVE  /\ Operand(stmts[x], o, k) \in Places(stmts[x])
         /\ Operand(stmts[x], o, k)[1] = Append(o[1], k)
         /\ Operand(stmts[x], o, k)[1] # <<>>
         /\ Operand(stmts[x], o, k)[2] = OperandsOf(stmts[x], o)[k]
         /\ k \in Nat /\ k \in DOMAIN OperandsOf(stmts[x], o)
         /\ Inlined(OperandsOf(stmts[x], o)[k])
<1>1. k \in DOMAIN OperandsOf(stmts[x], o) /\ Inlined(OperandsOf(stmts[x], o)[k])
  BY DEF Nested
<1>2. k \in Nat
  BY <1>1, SlotIsUse
<1>3. OperandsOf(stmts[x], o)[k] \in DOMAIN block
  BY <1>1, OperandFacts DEF Inlined
<1>4. o[1] \in Seq(Nat)
  BY DEF Places
<1>5. Append(o[1], k) \in Seq(Nat) /\ Append(o[1], k) # <<>>
  BY <1>2, <1>4
<1> QED
  BY <1>1, <1>2, <1>3, <1>5 DEF Operand, Places

\* The instruction of a statement is the root of its occurrences.
LEMMA RootPlace ==
  ASSUME ShapeInv, NEW x \in DOMAIN stmts
  PROVE  << <<>>, stmts[x].at >> \in Places(stmts[x]) /\ stmts[x].at \in DOMAIN block
<1>1. stmts[x].at \in 1..(next - 1) /\ next \in 1..(Len(block) + 1) /\ Len(block) \in Nat
      /\ DOMAIN block = 1..Len(block)
  BY DEF ShapeInv, IOInv
<1>2. stmts[x].at \in DOMAIN block
  BY <1>1
<1>3. <<>> \in Seq(Nat)
  OBVIOUS
<1> QED
  BY <1>2, <1>3 DEF Places

\* The recursive function in Occurrences exists.
LEMMA LevelsDefined ==
  ASSUME ShapeInv, NEW x \in DOMAIN stmts
  PROVE  \E D : IsLevels(D, stmts[x]) /\ Occurrences(stmts[x]) = D[Len(block)]
<1> DEFINE s == stmts[x]
           S == SUBSET Places(s)
           step == [T \in S |-> T \cup Below(s, T)]
           root == {<< <<>>, s.at >>}
<1>1. \A T \in S : step[T] \in S /\ step[T] = T \cup Below(s, T)
  <2> SUFFICES ASSUME NEW T \in S PROVE Below(s, T) \subseteq Places(s)
    OBVIOUS
  <2>1. ASSUME NEW o \in T, NEW k \in Nested(s, o) PROVE Operand(s, o, k) \in Places(s)
    BY OperandPlace
  <2> QED
    BY <2>1 DEF Below
<1>2. Len(block) \in Nat /\ root \in S
  BY RootPlace DEF ShapeInv, IOInv
<1> HIDE DEF step
<1>3. PICK R : Iterates(R, Len(block), root, step)
  <2> HIDE DEF root
  <2> QED
    BY <1>2, IteratesDefined
<1>4. \A n \in 0..Len(block) : R[n] \in S
  <2> HIDE DEF S, root
  <2> QED
    BY <1>1, <1>2, <1>3, IteratesTypical
<1>5. IsLevels(R, s)
  <2>1. \A n \in 0..Len(block) : n # 0 => step[R[n-1]] = R[n-1] \cup Below(s, R[n-1])
    BY <1>1, <1>2, <1>4
  <2>2. R = [n \in 0..Len(block) |-> IF n = 0 THEN root ELSE step[R[n-1]]]
    BY <1>3 DEF Iterates
  <2>3. [n \in 0..Len(block) |-> IF n = 0 THEN root ELSE step[R[n-1]]]
          = [n \in 0..Len(block) |-> IF n = 0 THEN root ELSE R[n-1] \cup Below(s, R[n-1])]
    BY <2>1
  <2> QED
    BY <2>2, <2>3 DEF IsLevels
<1> DEFINE D == CHOOSE D : IsLevels(D, s)
<1>6. IsLevels(D, s)
  BY <1>5
<1>7. Occurrences(s) = D[Len(block)]
  BY DEF Occurrences, IsLevels, Below, Operand, Nested, OperandsOf
<1> HIDE DEF D
<1> QED
  BY <1>6, <1>7

\* The first level is the root, and each one adds the operands of the one before.
LEMMA LevelFacts ==
  ASSUME ShapeInv, NEW x \in DOMAIN stmts, NEW D, IsLevels(D, stmts[x])
  PROVE  /\ D[0] = {<< <<>>, stmts[x].at >>}
         /\ \A d \in Nat : d + 1 <= Len(block) => D[d+1] = D[d] \cup Below(stmts[x], D[d])
<1>1. Len(block) \in Nat
  BY DEF ShapeInv, IOInv
<1>2. D[0] = {<< <<>>, stmts[x].at >>}
  BY <1>1 DEF IsLevels
<1>3. ASSUME NEW d \in Nat, d + 1 <= Len(block)
      PROVE  D[d+1] = D[d] \cup Below(stmts[x], D[d])
  <2>1. d + 1 \in 0..Len(block) /\ d + 1 # 0 /\ (d + 1) - 1 = d
    BY <1>1, <1>3
  <2> QED
    BY <2>1 DEF IsLevels
<1> QED
  BY <1>2, <1>3

\* What holds of the root and of the operands of what it holds of holds of all
\* occurrences.
LEMMA OccurrenceInduction ==
  ASSUME ShapeInv, NEW x \in DOMAIN stmts, NEW T,
         << <<>>, stmts[x].at >> \in T,
         \A o \in T : o \in Occurrences(stmts[x]) =>
           \A k \in Nested(stmts[x], o) : Operand(stmts[x], o, k) \in T
  PROVE  Occurrences(stmts[x]) \subseteq T
<1> DEFINE s == stmts[x]
<1>1. PICK D : IsLevels(D, s) /\ Occurrences(s) = D[Len(block)]
  BY LevelsDefined
<1>2. Len(block) \in Nat
  BY DEF ShapeInv, IOInv
<1>3. /\ D[0] = {<< <<>>, s.at >>}
      /\ \A d \in Nat : d + 1 <= Len(block) => D[d+1] = D[d] \cup Below(s, D[d])
  BY <1>1, LevelFacts
<1> DEFINE U == {d \in Nat : d <= Len(block) => D[Len(block) - d] \subseteq Occurrences(s)}
<1>4. 0 \in U
  BY <1>1, <1>2
<1>5. ASSUME NEW d \in U PROVE d + 1 \in U
  <2> SUFFICES ASSUME d + 1 <= Len(block) PROVE D[Len(block) - (d + 1)] \subseteq Occurrences(s)
    OBVIOUS
  <2> DEFINE e == Len(block) - (d + 1)
  <2>1. e \in Nat /\ e + 1 = Len(block) - d /\ e + 1 <= Len(block) /\ d <= Len(block)
    BY <1>2
  <2>2. D[e+1] \subseteq Occurrences(s)
    BY <2>1
  <2> HIDE DEF e
  <2>3. D[e] \subseteq D[e+1]
    BY <1>3, <2>1
  <2> QED
    BY <2>2, <2>3 DEF e
<1>6. Nat \subseteq U
  <2> HIDE DEF U
  <2> QED
    BY <1>4, <1>5, SetInduction
<1>7. \A d \in 0..Len(block) : D[d] \subseteq Occurrences(s)
  <2> SUFFICES ASSUME NEW d \in 0..Len(block) PROVE D[d] \subseteq Occurrences(s)
    OBVIOUS
  <2>1. Len(block) - d \in U /\ Len(block) - d <= Len(block) /\ Len(block) - (Len(block) - d) = d
    BY <1>2, <1>6
  <2> QED
    BY <2>1
<1> DEFINE V == {d \in Nat : d <= Len(block) => D[d] \subseteq T}
<1>8. 0 \in V
  BY <1>3
<1>9. ASSUME NEW d \in V PROVE d + 1 \in V
  <2> SUFFICES ASSUME d + 1 <= Len(block) PROVE D[d+1] \subseteq T
    OBVIOUS
  <2>1. d \in 0..Len(block) /\ D[d] \subseteq T /\ D[d] \subseteq Occurrences(s)
    BY <1>2, <1>7
  <2>2. D[d+1] = D[d] \cup Below(s, D[d])
    BY <1>3
  <2>3. Below(s, D[d]) \subseteq T
    BY <2>1 DEF Below
  <2> QED
    BY <2>1, <2>2, <2>3
<1>10. Nat \subseteq V
  <2> HIDE DEF V
  <2> QED
    BY <1>8, <1>9, SetInduction
<1> QED
  BY <1>1, <1>2, <1>10

\* Occurrences are paths to instructions of the block.
LEMMA OccurrencesTyped ==
  ASSUME ShapeInv, NEW x \in DOMAIN stmts
  PROVE  Occurrences(stmts[x]) \subseteq Places(stmts[x])
BY RootPlace, OperandPlace, OccurrenceInduction

\* A statement's own instruction occurs in it.
LEMMA RootOccurs ==
  ASSUME ShapeInv, NEW x \in DOMAIN stmts
  PROVE  << <<>>, stmts[x].at >> \in Occurrences(stmts[x])
<1> DEFINE s == stmts[x]
<1>1. PICK D : IsLevels(D, s) /\ Occurrences(s) = D[Len(block)]
  BY LevelsDefined
<1>2. Len(block) \in Nat
  BY DEF ShapeInv, IOInv
<1>3. /\ D[0] = {<< <<>>, s.at >>}
      /\ \A d \in Nat : d + 1 <= Len(block) => D[d+1] = D[d] \cup Below(s, D[d])
  BY <1>1, LevelFacts
<1> DEFINE U == {d \in Nat : d <= Len(block) => << <<>>, s.at >> \in D[d]}
<1>4. 0 \in U
  BY <1>3
<1>5. ASSUME NEW d \in U PROVE d + 1 \in U
  BY <1>2, <1>3
<1>6. Nat \subseteq U
  <2> HIDE DEF U
  <2> QED
    BY <1>4, <1>5, SetInduction
<1> QED
  BY <1>1, <1>2, <1>6

\* The levels are deep enough: the inlined operands of an occurrence are
\* occurrences.
LEMMA OperandOccurs ==
  ASSUME ShapeInv, NEW x \in DOMAIN stmts, NEW o \in Occurrences(stmts[x]),
         NEW k \in Nested(stmts[x], o)
  PROVE  Operand(stmts[x], o, k) \in Occurrences(stmts[x])
<1> DEFINE s == stmts[x]
<1>1. PICK D : IsLevels(D, s) /\ Occurrences(s) = D[Len(block)]
  BY LevelsDefined
<1>2. Len(block) \in Nat /\ DOMAIN block = 1..Len(block) /\ s.at \in DOMAIN block
  BY RootPlace DEF ShapeInv, IOInv
<1>3. /\ D[0] = {<< <<>>, s.at >>}
      /\ \A d \in Nat : d + 1 <= Len(block) => D[d+1] = D[d] \cup Below(s, D[d])
  BY <1>1, LevelFacts
<1> HIDE DEF s
<1> DEFINE Deep(d) == \A p \in D[d] : p[2] + d <= s.at \/ (d > 0 /\ p \in D[d-1])
           U == {d \in Nat : d <= Len(block) => D[d] \subseteq Places(s) /\ Deep(d)}
<1>4. 0 \in U
  <2>1. D[0] \subseteq Places(s)
    BY <1>3, RootPlace DEF s
  <2> QED
    BY <1>2, <1>3, <2>1
<1>5. ASSUME NEW d \in U PROVE d + 1 \in U
  <2> SUFFICES ASSUME d + 1 <= Len(block) PROVE D[d+1] \subseteq Places(s) /\ Deep(d + 1)
    OBVIOUS
  <2>1. d \in Nat /\ d <= Len(block) /\ (d + 1) - 1 = d /\ D[d] \subseteq Places(s) /\ Deep(d)
    BY <1>2
  <2>2. D[d+1] = D[d] \cup Below(s, D[d])
    BY <1>3
  <2>3. ASSUME NEW p \in D[d], NEW m \in Nested(s, p)
        PROVE  /\ Operand(s, p, m) \in Places(s)
               /\ Operand(s, p, m)[2] + (d + 1) <= s.at \/ Operand(s, p, m) \in D[d]
    <3> DEFINE c == Operand(s, p, m)
    <3>1. /\ c \in Places(s) /\ c[2] = OperandsOf(s, p)[m] /\ m \in DOMAIN OperandsOf(s, p)
      BY <2>1, OperandPlace DEF s
    <3>2. OperandsOf(s, p)[m] \in Nat /\ OperandsOf(s, p)[m] < p[2]
      BY <2>1, <3>1, OperandFacts DEF s
    <3>3. p[2] \in Nat /\ s.at \in Nat
      BY <1>2, <2>1 DEF Places
    <3>4. CASE p[2] + d <= s.at
      BY <2>1, <3>1, <3>2, <3>3, <3>4
    <3>5. CASE d > 0 /\ p \in D[d-1]
      <4>1. d - 1 \in Nat /\ (d - 1) + 1 = d
        BY <2>1, <3>5
      <4>2. D[d] = D[d-1] \cup Below(s, D[d-1])
        BY <1>3, <2>1, <4>1
      <4>3. c \in Below(s, D[d-1])
        BY <3>5 DEF Below
      <4> QED
        BY <3>1, <4>2, <4>3
    <3> QED
      BY <2>1, <3>4, <3>5
  <2>4. ASSUME NEW p \in D[d+1]
        PROVE  p \in Places(s) /\ (p[2] + (d + 1) <= s.at \/ p \in D[d])
    <3>1. CASE p \in D[d]
      BY <2>1, <3>1
    <3>2. CASE p \in Below(s, D[d])
      <4>1. PICK q \in D[d] : \E m \in Nested(s, q) : p = Operand(s, q, m)
        BY <3>2 DEF Below
      <4> QED
        BY <2>3, <4>1
    <3> QED
      BY <2>2, <3>1, <3>2
  <2> QED
    BY <2>1, <2>4
<1>6. Nat \subseteq U
  <2> HIDE DEF U
  <2> QED
    BY <1>4, <1>5, SetInduction
<1>7. Deep(Len(block)) /\ Len(block) > 0
  BY <1>2, <1>6
<1>8. o \in D[Len(block) - 1]
  <2>1. o \in D[Len(block)] /\ o[2] \in 1..Len(block)
    BY <1>1, <1>2, OccurrencesTyped DEF Places, s
  <2>2. o[2] + Len(block) <= s.at \/ o \in D[Len(block) - 1]
    BY <1>7, <2>1
  <2> QED
    BY <1>2, <2>1, <2>2
<1>9. Operand(s, o, k) \in Below(s, D[Len(block) - 1])
  BY <1>8 DEF Below, s
<1>10. Len(block) - 1 \in Nat /\ (Len(block) - 1) + 1 = Len(block)
  BY <1>2, <1>7
<1>11. D[Len(block)] = D[Len(block) - 1] \cup Below(s, D[Len(block) - 1])
  BY <1>3, <1>10
<1> QED
  BY <1>1, <1>9, <1>11 DEF s

\* An occurrence other than the root is an operand of one.
LEMMA OccurrenceParent ==
  ASSUME ShapeInv, NEW x \in DOMAIN stmts, NEW o \in Occurrences(stmts[x])
  PROVE  \/ o = << <<>>, stmts[x].at >>
         \/ \E p \in Occurrences(stmts[x]) :
              \E k \in Nested(stmts[x], p) : o = Operand(stmts[x], p, k)
<1> DEFINE T == {q \in Occurrences(stmts[x]) :
                   \/ q = << <<>>, stmts[x].at >>
                   \/ \E p \in Occurrences(stmts[x]) :
                        \E k \in Nested(stmts[x], p) : q = Operand(stmts[x], p, k)}
<1>1. << <<>>, stmts[x].at >> \in T
  BY RootOccurs
<1>2. \A q \in T : \A k \in Nested(stmts[x], q) : Operand(stmts[x], q, k) \in T
  BY OperandOccurs
<1>3. Occurrences(stmts[x]) \subseteq T
  <2> HIDE DEF T
  <2> QED
    BY <1>1, <1>2, OccurrenceInduction
<1> QED
  BY <1>3

-----------------------------------------------------------------------------
(* Where an instruction occurs. *)

\* An instruction with a statement is not inlined.
LEMMA StatementNotInlined ==
  ASSUME ShapeInv, Translated, NEW x \in DOMAIN stmts
  PROVE  ~Inlined(stmts[x].at)
<1>1. \A y \in DOMAIN stmts : stmts[y].kind # "field" => ~Inlined(stmts[y].at)
  <2> SUFFICES ASSUME NEW y \in DOMAIN stmts, stmts[y].kind # "field", Inlined(stmts[y].at)
               PROVE  FALSE
    OBVIOUS
  <2>1. stmts[y].at \in DOMAIN block /\ stmts[y].at < next
    <3>1. stmts[y].at \in DOMAIN block
      BY RootPlace
    <3>2. stmts[y].at \in 1..(next - 1) /\ next \in Nat
      BY DEF ShapeInv, IOInv
    <3> QED
      BY <3>1, <3>2
  <2>2. Placed(stmts[y].at)
    BY <2>1 DEF ShapeInv, IOInv
  <2>3. y \in Printed(stmts[y].at)
    BY DEF Printed
  <2> QED
    BY <2>2, <2>3 DEF Placed
<1>2. CASE stmts[x].kind = "field"
  <2>1. x > 1 /\ stmts[x-1] = Statement("init", stmts[x].at)
    BY <1>2 DEF ShapeInv, StatementShape, Fits
  <2>2. x - 1 \in DOMAIN stmts
    BY <2>1 DEF ShapeInv, IOInv
  <2> QED
    BY <1>1, <2>1, <2>2 DEF Statement
<1> QED
  BY <1>1, <1>2

\* Below the root there are only inlined instructions, all before the root.
LEMMA OccurrenceFacts ==
  ASSUME ShapeInv, NEW x \in DOMAIN stmts, NEW o \in Occurrences(stmts[x])
  PROVE  /\ o \in Places(stmts[x]) /\ o = <<o[1], o[2]>>
         /\ o[1] \in Seq(Nat) /\ o[2] \in DOMAIN block /\ o[2] <= stmts[x].at
         /\ o[1] = <<>> => o[2] = stmts[x].at
         /\ o[1] # <<>> => Inlined(o[2])
<1> DEFINE T == {q \in Places(stmts[x]) : q[2] <= stmts[x].at /\ (q[1] # <<>> => Inlined(q[2]))}
<1>1. << <<>>, stmts[x].at >> \in T
  <2>1. stmts[x].at \in Nat
    BY RootPlace DEF ShapeInv, IOInv
  <2> QED
    BY <2>1, RootPlace
<1>2. ASSUME NEW q \in T, NEW k \in Nested(stmts[x], q) PROVE Operand(stmts[x], q, k) \in T
  <2>1. /\ Operand(stmts[x], q, k) \in Places(stmts[x])
        /\ Operand(stmts[x], q, k)[2] = OperandsOf(stmts[x], q)[k]
        /\ k \in DOMAIN OperandsOf(stmts[x], q)
        /\ Inlined(OperandsOf(stmts[x], q)[k])
    BY OperandPlace
  <2>2. OperandsOf(stmts[x], q)[k] \in Nat /\ OperandsOf(stmts[x], q)[k] < q[2]
    BY <2>1, OperandFacts
  <2>3. q[2] \in Nat /\ stmts[x].at \in Nat
    BY RootPlace DEF ShapeInv, IOInv, Places
  <2> QED
    BY <2>1, <2>2, <2>3
<1>3. o \in T
  <2> HIDE DEF T
  <2> QED
    BY <1>1, <1>2, OccurrenceInduction
<1> QED
  BY <1>3 DEF Places

\* Two paths of a last step each are the same only with the same steps.
LEMMA AppendInjective ==
  ASSUME NEW S, NEW s \in Seq(S), NEW t \in Seq(S), NEW a \in S, NEW b \in S,
         Append(s, a) = Append(t, b)
  PROVE  s = t /\ a = b
OBVIOUS

\* A path leads to one instruction.
LEMMA PathsDistinct ==
  ASSUME ShapeInv, NEW x \in DOMAIN stmts, NEW o \in Occurrences(stmts[x]),
         NEW r \in Occurrences(stmts[x]), o[1] = r[1]
  PROVE  o = r
<1> DEFINE s == stmts[x]
           T == {q \in Occurrences(s) : \A w \in Occurrences(s) : q[1] = w[1] => q = w}
<1>1. << <<>>, s.at >> \in T
  BY RootOccurs, OccurrenceFacts
<1>2. ASSUME NEW q \in T, NEW k \in Nested(s, q) PROVE Operand(s, q, k) \in T
  <2>1. Operand(s, q, k) \in Occurrences(s)
    BY OperandOccurs
  <2> SUFFICES ASSUME NEW w \in Occurrences(s), Operand(s, q, k)[1] = w[1]
               PROVE  Operand(s, q, k) = w
    BY <2>1
  <2>2. q \in Places(s) /\ q[1] \in Seq(Nat)
    BY OccurrenceFacts
  <2>3. w[1] = Append(q[1], k) /\ w[1] # <<>> /\ k \in Nat
    BY <2>2, OperandPlace
  <2>4. PICK p \in Occurrences(s) : \E m \in Nested(s, p) : w = Operand(s, p, m)
    BY <2>3, OccurrenceParent
  <2>5. PICK m \in Nested(s, p) : w = Operand(s, p, m)
    BY <2>4
  <2>6. p \in Places(s) /\ p[1] \in Seq(Nat)
    BY OccurrenceFacts
  <2>7. w[1] = Append(p[1], m) /\ m \in Nat
    BY <2>5, <2>6, OperandPlace
  <2>8. q[1] = p[1] /\ k = m
    <3>1. PICK S : S = Nat
      OBVIOUS
    <3>2. q[1] \in Seq(S) /\ p[1] \in Seq(S) /\ k \in S /\ m \in S
          /\ Append(q[1], k) = Append(p[1], m)
      BY <2>2, <2>3, <2>6, <2>7, <3>1
    <3> QED
      BY <3>2, AppendInjective
  <2>9. q = p
    BY <2>8
  <2> QED
    BY <2>5, <2>8, <2>9
<1>3. Occurrences(s) \subseteq T
  <2> HIDE DEF T
  <2> QED
    BY <1>1, <1>2, OccurrenceInduction
<1> QED
  BY <1>3

\* What is evaluated closes under operands: once the operands of an instruction
\* that cannot be passed are in, so is everything in front of it.
Closed(Q, x) ==
  \A o \in Occurrences(stmts[x]) :
    o[1] \in Q => \A k \in Nested(stmts[x], o) : Append(o[1], k) \in Q

\* If everything below an instruction that changes memory has been evaluated,
\* every occurrence of an instruction in front of it has.
LEMMA Barrier ==
  ASSUME ShapeInv, NEW x \in DOMAIN stmts, NEW Q, Closed(Q, x),
         NEW b \in DOMAIN block, b <= stmts[x].at, block[b].op \notin ReadOnly,
         \A o \in Occurrences(stmts[x]) :
           o[2] = b => \A k \in Nested(stmts[x], o) : Append(o[1], k) \in Q
  PROVE  \A o \in Occurrences(stmts[x]) : o[2] < b => o[1] \in Q
<1> DEFINE s == stmts[x]
           T == {o \in Occurrences(s) : o[2] < b => o[1] \in Q}
<1>1. b \in Nat /\ s.at \in Nat
  BY RootPlace DEF ShapeInv, IOInv
<1>2. << <<>>, s.at >> \in T
  <2>1. ~(s.at < b)
    BY <1>1
  <2> QED
    BY <2>1, RootOccurs
<1>3. ASSUME NEW o \in T, NEW k \in Nested(s, o) PROVE Operand(s, o, k) \in T
  <2>1. Operand(s, o, k) \in Occurrences(s)
    BY OperandOccurs
  <2>2. o \in Places(s) /\ o[2] \in Nat
    BY OccurrenceFacts DEF ShapeInv, IOInv
  <2> DEFINE j == OperandsOf(s, o)[k]
  <2>3. /\ Operand(s, o, k)[1] = Append(o[1], k) /\ Operand(s, o, k)[2] = j
        /\ k \in DOMAIN OperandsOf(s, o) /\ Inlined(j)
    BY <2>2, OperandPlace
  <2>4. j \in Nat /\ j < o[2] /\ j # 0 /\ j \in DOMAIN block /\ \E u \in Uses(j) : u[1] = o[2]
    BY <2>2, <2>3, OperandFacts DEF Inlined
  <2> SUFFICES ASSUME j < b PROVE Append(o[1], k) \in Q
    BY <2>1, <2>3
  <2>5. CASE o[2] < b
    BY <2>5 DEF Closed
  <2>6. CASE o[2] = b
    BY <2>6
  <2>7. CASE o[2] > b
    <3>1. b \in (j + 1)..(o[2] - 1)
      BY <1>1, <2>2, <2>4, <2>7
    <3>2. MayBeInlined(j)
      BY <2>3, <2>4 DEF ShapeInv, StatementShape
    <3> QED
      BY <2>4, <3>1, <3>2 DEF MayBeInlined
  <2> QED
    BY <1>1, <2>2, <2>5, <2>6, <2>7
<1>4. Occurrences(s) \subseteq T
  <2> HIDE DEF T
  <2> QED
    BY <1>2, <1>3, OccurrenceInduction
<1> QED
  BY <1>4

-----------------------------------------------------------------------------
(* Chains. *)

LEMMA ChainWithin ==
  ASSUME IOInv, NEW i \in DOMAIN block, NEW X, i \in X,
         \A j \in X : Inlined(j) => \A u \in Uses(j) : u[1] \in X
  PROVE  Chain(i) \subseteq X /\ i \in Chain(i)
<1>1. PICK C : IsChain(C, i) /\ Chain(i) = C[Len(block)]
  BY ChainDefined
<1>2. Len(block) \in Nat
  BY DEF IOInv
<1> DEFINE T == {n \in Nat : n <= Len(block) => C[n] \subseteq X /\ i \in C[n]}
<1>3. 0 \in T
  BY <1>1, <1>2 DEF IsChain
<1>4. ASSUME NEW n \in T PROVE n + 1 \in T
  <2> SUFFICES ASSUME n + 1 <= Len(block) PROVE C[n+1] \subseteq X /\ i \in C[n+1]
    OBVIOUS
  <2>1. n \in Nat /\ n <= Len(block) /\ n + 1 \in 0..Len(block) /\ n + 1 # 0 /\ (n + 1) - 1 = n
    BY <1>2
  <2>2. C[n+1] = C[n] \cup {u[1] : u \in UNION {Uses(j) : j \in {k \in C[n] : Inlined(k)}}}
    BY <1>1, <2>1 DEF IsChain
  <2> QED
    BY <2>1, <2>2
<1> HIDE DEF T
<1>5. Nat \subseteq T
  BY <1>3, <1>4, SetInduction
<1> QED
  BY <1>1, <1>2, <1>5 DEF T

\* A chain starts at its instruction and follows the uses of inlined ones.
LEMMA ChainFacts ==
  ASSUME IOInv, NEW i \in DOMAIN block
  PROVE  /\ i \in Chain(i) /\ Chain(i) \subseteq DOMAIN block
         /\ \A j \in Chain(i) : Inlined(j) => \A u \in Uses(j) : u[1] \in Chain(i)
<1>1. PICK t : Tops(Chain(i), t) /\ ~Inlined(t)
  BY ChainHasTop
<1>2. \A j \in DOMAIN block : Inlined(j) => \A u \in Uses(j) : u[1] \in DOMAIN block
  BY UsesAbove
<1>3. i \in Chain(i) /\ Chain(i) \subseteq DOMAIN block
  BY <1>2, ChainWithin
<1> QED
  BY <1>1, <1>3 DEF Tops

\* From the user of a value to the value, along the chain.
LEMMA ChainDown ==
  ASSUME IOInv, NEW e \in DOMAIN block, NEW G,
         \A j \in Chain(e) :
           (Inlined(j) => \A u \in Uses(j) : u[1] \in Chain(e) /\ u[1] \in G) => j \in G
  PROVE  Chain(e) \subseteq G
<1> DEFINE N == Len(block)
           T == {n \in Nat : \A j \in Chain(e) : j > N - n => j \in G}
<1>1. N \in Nat /\ DOMAIN block = 1..N
  BY DEF IOInv
<1>2. /\ Chain(e) \subseteq DOMAIN block
      /\ \A j \in Chain(e) : Inlined(j) => \A u \in Uses(j) : u[1] \in Chain(e)
  BY ChainFacts
<1> HIDE DEF N
<1>3. 0 \in T
  BY <1>1, <1>2
<1>4. ASSUME NEW n \in T PROVE n + 1 \in T
  <2> SUFFICES ASSUME NEW j \in Chain(e), j > N - (n + 1) PROVE j \in G
    OBVIOUS
  <2>1. ASSUME Inlined(j), NEW u \in Uses(j) PROVE u[1] \in Chain(e) /\ u[1] \in G
    <3>1. u[1] \in Chain(e) /\ u[1] \in DOMAIN block /\ j < u[1]
      BY <1>2, <2>1, UsesAbove
    <3>2. j \in Nat /\ u[1] \in Nat /\ n \in Nat
      BY <1>1, <1>2, <3>1
    <3>3. u[1] > N - n
      BY <1>1, <3>1, <3>2
    <3> QED
      BY <3>1, <3>3
  <2> QED
    BY <2>1
<1> HIDE DEF T
<1>5. Nat \subseteq T
  BY <1>3, <1>4, SetInduction
<1>6. ASSUME NEW j \in Chain(e) PROVE j \in G
  <2>1. N \in T /\ j > N - N
    BY <1>1, <1>2, <1>5
  <2> QED
    BY <2>1 DEF T
<1> QED
  BY <1>6

\* A value is printed in the statement of the end of its chain.
LEMMA ChainEnd ==
  ASSUME ShapeInv, Translated, NEW x \in DOMAIN stmts, NEW o \in Occurrences(stmts[x]),
         NEW t \in Chain(o[2]), ~Inlined(t)
  PROVE  t = stmts[x].at
<1> DEFINE s == stmts[x]
           X == {s.at} \cup {j \in DOMAIN block : Inlined(j) /\ \E q \in Occurrences(s) : q[2] = j}
<1>1. o[2] \in X /\ o[2] \in DOMAIN block
  BY OccurrenceFacts
<1>2. ASSUME NEW j \in X, Inlined(j), NEW u \in Uses(j) PROVE u[1] \in X
  <2>1. j # s.at
    BY <1>2, StatementNotInlined
  <2>2. PICK q \in Occurrences(s) : q[2] = j
    BY <2>1
  <2>3. PICK p \in Occurrences(s) : \E k \in Nested(s, p) : q = Operand(s, p, k)
    BY <2>1, <2>2, OccurrenceParent
  <2>4. PICK k \in Nested(s, p) : q = Operand(s, p, k)
    BY <2>3
  <2>5. p \in Places(s) /\ j \in DOMAIN block
    BY <2>1, OccurrenceFacts
  <2>6. OperandsOf(s, p)[k] = j /\ k \in DOMAIN OperandsOf(s, p)
    BY <2>2, <2>4, <2>5, OperandPlace
  <2>7. \E v \in Uses(j) : v[1] = p[2]
    <3>1. j # 0
      BY <1>2 DEF Inlined
    <3> QED
      BY <2>5, <2>6, <3>1, OperandFacts
  <2>8. u[1] = p[2]
    BY <1>2, <2>5, <2>7, OneUse DEF ShapeInv
  <2>9. p[2] \in DOMAIN block /\ (p[1] = <<>> => p[2] = s.at) /\ (p[1] # <<>> => Inlined(p[2]))
    BY OccurrenceFacts
  <2> QED
    BY <2>8, <2>9
<1> HIDE DEF X
<1>3. t \in X
  BY <1>1, <1>2, ChainWithin DEF ShapeInv
<1> QED
  BY <1>3 DEF X

-----------------------------------------------------------------------------
(* A call that stays in place occurs once. *)

Once == {"call", "store", "ret"}

InPlace(e) == block[e].op \in Once /\ (Inlined(e) => \A j \in Chain(e) : block[j].op \notin Dup \cup {"select"})

\* Where CallsInPlace holds, each call is in a place that is printed once.
LEMMA OnceInPlace ==
  ASSUME ShapeInv, CallsInPlace, NEW e \in DOMAIN block, block[e].op \in Once
  PROVE  InPlace(e)
<1> SUFFICES ASSUME Inlined(e), NEW j \in Chain(e) PROVE block[j].op \notin Dup \cup {"select"}
  BY DEF InPlace
<1>1. block[e].op = "call"
  BY DEF ShapeInv, StatementShape, MayBeInlined, Once
<1>2. j # e => block[j].op \notin Dup \cup {"select"}
  BY <1>1 DEF CallsInPlace
<1> QED
  BY <1>1, <1>2 DEF Dup

\* Which operand of the LLVM instruction a slot is.
Position(s, o, k) ==
  IF o[1] = <<>> /\ s.kind = "init" THEN 1
  ELSE IF o[1] = <<>> /\ s.kind = "field" THEN 2 ELSE k

\* A value printed in one place of an instruction is the operand at that position.
LEMMA SlotPosition ==
  ASSUME ShapeInv, NEW x \in DOMAIN stmts, NEW o \in Places(stmts[x]),
         NEW k \in DOMAIN OperandsOf(stmts[x], o), block[o[2]].op \notin Dup \cup {"select"}
  PROVE  /\ <<o[2], Position(stmts[x], o, k)>> \in Uses(OperandsOf(stmts[x], o)[k])
         /\ o[1] = <<>> /\ stmts[x].kind \in {"init", "field"} => k = 1
<1> DEFINE i == o[2]
           s == stmts[x]
<1>1. i \in DOMAIN block /\ (o[1] = <<>> => i = s.at)
  BY DEF Places
<1>2. /\ DOMAIN block[i].args \subseteq 1..3
      /\ block[i].op = "insertvalue" => DOMAIN block[i].args = 1..2
  BY <1>1, ArgsShape
<1>3. CASE o[1] = <<>> /\ s.kind \in {"init", "field"}
  <2>1. DOMAIN block[i].args = 1..2
    BY <1>1, <1>2, <1>3 DEF ShapeInv, StatementShape, Fits
  <2>2. CASE s.kind = "init"
    <3>1. OperandsOf(s, o) = <<block[i].args[1]>> /\ Position(s, o, k) = 1
      BY <1>3, <2>2 DEF OperandsOf, SlotsOf, Position
    <3>2. k = 1 /\ OperandsOf(s, o)[k] = block[i].args[1]
      BY <3>1
    <3> QED
      BY <1>1, <2>1, <3>1, <3>2 DEF Uses
  <2>3. CASE s.kind = "field"
    <3>1. OperandsOf(s, o) = <<block[i].args[2]>> /\ Position(s, o, k) = 2
      BY <1>3, <2>3 DEF OperandsOf, SlotsOf, Position
    <3>2. k = 1 /\ OperandsOf(s, o)[k] = block[i].args[2]
      BY <3>1
    <3> QED
      BY <1>1, <2>1, <3>1, <3>2 DEF Uses
  <2> QED
    BY <1>3, <2>2, <2>3
<1>4. CASE ~(o[1] = <<>> /\ s.kind \in {"init", "field"})
  <2>1. OperandsOf(s, o) = block[i].args /\ Position(s, o, k) = k
    BY <1>4 DEF OperandsOf, SlotsOf, Slots, Position
  <2> QED
    BY <1>1, <1>2, <1>4, <2>1 DEF Uses
<1> QED
  BY <1>3, <1>4

\* Two statements of one instruction are an initialisation and its field.
LEMMA TwoStatements ==
  ASSUME ShapeInv, Translated, NEW x \in DOMAIN stmts, NEW y \in DOMAIN stmts, x # y,
         stmts[x].at = stmts[y].at
  PROVE  \/ stmts[x].kind = "init" /\ stmts[y].kind = "field"
         \/ stmts[x].kind = "field" /\ stmts[y].kind = "init"
<1> DEFINE i == stmts[x].at
<1>1. i \in DOMAIN block /\ ~Inlined(i) /\ i < next
  <2>1. stmts[x].at \in 1..(next - 1) /\ next \in Nat
    BY DEF ShapeInv, IOInv
  <2> QED
    <3>1. stmts[x].at \in DOMAIN block /\ ~Inlined(stmts[x].at)
      BY RootPlace, StatementNotInlined
    <3> QED
      BY <2>1, <3>1
<1>2. PICK z \in DOMAIN stmts : Printed(i) = {z}
  BY <1>1 DEF ShapeInv, IOInv, Placed
<1>3. \A w \in DOMAIN stmts : stmts[w].at = i /\ stmts[w].kind # "field" => w = z
  BY <1>2 DEF Printed
<1>4. ASSUME NEW w \in DOMAIN stmts, stmts[w].at = i, stmts[w].kind = "field"
      PROVE  w = z + 1 /\ block[i].op = "insertvalue"
  <2>1. w > 1 /\ stmts[w-1] = Statement("init", i) /\ block[i].op = "insertvalue"
    BY <1>4 DEF ShapeInv, StatementShape, Fits
  <2>2. w - 1 \in DOMAIN stmts /\ w \in Nat
    BY <2>1 DEF ShapeInv, IOInv
  <2>3. w - 1 = z
    BY <1>3, <2>1, <2>2 DEF Statement
  <2> QED
    BY <2>1, <2>2, <2>3
<1>5. ASSUME NEW w \in DOMAIN stmts, stmts[w].at = i, stmts[w].kind # "field",
             block[i].op = "insertvalue"
      PROVE  stmts[w].kind = "init"
  BY <1>5 DEF ShapeInv, StatementShape, Fits
<1> QED
  BY <1>3, <1>4, <1>5

\* An instruction whose chain passes nothing that prints an operand twice occurs at
\* most once in all statements.
LEMMA OnePlace ==
  ASSUME ShapeInv, Translated, NEW e \in DOMAIN block, InPlace(e),
         NEW x \in DOMAIN stmts, NEW y \in DOMAIN stmts,
         NEW o \in Occurrences(stmts[x]), NEW r \in Occurrences(stmts[y]), o[2] = e, r[2] = e
  PROVE  x = y /\ o[1] = r[1]
<1> DEFINE Single(j) ==
             \A z, w \in DOMAIN stmts : \A p \in Occurrences(stmts[z]), q \in Occurrences(stmts[w]) :
               p[2] = j /\ q[2] = j => p[1] = q[1] /\ (p[1] = <<>> \/ z = w)
           G == {j \in Chain(e) : Single(j)}
<1>0. IOInv
  BY DEF ShapeInv
<1>1. CASE ~Inlined(e)
  <2>1. o[1] = <<>> /\ r[1] = <<>> /\ stmts[x].at = e /\ stmts[y].at = e
    BY <1>1, OccurrenceFacts
  <2>2. stmts[x].kind \notin {"init", "field"}
    BY <2>1 DEF ShapeInv, StatementShape, Fits, InPlace, Once
  <2> QED
    BY <2>1, <2>2, TwoStatements
<1>2. CASE Inlined(e)
  <2>1. ASSUME NEW j \in Chain(e),
               Inlined(j) => \A u \in Uses(j) : u[1] \in Chain(e) /\ u[1] \in G
        PROVE  Single(j)
    <3> SUFFICES ASSUME NEW z \in DOMAIN stmts, NEW w \in DOMAIN stmts,
                        NEW p \in Occurrences(stmts[z]), NEW q \in Occurrences(stmts[w]),
                        p[2] = j, q[2] = j
                 PROVE  p[1] = q[1] /\ (p[1] = <<>> \/ z = w)
      OBVIOUS
    <3>1. CASE ~Inlined(j)
      BY <3>1, OccurrenceFacts
    <3>2. CASE Inlined(j)
      <4>1. j \in DOMAIN block /\ j # 0
        BY <1>0, <3>2, ChainFacts DEF Inlined
      <4>2. PICK v \in Uses(j) : Uses(j) = {v}
        BY <1>0, <3>2, <4>1, OneUse
      <4> DEFINE i == v[1]
      <4>3. i \in Chain(e) /\ Single(i) /\ block[i].op \notin Dup \cup {"select"}
        BY <1>2, <2>1, <3>2 DEF InPlace
      <4>4. PICK p1 \in Occurrences(stmts[z]), k \in Nat :
              k \in Nested(stmts[z], p1) /\ p = Operand(stmts[z], p1, k)
        <5>1. p # << <<>>, stmts[z].at >>
          BY <3>2, StatementNotInlined
        <5>2. PICK p1 \in Occurrences(stmts[z]) : \E n \in Nested(stmts[z], p1) : p = Operand(stmts[z], p1, n)
          BY <5>1, OccurrenceParent
        <5> QED
          BY <5>2, OccurrenceFacts, OperandPlace
      <4>5. PICK q1 \in Occurrences(stmts[w]), m \in Nat :
              m \in Nested(stmts[w], q1) /\ q = Operand(stmts[w], q1, m)
        <5>1. q # << <<>>, stmts[w].at >>
          BY <3>2, StatementNotInlined
        <5>2. PICK q1 \in Occurrences(stmts[w]) : \E n \in Nested(stmts[w], q1) : q = Operand(stmts[w], q1, n)
          BY <5>1, OccurrenceParent
        <5> QED
          BY <5>2, OccurrenceFacts, OperandPlace
      <4>6. /\ p1 \in Places(stmts[z]) /\ p1 = <<p1[1], p1[2]>>
            /\ (p1[1] = <<>> => p1[2] = stmts[z].at)
            /\ q1 \in Places(stmts[w]) /\ q1 = <<q1[1], q1[2]>>
            /\ (q1[1] = <<>> => q1[2] = stmts[w].at)
        BY OccurrenceFacts
      <4>7. /\ k \in DOMAIN OperandsOf(stmts[z], p1) /\ OperandsOf(stmts[z], p1)[k] = j
            /\ p[1] = Append(p1[1], k)
            /\ m \in DOMAIN OperandsOf(stmts[w], q1) /\ OperandsOf(stmts[w], q1)[m] = j
            /\ q[1] = Append(q1[1], m)
        BY <4>4, <4>5, <4>6, OperandPlace
      <4>8. p1[2] = i /\ q1[2] = i
        BY <4>1, <4>2, <4>6, <4>7, OperandFacts
      <4>9. p1[1] = q1[1] /\ (p1[1] = <<>> \/ z = w)
        BY <4>3, <4>8
      <4>10. /\ <<i, Position(stmts[z], p1, k)>> \in Uses(j)
             /\ (p1[1] = <<>> /\ stmts[z].kind \in {"init", "field"} => k = 1)
             /\ <<i, Position(stmts[w], q1, m)>> \in Uses(j)
             /\ (q1[1] = <<>> /\ stmts[w].kind \in {"init", "field"} => m = 1)
        <5>1. block[p1[2]].op \notin Dup \cup {"select"} /\ block[q1[2]].op \notin Dup \cup {"select"}
          BY <4>3, <4>8
        <5>2. /\ <<p1[2], Position(stmts[z], p1, k)>> \in Uses(j)
              /\ (p1[1] = <<>> /\ stmts[z].kind \in {"init", "field"} => k = 1)
          BY <4>6, <4>7, <5>1, SlotPosition
        <5>3. /\ <<q1[2], Position(stmts[w], q1, m)>> \in Uses(j)
              /\ (q1[1] = <<>> /\ stmts[w].kind \in {"init", "field"} => m = 1)
          BY <4>6, <4>7, <5>1, SlotPosition
        <5> QED
          BY <4>8, <5>2, <5>3
      <4>11. Position(stmts[z], p1, k) = Position(stmts[w], q1, m)
        BY <4>2, <4>10
      <4>12. z = w
        <5> SUFFICES ASSUME z # w PROVE FALSE
          OBVIOUS
        <5>1. stmts[z].at = stmts[w].at /\ p1[1] = <<>> /\ q1[1] = <<>>
          BY <4>6, <4>8, <4>9
        <5> QED
          BY <4>11, <5>1, TwoStatements DEF Position
      <4>13. k = m
        BY <4>9, <4>10, <4>11, <4>12 DEF Position
      <4> QED
        BY <4>7, <4>9, <4>12, <4>13
    <3> QED
      BY <3>1, <3>2
  <2> HIDE DEF Single
  <2>2. Chain(e) \subseteq G
    <3>1. \A j \in Chain(e) :
            (Inlined(j) => \A u \in Uses(j) : u[1] \in Chain(e) /\ u[1] \in G) => j \in G
      BY <2>1
    <3> HIDE DEF G
    <3> QED
      BY <1>0, <3>1, ChainDown
  <2>3. Single(e)
    BY <1>0, <2>2, ChainFacts
  <2>4. o[1] # <<>>
    BY <1>2, OccurrenceFacts, StatementNotInlined
  <2> QED
    BY <2>3, <2>4 DEF Single
<1> QED
  BY <1>1, <1>2

\* And at least once.
LEMMA SomePlace ==
  ASSUME ShapeInv, Translated, NEW e \in DOMAIN block, InPlace(e)
  PROVE  \E x \in DOMAIN stmts : \E o \in Occurrences(stmts[x]) : o[2] = e
<1> DEFINE Occurs(j) == \E x \in DOMAIN stmts : \E o \in Occurrences(stmts[x]) : o[2] = j
           G == {j \in Chain(e) : Occurs(j)}
<1>0. IOInv
  BY DEF ShapeInv
<1>1. ASSUME NEW j \in DOMAIN block, ~Inlined(j) PROVE Occurs(j)
  <2>1. j < next
    BY DEF ShapeInv, IOInv, Translated
  <2>2. PICK x \in DOMAIN stmts : Printed(j) = {x}
    BY <1>1, <2>1 DEF ShapeInv, IOInv, Placed
  <2>3. stmts[x].at = j
    BY <2>2 DEF Printed
  <2> QED
    BY <2>3, RootOccurs
<1>2. CASE Inlined(e)
  <2>1. ASSUME NEW j \in Chain(e), Inlined(j),
               \A u \in Uses(j) : u[1] \in Chain(e) /\ u[1] \in G
        PROVE  Occurs(j)
    <3>1. j \in DOMAIN block /\ j # 0
      BY <1>0, <2>1, ChainFacts DEF Inlined
    <3>2. PICK u \in Uses(j) : Uses(j) = {u}
      BY <1>0, <2>1, <3>1, OneUse
    <3> DEFINE i == u[1]
               m == u[2]
    <3>3. /\ block[i].op \notin Dup \cup {"select"}
          /\ i \in DOMAIN block /\ m \in DOMAIN block[i].args /\ block[i].args[m] = j
      BY <1>2, <2>1 DEF InPlace, Uses
    <3>4. PICK x \in DOMAIN stmts : \E o \in Occurrences(stmts[x]) : o[2] = i
      BY <2>1
    <3>5. PICK o \in Occurrences(stmts[x]) : o[2] = i
      BY <3>4
    <3>6. CASE o[1] = <<>> /\ stmts[x].kind \in {"init", "field"}
      <4>1. stmts[x].at = i /\ block[i].op = "insertvalue"
        BY <3>5, <3>6, OccurrenceFacts DEF ShapeInv, StatementShape, Fits
      <4>2. m \in 1..2
        BY <3>3, <4>1, ArgsShape
      <4>3. PICK y \in DOMAIN stmts : stmts[y] = Statement("init", i)
        <5>1. CASE stmts[x].kind = "init"
          <6>1. stmts[x] = Statement("init", i)
            <7>1. stmts[x] \in Statements
              BY DEF ShapeInv, IOInv
            <7> QED
              BY <4>1, <5>1, <7>1 DEF Statements, Statement
          <6> QED
            BY <6>1
        <5>2. CASE stmts[x].kind = "field"
          <6>1. x > 1 /\ stmts[x-1] = Statement("init", i)
            BY <4>1, <5>2 DEF ShapeInv, StatementShape, Fits
          <6>2. x - 1 \in DOMAIN stmts
            BY <6>1 DEF ShapeInv, IOInv
          <6> QED
            BY <6>1, <6>2
        <5> QED
          BY <3>6, <5>1, <5>2
      <4>4. PICK z \in DOMAIN stmts : stmts[z] = Statement("field", i)
        <5>1. y < Len(stmts) /\ stmts[y+1] = Statement("field", i)
          BY <4>3 DEF ShapeInv, StatementShape, Fits, Statement
        <5>2. y + 1 \in DOMAIN stmts
          BY <5>1 DEF ShapeInv, IOInv
        <5> QED
          BY <5>1, <5>2
      <4>5. ASSUME NEW w \in DOMAIN stmts, stmts[w].at = i,
                   OperandsOf(stmts[w], << <<>>, i >>) = <<j>>
            PROVE  Occurs(j)
        <5> DEFINE root == << <<>>, i >>
        <5>1. root \in Occurrences(stmts[w]) /\ root \in Places(stmts[w])
          BY <4>5, RootOccurs, RootPlace
        <5>2. 1 \in Nested(stmts[w], root)
          BY <2>1, <4>5 DEF Nested
        <5>3. /\ Operand(stmts[w], root, 1) \in Occurrences(stmts[w])
              /\ Operand(stmts[w], root, 1)[2] = j
          BY <4>5, <5>1, <5>2, OperandOccurs, OperandPlace
        <5> QED
          BY <5>3
      <4>6. CASE m = 1
        <5>1. stmts[y].at = i /\ OperandsOf(stmts[y], << <<>>, i >>) = <<j>>
          BY <3>3, <4>3, <4>6 DEF Statement, OperandsOf, SlotsOf
        <5> QED
          BY <4>5, <5>1
      <4>7. CASE m = 2
        <5>1. stmts[z].at = i /\ OperandsOf(stmts[z], << <<>>, i >>) = <<j>>
          BY <3>3, <4>4, <4>7 DEF Statement, OperandsOf, SlotsOf
        <5> QED
          BY <4>5, <5>1
      <4> QED
        BY <4>2, <4>6, <4>7
    <3>7. CASE ~(o[1] = <<>> /\ stmts[x].kind \in {"init", "field"})
      <4>1. OperandsOf(stmts[x], o) = block[i].args
        BY <3>3, <3>5, <3>7 DEF OperandsOf, SlotsOf, Slots
      <4>2. m \in Nested(stmts[x], o) /\ OperandsOf(stmts[x], o)[m] = j
        BY <2>1, <3>3, <4>1 DEF Nested
      <4>3. /\ Operand(stmts[x], o, m) \in Occurrences(stmts[x])
            /\ Operand(stmts[x], o, m)[2] = j
        BY <4>2, OperandOccurs, OperandPlace, OccurrenceFacts
      <4> QED
        BY <4>3
    <3> QED
      BY <3>6, <3>7
  <2>2. ASSUME NEW j \in Chain(e),
               Inlined(j) => \A u \in Uses(j) : u[1] \in Chain(e) /\ u[1] \in G
        PROVE  Occurs(j)
    <3>1. j \in DOMAIN block
      BY <1>0, ChainFacts
    <3> QED
      BY <1>1, <2>1, <2>2, <3>1
  <2> HIDE DEF Occurs
  <2>3. Chain(e) \subseteq G
    <3>1. \A j \in Chain(e) :
            (Inlined(j) => \A u \in Uses(j) : u[1] \in Chain(e) /\ u[1] \in G) => j \in G
      BY <2>2
    <3> HIDE DEF G
    <3> QED
      BY <1>0, <3>1, ChainDown
  <2>4. Occurs(e)
    BY <1>0, <2>3, ChainFacts
  <2> QED
    BY <2>4 DEF Occurs
<1> QED
  BY <1>1, <1>2

-----------------------------------------------------------------------------
(* The block as LLVM runs it. *)

LlvmStep(n, r) ==
  LET x == block[n]
      V(k) == IF x.args[k] = 0 THEN Constant ELSE r.vals[x.args[k]]
      vs == IF x.op = "select" THEN <<V(1), V(x.arm)>>
            ELSE [k \in DOMAIN x.args |-> V(k)]
      e == Effect(n, vs, r.mem, r.trace)
  IN  [vals |-> Append(r.vals, e.v), mem |-> e.mem, trace |-> e.trace]

LlvmStart == [vals |-> <<>>, mem |-> Constant, trace |-> <<>>]

IsHistory(R) == R = [n \in 0..Len(block) |-> IF n = 0 THEN LlvmStart ELSE LlvmStep(n, R[n-1])]

History == CHOOSE R : IsHistory(R)

\* LLVM's value of an operand.
Value(i) == IF i = 0 THEN Constant ELSE History[i].vals[i]

LlvmOperands(i) ==
  LET a == block[i].args
  IN  IF block[i].op = "select" THEN <<Value(a[1]), Value(a[block[i].arm])>>
      ELSE [k \in DOMAIN a |-> Value(a[k])]

\* The recursive function of LLVM's run exists.
LEMMA HistoryDefined ==
  ASSUME IOInv
  PROVE  IsHistory(History)
<1> DEFINE T == {n \in Nat : \E R : R = [m \in 0..n |-> IF m = 0 THEN LlvmStart
                                                        ELSE LlvmStep(m, R[m-1])]}
<1>1. 0 \in T
  <2> DEFINE R == [m \in 0..0 |-> LlvmStart]
  <2>1. R = [m \in 0..0 |-> IF m = 0 THEN LlvmStart ELSE LlvmStep(m, R[m-1])]
    OBVIOUS
  <2> HIDE DEF R
  <2> QED
    BY <2>1
<1>2. ASSUME NEW n \in T PROVE n + 1 \in T
  <2>1. PICK R : R = [m \in 0..n |-> IF m = 0 THEN LlvmStart ELSE LlvmStep(m, R[m-1])]
    OBVIOUS
  <2> DEFINE Q == [m \in 0..n+1 |-> IF m = n + 1 THEN LlvmStep(n + 1, R[n]) ELSE R[m]]
  <2>2. \A m \in 0..n : R[m] = IF m = 0 THEN LlvmStart ELSE LlvmStep(m, R[m-1])
    BY <2>1
  <2>3. ASSUME NEW m \in 0..n+1
        PROVE  Q[m] = IF m = 0 THEN LlvmStart ELSE LlvmStep(m, Q[m-1])
    <3>1. CASE m = n + 1
      <4>1. Q[m] = LlvmStep(n + 1, R[n]) /\ Q[m-1] = R[n]
        BY <3>1
      <4> QED
        BY <3>1, <4>1
    <3>2. CASE m \in 0..n
      <4>1. Q[m] = R[m] /\ (m # 0 => Q[m-1] = R[m-1])
        BY <3>2
      <4> QED
        BY <2>2, <3>2, <4>1
    <3> QED
      BY <3>1, <3>2
  <2>4. Q = [m \in 0..n+1 |-> IF m = 0 THEN LlvmStart ELSE LlvmStep(m, Q[m-1])]
    <3>1. Q = [m \in 0..n+1 |-> Q[m]]
      OBVIOUS
    <3> HIDE DEF Q
    <3> QED
      BY <2>3, <3>1
  <2> HIDE DEF Q
  <2> QED
    BY <2>4
<1> HIDE DEF T
<1>3. Nat \subseteq T
  BY <1>1, <1>2, SetInduction
<1>4. Len(block) \in T
  BY <1>3 DEF IOInv
<1>5. \E R : IsHistory(R)
  BY <1>4 DEF T, IsHistory
<1> QED
  BY <1>5 DEF History

\* LLVM's run ends with the last instruction of the block.
LEMMA HistoryEnds ==
  LlvmRun = History[Len(block)]
BY DEF LlvmRun, History, IsHistory, LlvmStart, LlvmStep

\* Each step of LLVM's run executes one instruction.
LEMMA HistorySteps ==
  ASSUME IOInv
  PROVE  /\ History[0] = LlvmStart
         /\ \A n \in DOMAIN block : History[n] = LlvmStep(n, History[n-1])
<1>1. IsHistory(History)
  BY HistoryDefined
<1>2. Len(block) \in Nat /\ DOMAIN block = 1..Len(block)
  BY DEF IOInv
<1>3. History[0] = LlvmStart
  BY <1>1, <1>2 DEF IsHistory
<1>4. ASSUME NEW n \in DOMAIN block
      PROVE  History[n] = LlvmStep(n, History[n-1])
  <2>1. n \in 0..Len(block) /\ n # 0
    BY <1>2
  <2> QED
    BY <1>1, <2>1 DEF IsHistory
<1> QED
  BY <1>3, <1>4

\* A step of LLVM's run adds one value.
LEMMA StepAppends ==
  ASSUME NEW n, NEW r
  PROVE  \E v : LlvmStep(n, r).vals = Append(r.vals, v)
<1> DEFINE x == block[n]
           V(k) == IF x.args[k] = 0 THEN Constant ELSE r.vals[x.args[k]]
           vs == IF x.op = "select" THEN <<V(1), V(x.arm)>>
                 ELSE [k \in DOMAIN x.args |-> V(k)]
           e == Effect(n, vs, r.mem, r.trace)
<1>1. LlvmStep(n, r) = [vals |-> Append(r.vals, e.v), mem |-> e.mem, trace |-> e.trace]
  BY DEF LlvmStep
<1> HIDE DEF e
<1> QED
  BY <1>1

\* Values do not change after their instruction: the first n values of the run are
\* those after n instructions.
LEMMA HistoryValues ==
  ASSUME IOInv, NEW n \in 0..Len(block)
  PROVE  /\ \E A : History[n].vals \in Seq(A)
         /\ Len(History[n].vals) = n
         /\ \A i \in 1..n : History[n].vals[i] = Value(i)
<1> DEFINE Good(m) == /\ \E A : History[m].vals \in Seq(A)
                      /\ Len(History[m].vals) = m
                      /\ \A i \in 1..m : History[m].vals[i] = Value(i)
           T == {m \in Nat : m <= Len(block) => Good(m)}
<1>1. Len(block) \in Nat /\ DOMAIN block = 1..Len(block)
  BY DEF IOInv
<1>2. 0 \in T
  <2>1. History[0].vals = <<>>
    BY HistorySteps DEF LlvmStart
  <2>2. <<>> \in Seq({})
    OBVIOUS
  <2>3. \A i \in 1..0 : FALSE
    OBVIOUS
  <2> QED
    BY <2>1, <2>2, <2>3
<1>3. ASSUME NEW m \in T PROVE m + 1 \in T
  <2> SUFFICES ASSUME m + 1 <= Len(block) PROVE Good(m + 1)
    OBVIOUS
  <2>1. m \in Nat /\ m <= Len(block) /\ m + 1 \in DOMAIN block /\ (m + 1) - 1 = m /\ Good(m)
    BY <1>1
  <2>2. PICK v : History[m+1].vals = Append(History[m].vals, v)
    <3>1. PICK k : k = m + 1
      OBVIOUS
    <3>2. PICK r : r = History[m]
      OBVIOUS
    <3>3. History[k] = LlvmStep(k, r)
      BY <2>1, <3>1, <3>2, HistorySteps
    <3>4. \E v : LlvmStep(k, r).vals = Append(r.vals, v)
      BY StepAppends
    <3>5. \E v : History[k].vals = Append(r.vals, v)
      BY <3>3, <3>4
    <3> QED
      BY <3>1, <3>2, <3>5
  <2>3. PICK A : History[m].vals \in Seq(A)
    BY <2>1
  <2> DEFINE s == History[m].vals
             t == History[m+1].vals
  <2>4. s \in Seq(A \cup {v}) /\ Len(s) = m /\ t = Append(s, v)
        /\ \A i \in 1..m : s[i] = Value(i)
    BY <2>1, <2>2, <2>3, WiderSeq
  <2> HIDE DEF s, t
  <2>5. /\ t \in Seq(A \cup {v}) /\ Len(t) = m + 1
        /\ \A i \in 1..m : t[i] = s[i]
    BY <2>1, <2>4
  <2>6. t[m+1] = Value(m + 1)
    BY <2>1 DEF Value, t
  <2>7. \A i \in 1..(m + 1) : t[i] = Value(i)
    <3>1. \A i \in 1..(m + 1) : i \in 1..m \/ i = m + 1
      BY <2>1
    <3> QED
      BY <2>4, <2>5, <2>6, <3>1
  <2> QED
    BY <2>5, <2>7 DEF t
<1>4. Nat \subseteq T
  <2> HIDE DEF T
  <2> QED
    BY <1>2, <1>3, SetInduction
<1> QED
  BY <1>1, <1>4

\* One instruction of LLVM, with the values of its operands.
LEMMA LlvmInstruction ==
  ASSUME ShapeInv, NEW n \in DOMAIN block
  PROVE  LET e == Effect(n, LlvmOperands(n), History[n-1].mem, History[n-1].trace) IN
           /\ Value(n) = e.v /\ History[n].mem = e.mem /\ History[n].trace = e.trace
<1> DEFINE r == History[n-1]
           a == block[n].args
           V(k) == IF a[k] = 0 THEN Constant ELSE r.vals[a[k]]
           vs == IF block[n].op = "select" THEN <<V(1), V(block[n].arm)>>
                 ELSE [k \in DOMAIN a |-> V(k)]
           e == Effect(n, LlvmOperands(n), r.mem, r.trace)
<1>0. IOInv /\ Len(block) \in Nat /\ DOMAIN block = 1..Len(block)
  BY DEF ShapeInv, IOInv
<1>1. n - 1 \in 0..Len(block) /\ n \in Nat /\ n # 0 /\ n \in 0..Len(block) /\ (n - 1) + 1 = n
  BY <1>0
<1>2. \A i \in 1..(n-1) : r.vals[i] = Value(i)
  BY <1>0, <1>1, HistoryValues
<1>3. ASSUME NEW k \in DOMAIN a PROVE V(k) = Value(a[k])
  <2>1. a[k] < n /\ a[k] \in Nat
    <3>1. a \in Seq(Nat)
      BY ArgsShape
    <3>2. a[k] < n
      BY <1>0 DEF IOInv, OperandsBefore
    <3> QED
      BY <3>1, <3>2
  <2>2. CASE a[k] = 0
    BY <2>2 DEF Value
  <2>3. CASE a[k] # 0
    <3>1. a[k] \in 1..(n-1)
      BY <1>1, <2>1, <2>3
    <3> QED
      BY <1>2, <2>3, <3>1
  <2> QED
    BY <2>2, <2>3
<1>4. vs = LlvmOperands(n)
  <2>1. CASE block[n].op = "select"
    <3>1. 1 \in DOMAIN a /\ block[n].arm \in DOMAIN a
      BY <2>1, ArgsShape
    <3>2. V(1) = Value(a[1]) /\ V(block[n].arm) = Value(a[block[n].arm])
      BY <1>3, <3>1
    <3> HIDE DEF V
    <3> QED
      BY <2>1, <3>2 DEF LlvmOperands
  <2>2. CASE block[n].op # "select"
    <3> HIDE DEF V
    <3> QED
      BY <1>3, <2>2 DEF LlvmOperands
  <2> QED
    BY <2>1, <2>2
<1>5. History[n] = LlvmStep(n, r)
  BY <1>0, HistorySteps
<1>6. LlvmStep(n, r) = LET f == Effect(n, vs, r.mem, r.trace)
                       IN  [vals |-> Append(r.vals, f.v), mem |-> f.mem, trace |-> f.trace]
  BY DEF LlvmStep
<1> HIDE DEF vs
<1>7. /\ History[n].vals = Append(r.vals, e.v)
      /\ History[n].mem = e.mem /\ History[n].trace = e.trace
  BY <1>4, <1>5, <1>6
<1> HIDE DEF e
<1>8. Value(n) = e.v
  <2> DEFINE s == r.vals
  <2>1. PICK A : s \in Seq(A)
    BY <1>0, <1>1, HistoryValues
  <2>2. s \in Seq(A \cup {e.v}) /\ Len(s) = n - 1
    BY <1>0, <1>1, <2>1, WiderSeq, HistoryValues
  <2> HIDE DEF s
  <2>3. Append(s, e.v)[n] = e.v
    BY <1>1, <2>2
  <2>4. Value(n) = History[n].vals[n]
    BY <1>1 DEF Value
  <2> QED
    BY <1>7, <2>3, <2>4 DEF s
<1> QED
  BY <1>7, <1>8 DEF e

\* Only stores and calls change memory and the trace.
LEMMA EffectQuiet ==
  ASSUME NEW i, NEW vs, NEW m, NEW tr, block[i].op \notin Once
  PROVE  /\ Effect(i, vs, m, tr).mem = m
         /\ Effect(i, vs, m, tr).trace = tr
BY DEF Effect, Once

\* What only computes does not look at memory.
LEMMA EffectBlind ==
  ASSUME NEW i, NEW vs, NEW m, NEW tr, NEW m1, NEW tr1, block[i].op \notin Once \cup {"load"}
  PROVE  Effect(i, vs, m, tr).v = Effect(i, vs, m1, tr1).v
<1>1. CASE block[i].op = "select"
  BY <1>1 DEF Effect
<1>2. CASE block[i].op # "select"
  BY <1>2 DEF Effect, Once
<1> QED
  BY <1>1, <1>2

\* Between two of them memory and the trace stay.
LEMMA HistoryQuiet ==
  ASSUME ShapeInv, NEW m \in 0..Len(block), NEW n \in 0..Len(block), m <= n,
         \A e \in DOMAIN block : m < e /\ e <= n => block[e].op \notin Once
  PROVE  History[m].mem = History[n].mem /\ History[m].trace = History[n].trace
<1> DEFINE T == {d \in Nat : m + d <= n => /\ History[m].mem = History[m+d].mem
                                           /\ History[m].trace = History[m+d].trace}
<1>1. Len(block) \in Nat /\ DOMAIN block = 1..Len(block)
  BY DEF ShapeInv, IOInv
<1>2. 0 \in T
  <2>1. m + 0 = m
    OBVIOUS
  <2> QED
    BY <2>1
<1>3. ASSUME NEW d \in T PROVE d + 1 \in T
  <2> SUFFICES ASSUME m + (d + 1) <= n
               PROVE  /\ History[m].mem = History[m + (d + 1)].mem
                      /\ History[m].trace = History[m + (d + 1)].trace
    OBVIOUS
  <2>1. /\ m + d <= n /\ m + (d + 1) \in DOMAIN block /\ m < m + (d + 1)
        /\ (m + (d + 1)) - 1 = m + d
    BY <1>1
  <2>2. block[m + (d + 1)].op \notin Once
    BY <2>1
  <2> DEFINE k == m + (d + 1)
  <2>3. k \in DOMAIN block /\ k - 1 = m + d /\ block[k].op \notin Once
    BY <2>1, <2>2
  <2> HIDE DEF k
  <2>4. History[k].mem = History[k-1].mem /\ History[k].trace = History[k-1].trace
    BY <2>3, LlvmInstruction, EffectQuiet
  <2> QED
    BY <2>1, <2>3, <2>4 DEF k
<1>4. Nat \subseteq T
  <2> HIDE DEF T
  <2> QED
    BY <1>2, <1>3, SetInduction
<1>5. n - m \in Nat /\ m + (n - m) = n /\ m + (n - m) <= n
  OBVIOUS
<1> QED
  BY <1>4, <1>5

\* The C text's slots and LLVM's operands have the same effect.
LEMMA SameEffect ==
  ASSUME ShapeInv, NEW i \in DOMAIN block, NEW m, NEW tr
  PROVE  Effect(i, [k \in DOMAIN Slots(i) |-> Value(Slots(i)[k])], m, tr)
           = Effect(i, LlvmOperands(i), m, tr)
<1> DEFINE a == block[i].args
           vs == [k \in DOMAIN Slots(i) |-> Value(Slots(i)[k])]
<1>1. /\ a \in Seq(Nat) /\ DOMAIN a = 1..Len(a) /\ Len(a) \in Nat
  BY ArgsShape
<1>2. CASE block[i].op \in Dup
  <2>1. Slots(i) = a \o a
    BY <1>2 DEF Slots
  <2>2. LlvmOperands(i) = [k \in DOMAIN a |-> Value(a[k])]
    BY <1>2 DEF LlvmOperands, Dup
  <2>3. \A ws : Effect(i, ws, m, tr) = [v |-> Term(block[i].op, 0, SubSeq(ws, 1, Len(a))),
                                        mem |-> m, trace |-> tr]
    BY <1>2 DEF Effect, Dup
  <2> HIDE DEF a
  <2> DEFINE w == [k \in DOMAIN a |-> Value(a[k])]
             u == [k \in DOMAIN (a \o a) |-> Value((a \o a)[k])]
             A == {Value(a[k]) : k \in DOMAIN a}
  <2>4. DOMAIN (a \o a) = 1..(Len(a) + Len(a))
        /\ \A k \in 1..Len(a) : (a \o a)[k] = a[k] /\ (a \o a)[k + Len(a)] = a[k]
    BY <1>1
  <2>5. \A k \in 1..(Len(a) + Len(a)) : k \in 1..Len(a) \/ (k - Len(a) \in 1..Len(a)
                                                           /\ (k - Len(a)) + Len(a) = k)
    BY <1>1
  <2>6. \A k \in 1..(Len(a) + Len(a)) : u[k] \in A
    BY <1>1, <2>4, <2>5
  <2>7. w \in Seq(A) /\ Len(w) = Len(a) /\ \A k \in 1..Len(a) : w[k] = Value(a[k])
    BY <1>1
  <2>8. u \in Seq(A) /\ Len(u) = Len(a) + Len(a) /\ \A k \in 1..Len(a) : u[k] = Value(a[k])
    <3>1. u = [k \in 1..(Len(a) + Len(a)) |-> u[k]]
      BY <2>4
    <3>2. \A k \in 1..Len(a) : u[k] = Value(a[k])
      BY <1>1, <2>4
    <3> HIDE DEF u, A
    <3>3. PICK n \in Nat : n = Len(a) + Len(a)
      BY <1>1
    <3>4. u \in [1..n -> A]
      BY <2>6, <3>1, <3>3
    <3>5. u \in Seq(A) /\ Len(u) = n
      BY <3>3, <3>4
    <3> QED
      BY <3>2, <3>3, <3>5
  <2> HIDE DEF w, u, A
  <2>9. SubSeq(w, 1, Len(a)) = [k \in 1..Len(a) |-> Value(a[k])]
    BY <1>1, <2>7
  <2>10. SubSeq(u, 1, Len(a)) = [k \in 1..Len(a) |-> Value(a[k])]
    BY <1>1, <2>8
  <2>11. vs = u /\ LlvmOperands(i) = w
    BY <2>1, <2>2 DEF u, w
  <2> HIDE DEF vs
  <2>12. Effect(i, vs, m, tr) = Effect(i, LlvmOperands(i), m, tr)
    BY <2>3, <2>9, <2>10, <2>11
  <2> QED
    BY <2>12 DEF vs
<1>3. CASE block[i].op = "select"
  <2>1. Slots(i) = <<a[1], a[block[i].arm]>>
    BY <1>3 DEF Slots, Dup
  <2>2. vs[2] = Value(a[block[i].arm])
    BY <2>1
  <2>3. LlvmOperands(i)[2] = Value(a[block[i].arm])
    BY <1>3 DEF LlvmOperands
  <2>4. \A ws : Effect(i, ws, m, tr) = [v |-> ws[2], mem |-> m, trace |-> tr]
    BY <1>3 DEF Effect
  <2> HIDE DEF vs
  <2>5. Effect(i, vs, m, tr) = Effect(i, LlvmOperands(i), m, tr)
    BY <2>2, <2>3, <2>4
  <2> QED
    BY <2>5 DEF vs
<1>4. CASE block[i].op \notin Dup \cup {"select"}
  <2>1. Slots(i) = a
    BY <1>4 DEF Slots
  <2>2. vs = LlvmOperands(i)
    BY <1>4, <2>1 DEF LlvmOperands
  <2> QED
    BY <2>2
<1> QED
  BY <1>2, <1>3, <1>4

-----------------------------------------------------------------------------
(* The run of the C text. *)

IsExecuted(e) ==
  \E x \in DOMAIN stmts : \E o \in Occurrences(stmts[x]) :
    o[2] = e /\ (x < running \/ (x = running /\ o[1] \in DOMAIN done))

\* The operands evaluated so far have LLVM's values.
DoneRight ==
  /\ \A p \in DOMAIN done : p # <<>> /\ running \in DOMAIN stmts
  /\ running \in DOMAIN stmts =>
       /\ Closed(DOMAIN done, running)
       /\ \A o \in Occurrences(stmts[running]) :
            o[1] \in DOMAIN done => done[o[1]] = Value(o[2])

\* So have the variables; an aggregate's is initialised before its field is set.
VarsRight ==
  /\ \A x \in DOMAIN stmts :
       x < running /\ stmts[x].kind \in {"assign", "field"} => vars[stmts[x].at] = Value(stmts[x].at)
  /\ running \in DOMAIN stmts /\ stmts[running].kind = "field" =>
       vars[stmts[running].at] = Value(block[stmts[running].at].args[1])

\* The calls and stores so far are those of the beginning of the LLVM block.
EffectsRight ==
  \E n \in 0..Len(block) :
    /\ mem = History[n].mem /\ trace = History[n].trace
    /\ \A e \in DOMAIN block : block[e].op \in Once => (e <= n <=> IsExecuted(e))

RunRight == DoneRight /\ VarsRight /\ EffectsRight

RunInv == ShapeInv /\ (Translated /\ CallsInPlace => RunRight)

OperandValue(s, o, k) ==
  IF Inlined(OperandsOf(s, o)[k]) THEN done[Append(o[1], k)]
  ELSE IF OperandsOf(s, o)[k] = 0 THEN Constant ELSE vars[OperandsOf(s, o)[k]]

OperandValues(s, o) == [k \in DOMAIN OperandsOf(s, o) |-> OperandValue(s, o, k)]

Halves(s, o) == o[1] = <<>> /\ s.kind \in {"init", "field"}

Outcome(s, o) ==
  IF Halves(s, o) THEN [v |-> OperandValues(s, o)[1], mem |-> mem, trace |-> trace]
  ELSE Effect(o[2], OperandValues(s, o), mem, trace)

Ready(s, o) ==
  /\ o[1] \notin DOMAIN done
  /\ \A k \in Nested(s, o) : Append(o[1], k) \in DOMAIN done

NewVars(s, o) ==
  CASE s.kind \in {"assign", "init"} -> [vars EXCEPT ![o[2]] = Outcome(s, o).v]
    [] s.kind = "field" -> [vars EXCEPT ![o[2]] = Term("insertvalue", 0, <<vars[o[2]], Outcome(s, o).v>>)]
    [] OTHER -> vars

\* A step of the C text evaluates one occurrence whose operands are evaluated.
LEMMA EvaluateOne ==
  ASSUME Evaluate
  PROVE  /\ Translated /\ running <= Len(stmts) /\ UNCHANGED <<block, next, expr, stmts>>
         /\ \E o \in Occurrences(stmts[running]) :
              /\ Ready(stmts[running], o)
              /\ mem' = Outcome(stmts[running], o).mem /\ trace' = Outcome(stmts[running], o).trace
              /\ o[1] # <<>> =>
                   /\ done' = [q \in DOMAIN done \cup {o[1]} |->
                                 IF q = o[1] THEN Outcome(stmts[running], o).v ELSE done[q]]
                   /\ UNCHANGED <<vars, running>>
              /\ o[1] = <<>> =>
                   /\ done' = << >> /\ running' = running + 1
                   /\ vars' = NewVars(stmts[running], o)
<1>1. Translated /\ running <= Len(stmts) /\ UNCHANGED <<block, next, expr, stmts>>
  BY DEF Evaluate
<1> DEFINE s == stmts[running]
<1>2. PICK o \in Occurrences(s) :
        LET p == o[1]
            i == o[2]
            slots == SlotsOf(s, p, i)
            V(k) == IF Inlined(slots[k]) THEN done[Append(p, k)]
                    ELSE IF slots[k] = 0 THEN Constant ELSE vars[slots[k]]
            vs == [k \in DOMAIN slots |-> V(k)]
            e == IF p = <<>> /\ s.kind \in {"init", "field"}
                 THEN [v |-> vs[1], mem |-> mem, trace |-> trace]
                 ELSE Effect(i, vs, mem, trace)
        IN  /\ p \notin DOMAIN done
            /\ \A k \in DOMAIN slots : Inlined(slots[k]) => Append(p, k) \in DOMAIN done
            /\ mem' = e.mem /\ trace' = e.trace
            /\ IF p # <<>>
               THEN /\ done' = [q \in DOMAIN done \cup {p} |-> IF q = p THEN e.v ELSE done[q]]
                    /\ UNCHANGED <<vars, running>>
               ELSE /\ done' = << >>
                    /\ running' = running + 1
                    /\ vars' = CASE s.kind \in {"assign", "init"} -> [vars EXCEPT ![i] = e.v]
                                 [] s.kind = "field" ->
                                      [vars EXCEPT ![i] = Term("insertvalue", 0, <<@, e.v>>)]
                                 [] OTHER -> vars
  BY DEF Evaluate
<1>3. OperandValues(s, o) = [k \in DOMAIN SlotsOf(s, o[1], o[2]) |->
                               IF Inlined(SlotsOf(s, o[1], o[2])[k]) THEN done[Append(o[1], k)]
                               ELSE IF SlotsOf(s, o[1], o[2])[k] = 0 THEN Constant
                                    ELSE vars[SlotsOf(s, o[1], o[2])[k]]]
  BY DEF OperandValues, OperandValue, OperandsOf
<1>4. Outcome(s, o) = IF o[1] = <<>> /\ s.kind \in {"init", "field"}
                      THEN [v |-> OperandValues(s, o)[1], mem |-> mem, trace |-> trace]
                      ELSE Effect(o[2], OperandValues(s, o), mem, trace)
  BY DEF Outcome, Halves
<1>5. /\ o[1] \notin DOMAIN done
      /\ \A k \in DOMAIN SlotsOf(s, o[1], o[2]) :
           Inlined(SlotsOf(s, o[1], o[2])[k]) => Append(o[1], k) \in DOMAIN done
      /\ mem' = Outcome(s, o).mem /\ trace' = Outcome(s, o).trace
      /\ IF o[1] # <<>>
         THEN /\ done' = [q \in DOMAIN done \cup {o[1]} |-> IF q = o[1] THEN Outcome(s, o).v ELSE done[q]]
              /\ UNCHANGED <<vars, running>>
         ELSE /\ done' = << >>
              /\ running' = running + 1
              /\ vars' = CASE s.kind \in {"assign", "init"} -> [vars EXCEPT ![o[2]] = Outcome(s, o).v]
                           [] s.kind = "field" ->
                                [vars EXCEPT ![o[2]] = Term("insertvalue", 0, <<@, Outcome(s, o).v>>)]
                           [] OTHER -> vars
  BY <1>2, <1>3, <1>4
<1>6. Ready(s, o)
  BY <1>5 DEF Ready, Nested, OperandsOf
<1>7. o[1] = <<>> => vars' = NewVars(s, o)
  BY <1>5 DEF NewVars
<1> QED
  BY <1>1, <1>5, <1>6, <1>7

\* Once the operands of the root are evaluated, all of the statement is.
LEMMA AllDone ==
  ASSUME ShapeInv, NEW x \in DOMAIN stmts, NEW Q, Closed(Q, x),
         NEW o \in Occurrences(stmts[x]), o[1] = <<>>,
         \A k \in Nested(stmts[x], o) : Append(o[1], k) \in Q
  PROVE  \A r \in Occurrences(stmts[x]) : r[1] = <<>> \/ r[1] \in Q
<1> DEFINE T == {r \in Occurrences(stmts[x]) : r[1] = <<>> \/ r[1] \in Q}
<1>1. << <<>>, stmts[x].at >> \in T
  BY RootOccurs
<1>2. ASSUME NEW r \in T, NEW k \in Nested(stmts[x], r) PROVE Operand(stmts[x], r, k) \in T
  <2>1. Operand(stmts[x], r, k) \in Occurrences(stmts[x])
    BY OperandOccurs
  <2>2. Operand(stmts[x], r, k)[1] = Append(r[1], k)
    BY OccurrenceFacts, OperandPlace
  <2>3. r[1] = <<>> => r = o
    BY PathsDistinct
  <2> QED
    BY <2>1, <2>2, <2>3 DEF Closed
<1>3. Occurrences(stmts[x]) \subseteq T
  <2> HIDE DEF T
  <2> QED
    BY <1>1, <1>2, OccurrenceInduction
<1> QED
  BY <1>3

\* Statements are in the order of their instructions.
LEMMA StatementFacts ==
  ASSUME ShapeInv
  PROVE  /\ Len(stmts) \in Nat /\ DOMAIN stmts = 1..Len(stmts) /\ running \in 1..(Len(stmts) + 1)
         /\ Len(block) \in Nat /\ DOMAIN block = 1..Len(block) /\ IOInv
         /\ \A x, y \in DOMAIN stmts : stmts[x].at < stmts[y].at => x < y
<1>1. /\ Len(stmts) \in Nat /\ DOMAIN stmts = 1..Len(stmts) /\ running \in 1..(Len(stmts) + 1)
      /\ Len(block) \in Nat /\ DOMAIN block = 1..Len(block) /\ IOInv
  BY DEF ShapeInv, IOInv
<1>2. ASSUME NEW x \in DOMAIN stmts, NEW y \in DOMAIN stmts, stmts[x].at < stmts[y].at
      PROVE  x < y
  <2> SUFFICES ASSUME y <= x PROVE FALSE
    BY <1>1
  <2>1. stmts[y].at <= stmts[x].at
    BY DEF ShapeInv, StatementShape, InOrder
  <2>2. stmts[x].at \in Nat /\ stmts[y].at \in Nat
    BY RootPlace DEF ShapeInv, IOInv
  <2> QED
    BY <1>2, <2>1, <2>2
<1> QED
  BY <1>1, <1>2

\* A value with a variable has it when it is used.
LEMMA Assigned ==
  ASSUME ShapeInv, Translated, VarsRight, running \in DOMAIN stmts, NEW j \in DOMAIN block,
         ~Inlined(j), block[j].op \in ValueOps, Uses(j) # {}, j < stmts[running].at
  PROVE  vars[j] = Value(j)
<1>1. PICK z \in DOMAIN stmts : Printed(j) = {z}
  BY DEF ShapeInv, IOInv, Placed, Translated
<1>2. stmts[z].at = j /\ stmts[z].kind # "field" /\ stmts[z] \in Statements
  BY <1>1 DEF Printed, ShapeInv, IOInv
<1>3. stmts[z].kind \in {"assign", "init"}
  BY <1>2 DEF ShapeInv, StatementShape, Fits, Statements, StatementKinds
<1>4. PICK x \in DOMAIN stmts : stmts[x].at = j /\ stmts[x].kind \in {"assign", "field"}
  <2>1. CASE stmts[z].kind = "init"
    <3>1. z < Len(stmts) /\ stmts[z+1] = Statement("field", j)
      BY <1>2, <2>1 DEF ShapeInv, StatementShape, Fits
    <3>2. z + 1 \in DOMAIN stmts
      BY <3>1, StatementFacts
    <3> QED
      BY <3>1, <3>2 DEF Statement
  <2> QED
    BY <1>2, <1>3, <2>1
<1>5. x < running
  BY <1>4, StatementFacts
<1> QED
  BY <1>4, <1>5 DEF VarsRight

\* The operands of what is evaluated have LLVM's values.
LEMMA OperandsRight ==
  ASSUME ShapeInv, Translated, VarsRight, DoneRight, running \in DOMAIN stmts,
         NEW o \in Occurrences(stmts[running]), Ready(stmts[running], o)
  PROVE  OperandValues(stmts[running], o)
           = [k \in DOMAIN OperandsOf(stmts[running], o) |-> Value(OperandsOf(stmts[running], o)[k])]
<1> DEFINE s == stmts[running]
<1>1. o \in Places(s) /\ o[2] \in DOMAIN block /\ o[2] <= s.at
  BY OccurrenceFacts
<1>2. ASSUME NEW k \in DOMAIN OperandsOf(s, o)
      PROVE  OperandValue(s, o, k) = Value(OperandsOf(s, o)[k])
  <2> DEFINE j == OperandsOf(s, o)[k]
  <2>1. CASE Inlined(j)
    <3>1. k \in Nested(s, o)
      BY <2>1 DEF Nested
    <3>2. /\ Operand(s, o, k) \in Occurrences(s) /\ Operand(s, o, k)[1] = Append(o[1], k)
          /\ Operand(s, o, k)[2] = j
      BY <1>1, <3>1, OperandOccurs, OperandPlace
    <3>3. Append(o[1], k) \in DOMAIN done
      BY <3>1 DEF Ready
    <3>4. done[Append(o[1], k)] = Value(j)
      BY <3>2, <3>3 DEF DoneRight
    <3> QED
      BY <2>1, <3>4 DEF OperandValue
  <2>2. CASE j = 0
    BY <2>2 DEF OperandValue, Value, Inlined
  <2>3. CASE ~Inlined(j) /\ j # 0
    <3>1. /\ j \in Nat /\ j < o[2] /\ j \in DOMAIN block /\ block[j].op \in ValueOps
          /\ Uses(j) # {}
      BY <1>1, <2>3, OperandFacts
    <3>2. o[2] \in Nat /\ s.at \in Nat
      BY <1>1, RootPlace DEF ShapeInv, IOInv
    <3>3. j < s.at
      BY <1>1, <3>1, <3>2
    <3>4. vars[j] = Value(j)
      BY <2>3, <3>1, <3>3, Assigned
    <3> QED
      BY <2>3, <3>4 DEF OperandValue
  <2> QED
    BY <2>1, <2>2, <2>3
<1> QED
  BY <1>2 DEF OperandValues

-----------------------------------------------------------------------------
(* The order of effects. *)

\* What runs once is evaluated behind everything that LLVM runs before it, and
\* so is a load.
LEMMA EarlierExecuted ==
  ASSUME ShapeInv, Translated, CallsInPlace, DoneRight, running \in DOMAIN stmts,
         NEW o \in Occurrences(stmts[running]), Ready(stmts[running], o),
         block[o[2]].op \in Once \cup {"load"},
         NEW e \in DOMAIN block, block[e].op \in Once, e < o[2]
  PROVE  IsExecuted(e)
<1> DEFINE s == stmts[running]
           i == o[2]
<1>1. InPlace(e)
  BY OnceInPlace
<1>2. PICK y \in DOMAIN stmts : \E r \in Occurrences(stmts[y]) : r[2] = e
  BY <1>1, SomePlace
<1>3. PICK r \in Occurrences(stmts[y]) : r[2] = e
  BY <1>2
<1>4. /\ i \in DOMAIN block /\ i <= s.at /\ e <= stmts[y].at
      /\ (r[1] = <<>> => stmts[y].at = e) /\ (r[1] # <<>> => Inlined(e))
  BY <1>3, OccurrenceFacts
<1>5. i \in Nat /\ s.at \in Nat /\ stmts[y].at \in Nat /\ e \in Nat
  BY <1>4, RootPlace DEF ShapeInv, IOInv
<1>6. ASSUME stmts[y].at < i PROVE y < running
  <2>1. stmts[y].at < s.at
    BY <1>4, <1>5, <1>6
  <2> QED
    BY <2>1, StatementFacts
<1>7. ASSUME y < running PROVE IsExecuted(e)
  BY <1>3, <1>7 DEF IsExecuted
<1>8. CASE ~Inlined(e)
  BY <1>4, <1>6, <1>7, <1>8
<1>9. CASE Inlined(e) /\ block[i].op = "load"
  <2>1. block[e].op = "call"
    BY <1>9 DEF ShapeInv, StatementShape, MayBeInlined, Once
  <2>2. i \in e..Len(block)
    BY <1>4, <1>5, StatementFacts
  <2>3. PICK t \in Chain(e) : t < i /\ ~Inlined(t)
    BY <1>9, <2>1, <2>2 DEF CallsInPlace
  <2>4. t = stmts[y].at
    BY <1>3, <2>3, ChainEnd
  <2> QED
    BY <1>6, <1>7, <2>3, <2>4
<1>10. CASE Inlined(e) /\ block[i].op \in Once
  <2>1. CASE stmts[y].at < i
    BY <1>6, <1>7, <2>1
  <2>2. CASE i <= stmts[y].at
    <3>1. InPlace(i) /\ block[i].op \notin ReadOnly
      BY <1>4, <1>10, OnceInPlace DEF Once, ReadOnly
    <3>2. \E q \in Occurrences(stmts[y]) : q[2] = i
      <4> SUFFICES ASSUME \A q \in Occurrences(stmts[y]) : q[2] # i PROVE FALSE
        OBVIOUS
      <4>1. Closed({}, y)
        BY DEF Closed
      <4>2. r[1] \in {}
        BY <1>3, <1>4, <2>2, <3>1, <4>1, Barrier
      <4> QED
        BY <4>2
    <3>3. PICK q \in Occurrences(stmts[y]) : q[2] = i
      BY <3>2
    <3>4. y = running
      BY <1>4, <3>1, <3>3, OnePlace
    <3>5. ASSUME NEW w \in Occurrences(s), w[2] = i PROVE w = o
      <4>1. w[1] = o[1]
        BY <1>4, <3>1, <3>5, OnePlace
      <4> QED
        BY <4>1, PathsDistinct
    <3>6. Closed(DOMAIN done, running)
      BY DEF DoneRight
    <3>7. \A w \in Occurrences(s) :
            w[2] = i => \A k \in Nested(s, w) : Append(w[1], k) \in DOMAIN done
      BY <3>5 DEF Ready
    <3>8. r[1] \in DOMAIN done
      BY <1>3, <1>4, <3>1, <3>4, <3>6, <3>7, Barrier
    <3> QED
      BY <1>3, <3>4, <3>8 DEF IsExecuted
  <2> QED
    BY <1>5, <2>1, <2>2
<1> QED
  BY <1>8, <1>9, <1>10

\* Nothing that LLVM runs later has been evaluated.
LEMMA ExecutedEarlier ==
  ASSUME ShapeInv, Translated, CallsInPlace, DoneRight, running \in DOMAIN stmts,
         NEW o \in Occurrences(stmts[running]), Ready(stmts[running], o),
         NEW e \in DOMAIN block, block[e].op \in Once, IsExecuted(e)
  PROVE  e < o[2]
<1> DEFINE s == stmts[running]
           i == o[2]
<1>1. InPlace(e) /\ block[e].op \notin ReadOnly
  BY OnceInPlace DEF Once, ReadOnly
<1>2. PICK y \in DOMAIN stmts : \E r \in Occurrences(stmts[y]) :
              r[2] = e /\ (y < running \/ (y = running /\ r[1] \in DOMAIN done))
  BY DEF IsExecuted
<1>3. PICK r \in Occurrences(stmts[y]) :
              r[2] = e /\ (y < running \/ (y = running /\ r[1] \in DOMAIN done))
  BY <1>2
<1>4. /\ i \in DOMAIN block /\ i <= s.at /\ e <= stmts[y].at
  BY <1>3, OccurrenceFacts
<1>5. i \in Nat /\ s.at \in Nat /\ stmts[y].at \in Nat /\ e \in Nat
  BY <1>4, RootPlace DEF ShapeInv, IOInv
<1>6. e <= s.at
  <2>1. y \in Nat /\ running \in Nat /\ y <= running
    BY <1>3, StatementFacts
  <2>2. stmts[y].at <= s.at
    BY <2>1 DEF ShapeInv, StatementShape, InOrder
  <2> QED
    BY <1>4, <1>5, <2>2
<1>7. Closed(DOMAIN done, running) /\ o[1] \notin DOMAIN done
  BY DEF DoneRight, Ready
<1>8. ASSUME NEW q \in Occurrences(s), q[2] = e
      PROVE  y = running /\ q[1] = r[1] /\ q[1] \in DOMAIN done
  <2>1. y = running /\ q[1] = r[1]
    BY <1>1, <1>3, <1>8, OnePlace
  <2>2. ~(y < running)
    BY <2>1, StatementFacts
  <2> QED
    BY <1>3, <2>1, <2>2
<1>9. i # e
  BY <1>7, <1>8
<1>10. ~(i < e)
  <2> SUFFICES ASSUME i < e PROVE FALSE
    OBVIOUS
  <2>1. \A q \in Occurrences(s) :
          q[2] = e => \A k \in Nested(s, q) : Append(q[1], k) \in DOMAIN done
    BY <1>7, <1>8 DEF Closed
  <2>2. o[1] \in DOMAIN done
    BY <1>1, <1>6, <1>7, <2>1, Barrier
  <2> QED
    BY <1>7, <2>2
<1> QED
  BY <1>5, <1>9, <1>10

\* A load or an effect finds memory as LLVM's does.
LEMMA MemoryRight ==
  ASSUME ShapeInv, Translated, CallsInPlace, DoneRight, EffectsRight, running \in DOMAIN stmts,
         NEW o \in Occurrences(stmts[running]), Ready(stmts[running], o),
         block[o[2]].op \in Once \cup {"load"}
  PROVE  mem = History[o[2]-1].mem /\ trace = History[o[2]-1].trace
<1> DEFINE i == o[2]
<1>1. PICK n \in 0..Len(block) :
        /\ mem = History[n].mem /\ trace = History[n].trace
        /\ \A e \in DOMAIN block : block[e].op \in Once => (e <= n <=> IsExecuted(e))
  BY DEF EffectsRight
<1>2. i \in DOMAIN block /\ DOMAIN block = 1..Len(block) /\ Len(block) \in Nat
  BY OccurrenceFacts, StatementFacts
<1>3. i - 1 \in 0..Len(block) /\ i \in Nat
  BY <1>2
<1>4. \A e \in DOMAIN block : block[e].op \in Once /\ e < i => IsExecuted(e)
  BY EarlierExecuted
<1>5. \A e \in DOMAIN block : block[e].op \in Once /\ IsExecuted(e) => e < i
  BY ExecutedEarlier
<1> HIDE DEF i
<1>6. \A e \in DOMAIN block : block[e].op \in Once => (e <= n <=> e < i)
  BY <1>1, <1>4, <1>5
<1>7. CASE n <= i - 1
  <2>1. \A e \in DOMAIN block : n < e /\ e <= i - 1 => block[e].op \notin Once
    BY <1>2, <1>3, <1>6
  <2>2. History[n].mem = History[i-1].mem /\ History[n].trace = History[i-1].trace
    BY <1>3, <1>7, <2>1, HistoryQuiet
  <2> QED
    BY <1>1, <2>2 DEF i
<1>8. CASE i - 1 <= n
  <2>1. \A e \in DOMAIN block : i - 1 < e /\ e <= n => block[e].op \notin Once
    BY <1>2, <1>3, <1>6
  <2>2. History[i-1].mem = History[n].mem /\ History[i-1].trace = History[n].trace
    BY <1>3, <1>8, <2>1, HistoryQuiet
  <2> QED
    BY <1>1, <2>2 DEF i
<1> QED
  BY <1>3, <1>7, <1>8

\* An operand, or a statement that is no half of an insertvalue, has the outcome
\* that the instruction has in LLVM.
LEMMA OutcomeRight ==
  ASSUME ShapeInv, Translated, CallsInPlace, RunRight, running \in DOMAIN stmts,
         NEW o \in Occurrences(stmts[running]), Ready(stmts[running], o),
         ~Halves(stmts[running], o)
  PROVE  LET e == Outcome(stmts[running], o) IN
           /\ e.v = Value(o[2])
           /\ block[o[2]].op \in Once =>
                e.mem = History[o[2]].mem /\ e.trace = History[o[2]].trace
           /\ block[o[2]].op \notin Once => e.mem = mem /\ e.trace = trace
<1> DEFINE s == stmts[running]
           i == o[2]
           e == Outcome(s, o)
           h == History[i-1]
<1>1. DoneRight /\ VarsRight /\ EffectsRight
  BY DEF RunRight
<1>2. i \in DOMAIN block
  BY OccurrenceFacts
<1>3. OperandsOf(s, o) = Slots(i)
  BY DEF Halves, OperandsOf, SlotsOf
<1>4. OperandValues(s, o) = [k \in DOMAIN Slots(i) |-> Value(Slots(i)[k])]
  BY <1>1, <1>3, OperandsRight
<1>5. e = Effect(i, OperandValues(s, o), mem, trace)
  BY DEF Outcome
<1> HIDE DEF e, i, s
<1>6. e = Effect(i, LlvmOperands(i), mem, trace)
  BY <1>2, <1>4, <1>5, SameEffect
<1> DEFINE f == Effect(i, LlvmOperands(i), h.mem, h.trace)
<1>7. Value(i) = f.v /\ History[i].mem = f.mem /\ History[i].trace = f.trace
  BY <1>2, LlvmInstruction
<1>8. CASE block[i].op \in Once \cup {"load"}
  <2>1. mem = h.mem /\ trace = h.trace
    BY <1>1, <1>8, MemoryRight DEF i, s
  <2>2. e = f
    BY <1>6, <2>1
  <2>3. block[i].op \notin Once => e.mem = mem /\ e.trace = trace
    BY <1>6, EffectQuiet
  <2> HIDE DEF f
  <2> QED
    BY <1>7, <2>2, <2>3 DEF e, i, s
<1>9. CASE block[i].op \notin Once \cup {"load"}
  <2>1. e.v = f.v
    BY <1>6, <1>9, EffectBlind
  <2>2. e.mem = mem /\ e.trace = trace
    BY <1>6, <1>9, EffectQuiet
  <2> HIDE DEF f
  <2> QED
    BY <1>7, <1>9, <2>1, <2>2 DEF e, i, s
<1> QED
  BY <1>8, <1>9

-----------------------------------------------------------------------------
(* One step of the C text. *)

\* Occurrences depend on the translated block alone.
LEMMA OccurrencesSame ==
  ASSUME block' = block, expr' = expr, NEW s
  PROVE  Occurrences(s)' = Occurrences(s)
BY DEF Occurrences, SlotsOf, Slots, Inlined

\* What is executed by evaluating an occurrence is its instruction.
LEMMA ExecutedNext ==
  ASSUME ShapeInv, DoneRight, running \in DOMAIN stmts,
         NEW o \in Occurrences(stmts[running]), Ready(stmts[running], o),
         UNCHANGED <<block, next, expr, stmts>>,
         o[1] # <<>> => DOMAIN done' = DOMAIN done \cup {o[1]} /\ running' = running,
         o[1] = <<>> => DOMAIN done' = {} /\ running' = running + 1,
         NEW e
  PROVE  IsExecuted(e)' <=> IsExecuted(e) \/ e = o[2]
<1> DEFINE s == stmts[running]
<1>1. /\ block' = block /\ expr' = expr /\ stmts' = stmts
      /\ running \in Nat /\ DOMAIN stmts \subseteq Nat
  BY StatementFacts
<1>2. \A t : Occurrences(t)' = Occurrences(t)
  BY <1>1, OccurrencesSame
<1>3. IsExecuted(e)' <=> \E x \in DOMAIN stmts : \E r \in Occurrences(stmts[x]) :
        r[2] = e /\ (x < running' \/ (x = running' /\ r[1] \in DOMAIN done'))
  BY <1>1, <1>2 DEF IsExecuted
<1>4. CASE o[1] # <<>>
  <2>1. \A r \in Occurrences(s) : r[1] = o[1] => r = o
    BY PathsDistinct
  <2> QED
    BY <1>3, <1>4, <2>1 DEF IsExecuted
<1>5. CASE o[1] = <<>>
  <2>1. \A r \in Occurrences(s) : r[1] = <<>> \/ r[1] \in DOMAIN done
    BY <1>5, AllDone DEF Ready, DoneRight
  <2>2. \A r \in Occurrences(s) : r[1] = <<>> => r = o
    BY <1>5, PathsDistinct
  <2>3. \A x \in DOMAIN stmts : (x < running + 1 <=> x < running \/ x = running)
    BY <1>1
  <2>4. IsExecuted(e)' <=> \E x \in DOMAIN stmts : \E r \in Occurrences(stmts[x]) :
          r[2] = e /\ (x < running \/ x = running)
    BY <1>3, <1>5, <2>3
  <2> QED
    BY <2>1, <2>2, <2>4 DEF IsExecuted
<1> QED
  BY <1>4, <1>5

\* Memory and the trace stay those of LLVM after as many instructions.
LEMMA EffectsNext ==
  ASSUME ShapeInv, Translated, CallsInPlace, RunRight, running \in DOMAIN stmts,
         NEW o \in Occurrences(stmts[running]), Ready(stmts[running], o),
         UNCHANGED <<block, next, expr, stmts>>,
         mem' = Outcome(stmts[running], o).mem, trace' = Outcome(stmts[running], o).trace,
         o[1] # <<>> => DOMAIN done' = DOMAIN done \cup {o[1]} /\ running' = running,
         o[1] = <<>> => DOMAIN done' = {} /\ running' = running + 1
  PROVE  EffectsRight'
<1> DEFINE i == o[2]
           s == stmts[running]
<1>0. DoneRight /\ EffectsRight /\ block' = block
  BY DEF RunRight
<1>1. /\ i \in DOMAIN block /\ DOMAIN block = 1..Len(block) /\ Len(block) \in Nat
      /\ (o[1] = <<>> => i = s.at)
  BY OccurrenceFacts, StatementFacts
<1>2. \A e : IsExecuted(e)' <=> IsExecuted(e) \/ e = i
  BY <1>0, ExecutedNext
<1>3. History' = History
  BY <1>0 DEF History, IsHistory, LlvmStep, LlvmStart, Effect, Term, Constant
<1>4. CASE block[i].op \in Once
  <2>1. ~Halves(s, o)
    BY <1>1, <1>4 DEF Halves, ShapeInv, StatementShape, Fits, Once
  <2>2. mem' = History[i].mem /\ trace' = History[i].trace
    BY <1>4, <2>1, OutcomeRight
  <2>3. \A e \in DOMAIN block : block[e].op \in Once /\ e < i => IsExecuted(e)
    BY <1>0, <1>4, EarlierExecuted
  <2>4. \A e \in DOMAIN block : block[e].op \in Once /\ IsExecuted(e) => e < i
    BY <1>0, ExecutedEarlier
  <2> HIDE DEF i
  <2>5. \A e \in DOMAIN block : block[e].op \in Once => (e <= i <=> IsExecuted(e)')
    <3> SUFFICES ASSUME NEW e \in DOMAIN block, block[e].op \in Once
                 PROVE  e <= i <=> IsExecuted(e)'
      OBVIOUS
    <3>1. e <= i <=> e < i \/ e = i
      BY <1>1
    <3>2. e < i <=> IsExecuted(e)
      BY <2>3, <2>4
    <3> QED
      BY <1>2, <3>1, <3>2
  <2>6. i \in 0..Len(block)
    BY <1>1
  <2> QED
    BY <1>0, <1>3, <2>2, <2>5, <2>6 DEF EffectsRight
<1>5. CASE block[i].op \notin Once
  <2>1. mem' = mem /\ trace' = trace
    <3>1. CASE Halves(s, o)
      BY <3>1 DEF Outcome
    <3>2. CASE ~Halves(s, o)
      BY <1>5, <3>2, OutcomeRight
    <3> QED
      BY <3>1, <3>2
  <2>2. \A e \in DOMAIN block : block[e].op \in Once => (IsExecuted(e)' <=> IsExecuted(e))
    BY <1>2, <1>5
  <2>3. PICK n \in 0..Len(block) :
          /\ mem = History[n].mem /\ trace = History[n].trace
          /\ \A e \in DOMAIN block : block[e].op \in Once => (e <= n <=> IsExecuted(e))
    BY <1>0 DEF EffectsRight
  <2>4. \A e \in DOMAIN block : block[e].op \in Once => (e <= n <=> IsExecuted(e)')
    BY <2>2, <2>3
  <2> QED
    BY <1>0, <1>3, <2>1, <2>3, <2>4 DEF EffectsRight
<1> QED
  BY <1>4, <1>5

\* LLVM's values depend on the block alone.
LEMMA ValueSame ==
  ASSUME block' = block, NEW i
  PROVE  Value(i)' = Value(i)
<1>1. History' = History
  BY DEF History, IsHistory, LlvmStep, LlvmStart, Effect, Term, Constant
<1> QED
  BY <1>1 DEF Value, Constant, Term

\* What has been evaluated of the running statement keeps LLVM's values.
LEMMA DoneNext ==
  ASSUME ShapeInv, Translated, CallsInPlace, RunRight, running \in DOMAIN stmts,
         NEW o \in Occurrences(stmts[running]), Ready(stmts[running], o),
         UNCHANGED <<block, next, expr, stmts>>,
         o[1] # <<>> =>
           /\ done' = [q \in DOMAIN done \cup {o[1]} |->
                         IF q = o[1] THEN Outcome(stmts[running], o).v ELSE done[q]]
           /\ running' = running,
         o[1] = <<>> => done' = << >>
  PROVE  DoneRight'
<1> DEFINE s == stmts[running]
<1>0. DoneRight /\ block' = block /\ expr' = expr /\ stmts' = stmts
  BY DEF RunRight
<1>1. \A t : Occurrences(t)' = Occurrences(t)
  BY <1>0, OccurrencesSame
<1>2. \A t, r : Nested(t, r)' = Nested(t, r)
  BY <1>0 DEF Nested, OperandsOf, SlotsOf, Slots, Inlined
<1>3. \A i : Value(i)' = Value(i)
  BY <1>0, ValueSame
<1>4. CASE o[1] = <<>>
  <2>1. DOMAIN done' = {}
    BY <1>4
  <2> QED
    BY <2>1 DEF DoneRight, Closed
<1>5. CASE o[1] # <<>>
  <2>1. /\ running' = running /\ DOMAIN done' = DOMAIN done \cup {o[1]}
        /\ done'[o[1]] = Outcome(s, o).v
        /\ \A q \in DOMAIN done : q # o[1] => done'[q] = done[q]
    BY <1>5
  <2>2. Outcome(s, o).v = Value(o[2])
    BY <1>5, OutcomeRight DEF Halves
  <2>3. \A r \in Occurrences(s) : r[1] = o[1] => r = o
    BY PathsDistinct
  <2>4. \A r \in Occurrences(s) : r[1] \in DOMAIN done' => done'[r[1]] = Value(r[2])
    BY <1>0, <2>1, <2>2, <2>3 DEF DoneRight
  <2>5. \A r \in Occurrences(s) :
          r[1] \in DOMAIN done' => \A k \in Nested(s, r) : Append(r[1], k) \in DOMAIN done'
    BY <1>0, <2>1, <2>3 DEF DoneRight, Closed, Ready
  <2>6. \A p \in DOMAIN done' : p # <<>> /\ running' \in DOMAIN stmts'
    BY <1>0, <1>5, <2>1 DEF DoneRight
  <2> QED
    BY <1>0, <1>1, <1>2, <1>3, <2>1, <2>4, <2>5, <2>6 DEF DoneRight, Closed
<1> QED
  BY <1>4, <1>5

\* The variable of an insertvalue, between its two statements and behind them.
LEMMA HalvesRight ==
  ASSUME ShapeInv, Translated, RunRight, running \in DOMAIN stmts,
         NEW o \in Occurrences(stmts[running]), Ready(stmts[running], o),
         Halves(stmts[running], o)
  PROVE  LET s == stmts[running]
             a == block[o[2]].args IN
           /\ s.kind = "init" => Outcome(s, o).v = Value(a[1])
           /\ s.kind = "field" =>
                Term("insertvalue", 0, <<vars[o[2]], Outcome(s, o).v>>) = Value(o[2])
<1> DEFINE s == stmts[running]
           i == o[2]
           a == block[i].args
<1>1. DoneRight /\ VarsRight
  BY DEF RunRight
<1>2. i \in DOMAIN block /\ i = s.at
  BY OccurrenceFacts DEF Halves
<1>3. block[i].op = "insertvalue" /\ a \in Seq(Nat) /\ DOMAIN a = 1..2 /\ Len(a) = 2
  <2>1. block[i].op = "insertvalue"
    BY <1>2 DEF Halves, ShapeInv, StatementShape, Fits
  <2> QED
    BY <1>2, <2>1, ArgsShape
<1>4. OperandValues(s, o) = [k \in DOMAIN OperandsOf(s, o) |-> Value(OperandsOf(s, o)[k])]
  BY <1>1, OperandsRight
<1>5. Outcome(s, o).v = OperandValues(s, o)[1]
  BY DEF Outcome
<1>6. CASE s.kind = "init"
  <2>1. OperandsOf(s, o) = <<a[1]>>
    BY <1>6 DEF OperandsOf, SlotsOf, Halves
  <2>2. OperandValues(s, o)[1] = Value(a[1])
    BY <1>4, <2>1
  <2> QED
    BY <1>5, <1>6, <2>2
<1>7. CASE s.kind = "field"
  <2>1. OperandsOf(s, o) = <<a[2]>>
    BY <1>7 DEF OperandsOf, SlotsOf, Halves
  <2>2. Outcome(s, o).v = Value(a[2])
    BY <1>4, <1>5, <2>1
  <2>3. vars[i] = Value(a[1])
    BY <1>1, <1>2, <1>7 DEF VarsRight
  <2>4. Value(i) = Effect(i, LlvmOperands(i), History[i-1].mem, History[i-1].trace).v
    BY <1>2, LlvmInstruction
  <2>5. LlvmOperands(i) = <<Value(a[1]), Value(a[2])>>
    <3>1. LlvmOperands(i) = [k \in 1..2 |-> Value(a[k])]
      BY <1>3 DEF LlvmOperands
    <3> HIDE DEF a
    <3> QED
      BY <3>1
  <2>6. \A ws, m, tr : Effect(i, ws, m, tr).v = Term("insertvalue", 0, SubSeq(ws, 1, Len(a)))
    BY <1>3 DEF Effect
  <2>7. Len(a) = 2
    BY <1>3
  <2> DEFINE A == {Value(a[1]), Value(a[2])}
             w == <<Value(a[1]), Value(a[2])>>
  <2>8. w \in Seq(A) /\ Len(w) = 2
    OBVIOUS
  <2>9. SubSeq(w, 1, 2) = w
    <3> HIDE DEF A, w
    <3>1. SubSeq(w, 1, 2) = [k \in 1..2 |-> w[k]] /\ w = [k \in 1..2 |-> w[k]]
      BY <2>8
    <3> QED
      BY <3>1
  <2>10. Value(i) = Term("insertvalue", 0, w)
    BY <2>4, <2>5, <2>6, <2>7, <2>9
  <2> QED
    BY <1>7, <2>2, <2>3, <2>10
<1> QED
  BY <1>6, <1>7 DEF Halves

\* Variables keep the values of the instructions they stand for.
LEMMA VarsNext ==
  ASSUME ShapeInv, Translated, CallsInPlace, RunRight, running \in DOMAIN stmts,
         NEW o \in Occurrences(stmts[running]), Ready(stmts[running], o),
         UNCHANGED <<block, next, expr, stmts>>,
         o[1] # <<>> => UNCHANGED <<vars, running>>,
         o[1] = <<>> => running' = running + 1 /\ vars' = NewVars(stmts[running], o)
  PROVE  VarsRight'
<1> DEFINE s == stmts[running]
           i == o[2]
<1>0. VarsRight /\ block' = block /\ stmts' = stmts
  BY DEF RunRight
<1>1. \A j : Value(j)' = Value(j)
  BY <1>0, ValueSame
<1>2. CASE o[1] # <<>>
  BY <1>0, <1>1, <1>2 DEF VarsRight
<1>3. CASE o[1] = <<>>
  <2>1. /\ i \in DOMAIN block /\ i = s.at /\ running' = running + 1
        /\ vars' = NewVars(s, o) /\ running \in Nat /\ DOMAIN stmts \subseteq Nat
    BY <1>3, OccurrenceFacts, StatementFacts
  <2>2. i \in DOMAIN vars /\ \E A : vars \in Seq(A)
    BY <2>1, StatementFacts DEF ShapeInv, VarsShape
  <2>3. ASSUME NEW j, j # i
        PROVE  vars'[j] = vars[j]
    BY <2>1, <2>3 DEF NewVars
  <2>4. ASSUME NEW x \in DOMAIN stmts, x < running, stmts[x].kind \in {"assign", "field"}
        PROVE  stmts[x].at # i
    <3> SUFFICES ASSUME stmts[x].at = i PROVE FALSE
      OBVIOUS
    <3>1. x # running /\ x \in Nat
      BY <2>1, <2>4
    <3>2. stmts[x].kind = "field" /\ s.kind = "init"
      BY <2>1, <2>4, <3>1, TwoStatements
    <3>3. x > 1 /\ stmts[x-1] = Statement("init", i)
      BY <3>2 DEF ShapeInv, StatementShape, Fits
    <3>4. x - 1 \in DOMAIN stmts /\ x - 1 # running
      BY <2>1, <2>4, <3>1, <3>3, StatementFacts
    <3>5. stmts[x-1].at = i /\ stmts[x-1].kind = "init"
      BY <3>3 DEF Statement
    <3> QED
      BY <2>1, <3>2, <3>4, <3>5, TwoStatements
  <2>6. s.kind = "assign" => vars'[i] = Value(i)
    <3> SUFFICES ASSUME s.kind = "assign" PROVE vars'[i] = Value(i)
      OBVIOUS
    <3>1. vars'[i] = Outcome(s, o).v
      BY <2>1, <2>2 DEF NewVars
    <3>2. Outcome(s, o).v = Value(i)
      BY OutcomeRight DEF Halves
    <3> QED
      BY <3>1, <3>2
  <2>7. s.kind = "field" => vars'[i] = Value(i)
    <3> SUFFICES ASSUME s.kind = "field" PROVE vars'[i] = Value(i)
      OBVIOUS
    <3>1. vars'[i] = Term("insertvalue", 0, <<vars[i], Outcome(s, o).v>>)
      BY <2>1, <2>2 DEF NewVars
    <3>2. Halves(s, o)
      BY <1>3 DEF Halves
    <3> QED
      BY <3>1, <3>2, HalvesRight
  <2>8. s.kind = "init" => vars'[i] = Value(block[i].args[1])
    <3> SUFFICES ASSUME s.kind = "init" PROVE vars'[i] = Value(block[i].args[1])
      OBVIOUS
    <3>1. vars'[i] = Outcome(s, o).v
      BY <2>1, <2>2 DEF NewVars
    <3>2. Halves(s, o)
      BY <1>3 DEF Halves
    <3> QED
      BY <3>1, <3>2, HalvesRight
  <2>9. ASSUME NEW x \in DOMAIN stmts, x < running', stmts[x].kind \in {"assign", "field"}
        PROVE  vars'[stmts[x].at] = Value(stmts[x].at)
    <3>1. CASE x < running
      BY <1>0, <2>3, <2>4, <2>9, <3>1 DEF VarsRight
    <3>2. CASE x = running
      BY <2>1, <2>6, <2>7, <2>9, <3>2
    <3> QED
      BY <2>1, <2>9, <3>1, <3>2
  <2>10. ASSUME running' \in DOMAIN stmts, stmts[running'].kind = "field"
         PROVE  vars'[stmts[running'].at] = Value(block[stmts[running'].at].args[1])
    <3>1. running' > 1 /\ stmts[running'-1] = Statement("init", stmts[running'].at)
      BY <2>10 DEF ShapeInv, StatementShape, Fits
    <3>2. running' - 1 = running
      BY <2>1
    <3>3. s.kind = "init" /\ s.at = stmts[running'].at
      BY <3>1, <3>2 DEF Statement
    <3> QED
      BY <2>1, <2>8, <3>3
  <2> QED
    BY <1>0, <1>1, <2>9, <2>10 DEF VarsRight
<1> QED
  BY <1>2, <1>3

-----------------------------------------------------------------------------
(* The invariant of the run. *)

\* Running the C text does not disturb the shape.
LEMMA ShapeElsewhere ==
  ASSUME ShapeInv, Translated, UNCHANGED <<block, next, expr, stmts>>, IOInv', VarsShape'
  PROVE  ShapeInv'
<1>1. block' = block /\ next' = next /\ expr' = expr /\ stmts' = stmts
  OBVIOUS
<1>2. BlockShape'
  BY <1>1 DEF ShapeInv, BlockShape, Arities
<1>3. StatementShape'
  BY <1>1 DEF ShapeInv, StatementShape, Fits, InOrder, MayBeInlined, Inlined, Uses, Statement
<1>4. Translated'
  BY <1>1 DEF Translated, Complete
<1> QED
  BY <1>2, <1>3, <1>4 DEF ShapeInv

\* An assignment keeps the number of variables.
LEMMA VarsShapeNext ==
  ASSUME VarsShape, block' = block, NEW i, NEW v, vars' = [vars EXCEPT ![i] = v]
  PROVE  VarsShape'
<1>1. PICK A : vars \in Seq(A) /\ Len(vars) = Len(block)
  BY DEF VarsShape
<1>2. vars \in Seq(A \cup {v})
  BY <1>1, WiderSeq
<1>3. vars' \in Seq(A \cup {v}) /\ Len(vars') = Len(vars)
  <2> PICK B : B = A \cup {v}
    OBVIOUS
  <2>1. PICK n \in Nat : n = Len(vars)
    BY <1>2
  <2>2. vars \in [1..n -> B] /\ v \in B
    BY <1>2, <2>1
  <2>3. vars' \in [1..n -> B]
    BY <2>2
  <2>4. vars' \in Seq(B) /\ Len(vars') = n
    <3>1. PICK w : w = vars'
      OBVIOUS
    <3>2. w \in [1..n -> B]
      BY <2>3, <3>1
    <3>3. w \in Seq(B) /\ Len(w) = n
      BY <3>2
    <3> QED
      BY <3>1, <3>3
  <2> QED
    BY <2>1, <2>4
<1> QED
  BY <1>1, <1>3 DEF VarsShape

\* Every step of the C text keeps the shape.
LEMMA ShapeEvaluate ==
  ASSUME ShapeInv, Evaluate
  PROVE  ShapeInv'
<1>1. /\ Translated /\ UNCHANGED <<block, next, expr, stmts>>
      /\ \/ vars' = vars
         \/ \E o : vars' = NewVars(stmts[running], o)
  BY EvaluateOne
<1>2. IOInv'
  BY InvNext DEF IONext, ShapeInv
<1>3. VarsShape /\ block' = block
  BY <1>1 DEF ShapeInv
<1>4. CASE vars' = vars
  <2>1. VarsShape'
    BY <1>3, <1>4 DEF VarsShape
  <2> QED
    BY <1>1, <1>2, <2>1, ShapeElsewhere
<1>5. ASSUME NEW o, vars' = NewVars(stmts[running], o)
      PROVE  ShapeInv'
  <2>1. vars' = vars \/ \E v : vars' = [vars EXCEPT ![o[2]] = v]
    BY <1>5 DEF NewVars
  <2>2. VarsShape'
    <3>1. ASSUME NEW v, vars' = [vars EXCEPT ![o[2]] = v] PROVE VarsShape'
      <4>1. PICK i : i = o[2]
        OBVIOUS
      <4> QED
        BY <1>3, <3>1, <4>1, VarsShapeNext
    <3> QED
      BY <1>3, <2>1, <3>1 DEF VarsShape
  <2> QED
    BY <1>1, <1>2, <2>2, ShapeElsewhere
<1> QED
  BY <1>1, <1>4, <1>5

\* Before the C text runs nothing has been evaluated, as in LLVM before the block.
LEMMA FreshRuns == ShapeInv /\ Fresh => RunRight
<1> SUFFICES ASSUME ShapeInv, Fresh PROVE RunRight
  OBVIOUS
<1>1. /\ running = 1 /\ DOMAIN done = {} /\ mem = Constant /\ trace = <<>>
  BY DEF Fresh
<1>2. /\ DOMAIN stmts = 1..Len(stmts) /\ Len(stmts) \in Nat /\ IOInv
      /\ DOMAIN block = 1..Len(block) /\ Len(block) \in Nat
  BY StatementFacts
<1>3. DoneRight
  BY <1>1 DEF DoneRight, Closed
<1>4. VarsRight
  <2>1. ~(running \in DOMAIN stmts /\ stmts[running].kind = "field")
    BY <1>1 DEF ShapeInv, StatementShape, Fits
  <2>2. \A x \in DOMAIN stmts : ~(x < running)
    BY <1>1, <1>2
  <2> QED
    BY <2>1, <2>2 DEF VarsRight
<1>5. EffectsRight
  <2>1. History[0].mem = Constant /\ History[0].trace = <<>>
    BY <1>2, HistorySteps DEF LlvmStart
  <2>2. \A e \in DOMAIN block : ~(e <= 0) /\ ~IsExecuted(e)
    BY <1>1, <1>2 DEF IsExecuted
  <2>3. 0 \in 0..Len(block)
    BY <1>2
  <2> QED
    BY <1>1, <2>1, <2>2, <2>3 DEF EffectsRight
<1> QED
  BY <1>3, <1>4, <1>5 DEF RunRight

\* Every step of the C text keeps its agreement with LLVM's run.
LEMMA RunEvaluate ==
  ASSUME ShapeInv, Evaluate, CallsInPlace, RunRight
  PROVE  RunRight'
<1>1. /\ Translated /\ running <= Len(stmts) /\ UNCHANGED <<block, next, expr, stmts>>
  BY EvaluateOne
<1>2. running \in DOMAIN stmts
  BY <1>1, StatementFacts
<1> DEFINE s == stmts[running]
<1>3. PICK o \in Occurrences(s) :
        /\ Ready(s, o)
        /\ mem' = Outcome(s, o).mem /\ trace' = Outcome(s, o).trace
        /\ o[1] # <<>> =>
             /\ done' = [q \in DOMAIN done \cup {o[1]} |->
                           IF q = o[1] THEN Outcome(s, o).v ELSE done[q]]
             /\ UNCHANGED <<vars, running>>
        /\ o[1] = <<>> =>
             /\ done' = << >> /\ running' = running + 1
             /\ vars' = NewVars(s, o)
  BY EvaluateOne
<1>4. /\ o[1] # <<>> => DOMAIN done' = DOMAIN done \cup {o[1]} /\ running' = running
      /\ o[1] = <<>> => DOMAIN done' = {} /\ running' = running + 1
  BY <1>3
<1>5. EffectsRight'
  BY <1>1, <1>2, <1>3, <1>4, EffectsNext
<1>6. DoneRight'
  BY <1>1, <1>2, <1>3, DoneNext
<1>7. VarsRight'
  BY <1>1, <1>2, <1>3, VarsNext
<1> QED
  BY <1>5, <1>6, <1>7 DEF RunRight

\* The invariant holds initially.
LEMMA RunInvInit == IOInit => RunInv
<1>1. IOInit => Fresh
  BY DEF IOInit, Fresh
<1> QED
  BY <1>1, ShapeInit, FreshRuns DEF RunInv

\* Every step keeps it.
LEMMA RunInvNext == RunInv /\ [IONext]_ioVars => RunInv'
<1> SUFFICES ASSUME RunInv, [IONext]_ioVars PROVE RunInv'
  OBVIOUS
<1>0. ShapeInv
  BY DEF RunInv
<1>1. CASE Choose
  <2>1. ShapeInv'
    BY <1>0, <1>1, ShapeChoose
  <2>2. ShapeInv' /\ Fresh' => RunRight'
    BY FreshRuns, PTL
  <2>3. Fresh'
    BY <1>0, <1>1 DEF Choose, ShapeInv, Translated, Fresh
  <2> QED
    BY <2>1, <2>2, <2>3 DEF RunInv
<1>2. CASE Translate
  <2>1. ShapeInv' /\ Fresh'
    BY <1>0, <1>2, ShapeTranslate
  <2>2. ShapeInv' /\ Fresh' => RunRight'
    BY FreshRuns, PTL
  <2> QED
    BY <2>1, <2>2 DEF RunInv
<1>3. CASE Evaluate
  <2>1. ShapeInv'
    BY <1>0, <1>3, ShapeEvaluate
  <2>2. Translated /\ block' = block /\ expr' = expr
    BY <1>3 DEF Evaluate
  <2>3. CallsInPlace' = CallsInPlace
    BY <2>2 DEF CallsInPlace, Chain, Inlined, Uses
  <2>4. CallsInPlace => RunRight'
    BY <1>0, <1>3, <2>2, RunEvaluate DEF RunInv
  <2> QED
    BY <2>1, <2>3, <2>4 DEF RunInv
<1>4. CASE UNCHANGED ioVars
  <2>1. /\ block' = block /\ next' = next /\ expr' = expr /\ stmts' = stmts /\ running' = running
        /\ done' = done /\ vars' = vars /\ mem' = mem /\ trace' = trace
    BY <1>4 DEF ioVars
  <2>2. IOInv'
    BY <1>0, <1>4, InvNext DEF ShapeInv
  <2>3. BlockShape' /\ StatementShape' /\ VarsShape'
    BY <1>0, <2>1 DEF ShapeInv, BlockShape, Arities, StatementShape, Fits, InOrder, MayBeInlined,
                      Inlined, Uses, Statement, VarsShape
  <2>4. Translated' = Translated /\ Fresh' = Fresh
    BY <2>1 DEF Translated, Complete, Fresh, Constant, Term
  <2>5. CallsInPlace' = CallsInPlace
    BY <2>1 DEF CallsInPlace, Chain, Inlined, Uses
  <2>6. ShapeInv'
    BY <1>0, <2>2, <2>3, <2>4 DEF ShapeInv
  <2>7. RunRight => RunRight'
    <3>1. \A t, e : Occurrences(t)' = Occurrences(t) /\ Value(e)' = Value(e)
      BY <2>1, OccurrencesSame, ValueSame
    <3>2. \A t, r : Nested(t, r)' = Nested(t, r)
      BY <2>1 DEF Nested, OperandsOf, SlotsOf, Slots, Inlined
    <3>3. History' = History
      BY <2>1 DEF History, IsHistory, LlvmStep, LlvmStart, Effect, Term, Constant
    <3>4. \A e : IsExecuted(e)' = IsExecuted(e)
      BY <2>1, <3>1 DEF IsExecuted
    <3>5. EffectsRight => EffectsRight'
      BY <2>1, <3>3, <3>4 DEF EffectsRight
    <3>6. VarsRight => VarsRight'
      BY <2>1, <3>1 DEF VarsRight
    <3>7. DoneRight => DoneRight'
      BY <2>1, <3>1, <3>2 DEF DoneRight, Closed
    <3> QED
      BY <3>5, <3>6, <3>7 DEF RunRight
  <2> QED
    BY <2>4, <2>5, <2>6, <2>7 DEF RunInv
<1> QED
  BY <1>1, <1>2, <1>3, <1>4 DEF IONext, Stutter

\* At the end everything has been executed, so that memory and the calls are
\* those of the whole LLVM block.
LEMMA RunEnds == RunInv => SameEffects
<1> SUFFICES ASSUME RunInv, Returned, CallsInPlace
             PROVE  trace = LlvmRun.trace /\ mem = LlvmRun.mem
  BY DEF SameEffects
<1>1. ShapeInv /\ Translated /\ EffectsRight /\ running > Len(stmts)
  BY DEF RunInv, RunRight, Returned
<1>2. PICK n \in 0..Len(block) :
        /\ mem = History[n].mem /\ trace = History[n].trace
        /\ \A e \in DOMAIN block : block[e].op \in Once => (e <= n <=> IsExecuted(e))
  BY <1>1 DEF EffectsRight
<1>3. /\ DOMAIN stmts = 1..Len(stmts) /\ Len(stmts) \in Nat /\ running \in Nat
      /\ Len(block) \in Nat /\ DOMAIN block = 1..Len(block)
  BY <1>1, StatementFacts
<1>4. ASSUME NEW e \in DOMAIN block, block[e].op \in Once PROVE IsExecuted(e)
  <2>1. PICK x \in DOMAIN stmts : \E o \in Occurrences(stmts[x]) : o[2] = e
    BY <1>1, <1>4, OnceInPlace, SomePlace
  <2>2. x < running
    BY <1>1, <1>3
  <2> QED
    BY <2>1, <2>2 DEF IsExecuted
<1>5. \A e \in DOMAIN block : n < e /\ e <= Len(block) => block[e].op \notin Once
  BY <1>2, <1>3, <1>4
<1>6. Len(block) \in 0..Len(block) /\ n <= Len(block)
  BY <1>3
<1>7. History[n].mem = History[Len(block)].mem /\ History[n].trace = History[Len(block)].trace
  BY <1>1, <1>5, <1>6, HistoryQuiet
<1> QED
  BY <1>2, <1>7, HistoryEnds

\* Whatever order C evaluates the operands of its statements in, a block in
\* which calls are printed in place makes the calls of the LLVM block, with the
\* same arguments and memory, and leaves memory as it does: for blocks of every
\* length.
THEOREM EffectsKept == IOSpec => []SameEffects
<1> QED
  BY RunInvInit, RunInvNext, RunEnds, PTL DEF IOSpec

=============================================================================
