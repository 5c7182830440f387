---------------------------- MODULE ControlFlow ----------------------------
(***************************************************************************)
(* How llvm2c turns the terminators of one function into C statements:     *)
(* the passes parseBreaks, identifyInlinableBlocks and inlineBlocks, run   *)
(* in this order by ProgramParser::parse.                                  *)
(*                                                                         *)
(* A statement is a record: "op" is its kind, "at" the block it stems from *)
(* (whose condition it tests, or the edge's source), "to" the block it     *)
(* names, "neg" a negated condition, "arms" the nested expression lists of *)
(* an if, a switch or a do-while.  Straight-line code is one "body" marker *)
(* per block, all phi assignments of an edge are one statement.            *)
(***************************************************************************)
EXTENDS LoopInfo

VARIABLES
  g,          \* the function: [term, succ, phis, bare]
  loops,      \* llvm::LoopInfo
  pass,       \* the pass that runs next
  parsed,     \* loops parseLoop returned from
  exprs,      \* Block::expressions
  brHandled,  \* Block::brHandled
  doInline,   \* Block::doInline
  container,  \* the block inlineBlocks works on
  stack       \* activations of InliningVisitor: the block whose statements
              \* are visited and the targets of its gotos not replaced yet

inputVars == <<g, loops>>
codeVars == <<exprs, brHandled, doInline>>
cfVars == <<inputVars, pass, parsed, codeVars, container, stack>>

\* An LLVM function: its terminators and their successors, the blocks that
\* start with phi nodes and the blocks without any other straight-line code.
IsFunction(f) ==
  f \in [term : [Blocks -> TermKinds], succ : [Blocks -> Seq(Blocks)],
         phis : SUBSET Blocks, bare : SUBSET Blocks]

Passes == {"parseBreaks", "identifyInlinableBlocks", "inlineBlocks", "inlining", "write"}

-----------------------------------------------------------------------------
(* Statements (expr/Expr.h) *)

Simple(op, at, to) == [op |-> op, at |-> at, to |-> to, neg |-> FALSE]

Nested(op, at, to, neg, arms) ==
  [op |-> op, at |-> at, to |-> to, neg |-> neg, arms |-> arms]

Plain(s) == Nested(s.op, s.at, s.to, s.neg, <<>>)

Body(b) == Plain(Simple("body", b, b))

GotoExpr(t) == Simple("goto", t, t)

LatchExpr(t) == Simple("latch", t, t)

\* A simple statement appended to a block's own expressions.
Lift(code) == [i \in DOMAIN code |-> Plain(code[i])]

\* Targets of the gotos of a list of statements, nested ones included.
GotoTargets(code) ==
  {code[i].to : i \in {j \in DOMAIN code : code[j].op = "goto"}}
    \cup UNION {UNION {{arm[i].to : i \in {j \in DOMAIN arm : arm[j].op = "goto"}} :
                  arm \in {code[k].arms[a] : a \in DOMAIN code[k].arms}} :
                    k \in DOMAIN code}

-----------------------------------------------------------------------------
(* parseBreaks *)

\* The assignments to the phi nodes of "to" that declare a value from "from".
\* In a loop the assignment keeps the old value unless the loop goes on.
GeneratePhiAssignments(from, to, isLoop, isNegated) ==
  IF to \notin g.phis \/ from \notin Preds(g, to) THEN <<>>
  ELSE <<[Simple(IF isLoop THEN "select" ELSE "phi", from, to) EXCEPT !.neg = isNegated]>>

ListOfOneGoto(from, to) ==
  GeneratePhiAssignments(from, to, FALSE, FALSE) \o <<GotoExpr(to)>>

\* Mutant: the operands of the branch the other way round.
ParseIFSwapped(b) ==
  Nested("if", b, b, FALSE, [i \in 1..2 |-> ListOfOneGoto(b, g.succ[b][3 - i])])

ParseIF(b) ==
  Nested("if", b, b, FALSE, [i \in 1..2 |-> ListOfOneGoto(b, g.succ[b][i])])

ParseUncondBranch(b) == Lift(ListOfOneGoto(b, g.succ[b][1]))

ParseRETURN(b) == Plain(Simple("ret", b, b))

HasParsedTerminator(b) == g.term[b] \in {"ret", "cond", "br"}

\* What parseBlock appends: nothing for a switch or an unreachable.
ParseBlock(b) ==
  CASE g.term[b] = "ret"  -> <<ParseRETURN(b)>>
    [] g.term[b] = "cond" -> <<ParseIF(b)>>
    [] g.term[b] = "br"   -> ParseUncondBranch(b)
    [] OTHER -> <<>>

\* createExpressions has added the switch already: its gotos have no phi
\* assignments in front of them.
ParseSwitchInstruction(b) ==
  Nested("switch", b, b, FALSE,
         [i \in 1..Len(g.succ[b]) |-> <<GotoExpr(g.succ[b][i])>>])

AfterCreateExpressions(b) ==
  <<Body(b)>> \o (IF g.term[b] = "switch" THEN <<ParseSwitchInstruction(b)>> ELSE <<>>)

\* "parse yet unparsed blocks"
ParseUnhandled(bs, code, handled) ==
  [b \in Blocks |-> IF b \in bs /\ ~handled[b] THEN code[b] \o ParseBlock(b) ELSE code[b]]

MarkHandled(bs, handled) ==
  [b \in Blocks |-> handled[b] \/ (b \in bs /\ HasParsedTerminator(b))]

HeaderGotoLatch(l) == g.succ[l.header] = <<l.latch>>

\* Mutant: the negation forgotten where it is needed and added where not.
NegatedWrong(l) == g.succ[l.latch][1] = l.header

Negated(l) == g.succ[l.latch][1] # l.header

\* Mutant: operand 0 of the branch, which is its condition and no block.
AfterDoWhileOperand0(l) ==
  IF g.succ[l.latch][2] = l.header THEN NoBlock ELSE g.succ[l.latch][2]

AfterDoWhile(l) ==
  IF g.succ[l.latch][2] = l.header THEN g.succ[l.latch][1] ELSE g.succ[l.latch][2]

\* Mutant: the assignments for the next iteration rotated to the front.
DoWhileBodyRotated(l) ==
  GeneratePhiAssignments(l.latch, l.header, TRUE, Negated(l)) \o <<GotoExpr(l.header)>>
    \o (IF l.header = l.latch \/ HeaderGotoLatch(l) THEN <<>> ELSE <<LatchExpr(l.latch)>>)

DoWhileBody(l) ==
  LET latchPhis == IF l.header = l.latch THEN <<>>
                   ELSE GeneratePhiAssignments(l.header, l.latch, FALSE, Negated(l))
      latchWrap == IF l.header = l.latch \/ HeaderGotoLatch(l) THEN <<>>
                   ELSE <<LatchExpr(l.latch)>>
      headerPhis == GeneratePhiAssignments(l.latch, l.header, TRUE, Negated(l))
  IN  latchPhis \o <<GotoExpr(l.header)>> \o latchWrap \o headerPhis

DoWhile(l) == Nested("do", l.latch, l.header, Negated(l), <<DoWhileBody(l)>>)

\* The statements without the last one: expressions.pop_back().
DropLast(code) == SubSeq(code, 1, Len(code) - 1)

\* Mutant: the way out of the loop taken for an edge of the preheader.
PreheaderCodeOwnEdge(l) ==
  DropLast(exprs[l.preheader] \o ParseBlock(l.preheader))
    \o <<DoWhile(l)>> \o Lift(ListOfOneGoto(l.preheader, AfterDoWhile(l)))

\* Mutant: no way out of the loop.
PreheaderCodeNoExit(l) ==
  DropLast(exprs[l.preheader] \o ParseBlock(l.preheader)) \o <<DoWhile(l)>>

\* The preheader ends with the do-while and the way out of it instead of the
\* goto into the loop.
PreheaderCode(l) ==
  DropLast(exprs[l.preheader] \o ParseBlock(l.preheader))
    \o <<DoWhile(l)>> \o Lift(ListOfOneGoto(l.latch, AfterDoWhile(l)))

ParseRotatedLoop(l) ==
  LET handled == [MarkHandled({l.preheader}, brHandled) EXCEPT ![l.latch] = TRUE]
      code == [exprs EXCEPT ![l.preheader] = PreheaderCode(l)]
  IN  /\ exprs' = ParseUnhandled(l.blocks, code, handled)
      /\ brHandled' = MarkHandled(l.blocks, handled)
      /\ doInline' = [doInline EXCEPT ![l.header] = TRUE]

\* Mutant: the header of every loop is "safe to inline".
ParseUnrotatedLoopInlined(l) ==
  /\ exprs' = ParseUnhandled(l.blocks, exprs, brHandled)
  /\ brHandled' = MarkHandled(l.blocks, brHandled)
  /\ doInline' = [doInline EXCEPT ![l.header] = TRUE]

ParseUnrotatedLoop(l) ==
  /\ exprs' = ParseUnhandled(l.blocks, exprs, brHandled)
  /\ brHandled' = MarkHandled(l.blocks, brHandled)
  /\ UNCHANGED doInline

\* Mutant: a loop before its sub-loops.
ParseLoopAnyOrder(l) ==
  /\ pass = "parseBreaks"
  /\ l \notin parsed
  /\ IF l.rotated THEN ParseRotatedLoop(l) ELSE ParseUnrotatedLoop(l)
  /\ parsed' = parsed \cup {l}
  /\ UNCHANGED <<inputVars, pass, container, stack>>

\* Sub-loops first.  The order of unrelated loops is LoopInfo's.
ParseLoop(l) ==
  /\ pass = "parseBreaks"
  /\ l \notin parsed
  /\ \A k \in loops : IsSubLoop(k, l) => k \in parsed
  /\ IF l.rotated THEN ParseRotatedLoop(l) ELSE ParseUnrotatedLoop(l)
  /\ parsed' = parsed \cup {l}
  /\ UNCHANGED <<inputVars, pass, container, stack>>

\* The end of parseBreakRec: the blocks outside of all loops.
ParseRemainingBlocks ==
  /\ pass = "parseBreaks"
  /\ parsed = loops
  /\ exprs' = ParseUnhandled(Blocks, exprs, brHandled)
  /\ brHandled' = MarkHandled(Blocks, brHandled)
  /\ pass' = "identifyInlinableBlocks"
  /\ UNCHANGED <<inputVars, parsed, doInline, container, stack>>

-----------------------------------------------------------------------------
(* identifyInlinableBlocks *)

\* Mutant: the last expression looked at instead of the only one.
EndsWithReturn(b) == exprs[b][Len(exprs[b])].op = "ret"

\* A block whose straight-line code is empty has no expressions of its own:
\* the "body" marker stands for none.
IsOnlyReturn(b) ==
  b \in g.bare /\ Len(exprs[b]) = 2 /\ exprs[b][2].op = "ret"

IsSafeToInline(b) == HasSinglePredecessor(g, b) \/ IsOnlyReturn(b)

IdentifyInlinableBlocks ==
  /\ pass = "identifyInlinableBlocks"
  /\ doInline' = [b \in Blocks |-> b # Entry /\ (doInline[b] \/ IsSafeToInline(b))]
  /\ pass' = "inlineBlocks"
  /\ UNCHANGED <<inputVars, parsed, exprs, brHandled, container, stack>>

-----------------------------------------------------------------------------
(* inlineBlocks *)

RotatedLatches == {l.latch : l \in {k \in loops : k.rotated}}

\* Mutant: a latch that follows its header directly is not told apart.
LatchStaysInlineIfHeader(b) == \E l \in loops : l.rotated /\ l.latch = b /\ l.latch = l.header

\* doNotInlineSubloopLatchBlockIntoGotoLatch, for every loop
LatchStaysInline(b) ==
  \E l \in loops : /\ l.rotated
                   /\ l.latch = b
                   /\ l.latch = l.header \/ HeaderGotoLatch(l)

DoNotInlineLatches ==
  /\ pass = "inlineBlocks"
  /\ doInline' = [b \in Blocks |->
                    IF b \in RotatedLatches THEN LatchStaysInline(b) ELSE doInline[b]]
  /\ container' = 1
  /\ pass' = "inlining"
  /\ UNCHANGED <<inputVars, parsed, exprs, brHandled, stack>>

Activation(b) ==
  [block |-> b, todo |-> {t \in GotoTargets(exprs[b]) : doInline[t]}]

Top == stack[Len(stack)]

VisitContainer ==
  /\ pass = "inlining"
  /\ stack = <<>>
  /\ container \in Blocks
  /\ stack' = <<Activation(container)>>
  /\ UNCHANGED <<inputVars, pass, parsed, codeVars, container>>

\* simplify on a goto to a block to inline visits that block's statements.
InlineGoto(t) ==
  /\ pass = "inlining"
  /\ stack # <<>>
  /\ t \in Top.todo
  /\ stack' = Append([stack EXCEPT ![Len(stack)].todo = @ \ {t}], Activation(t))
  /\ UNCHANGED <<inputVars, pass, parsed, codeVars, container>>

FinishTarget ==
  /\ pass = "inlining"
  /\ Len(stack) > 1
  /\ Top.todo = {}
  /\ stack' = DropLast(stack)
  /\ UNCHANGED <<inputVars, pass, parsed, codeVars, container>>

\* A goto to a block to inline becomes the list of that block's statements.
Splice(s) == IF s.op = "goto" /\ doInline[s.to] THEN [s EXCEPT !.op = "splice"] ELSE s

SpliceArms(s) ==
  [s EXCEPT !.arms = [a \in DOMAIN s.arms |->
                        [i \in DOMAIN s.arms[a] |-> Splice(s.arms[a][i])]]]

SpliceGotos(code) == [i \in DOMAIN code |-> SpliceArms(Splice(code[i]))]

\* Mutant: the iterator is not advanced.
FinishContainerAgain ==
  /\ pass = "inlining"
  /\ Len(stack) = 1
  /\ Top.todo = {}
  /\ stack' = <<>>
  /\ exprs' = [exprs EXCEPT ![container] = SpliceGotos(@)]
  /\ UNCHANGED <<inputVars, pass, parsed, brHandled, doInline, container>>

FinishContainer ==
  /\ pass = "inlining"
  /\ Len(stack) = 1
  /\ Top.todo = {}
  /\ stack' = <<>>
  /\ exprs' = [exprs EXCEPT ![container] = SpliceGotos(@)]
  /\ container' = container + 1
  /\ UNCHANGED <<inputVars, pass, parsed, brHandled, doInline>>

\* Mutant: the writer is not fooled.
MarkNoLatch ==
  /\ pass = "inlining"
  /\ stack = <<>>
  /\ container = N + 1
  /\ pass' = "write"
  /\ UNCHANGED <<inputVars, parsed, codeVars, container, stack>>

\* "fool writer": a latch is not printed on its own any more.
MarkLatchBlockAsInlined ==
  /\ pass = "inlining"
  /\ stack = <<>>
  /\ container = N + 1
  /\ doInline' = [b \in Blocks |-> doInline[b] \/ b \in RotatedLatches]
  /\ pass' = "write"
  /\ UNCHANGED <<inputVars, parsed, exprs, brHandled, container, stack>>

-----------------------------------------------------------------------------
CFInit ==
  /\ IsFunction(g)
  /\ WellFormed(g)
  /\ loops = Loops(g)
  /\ pass = "parseBreaks"
  /\ parsed = {}
  /\ exprs = [b \in Blocks |-> AfterCreateExpressions(b)]
  /\ brHandled = [b \in Blocks |-> FALSE]
  /\ doInline = [b \in Blocks |-> FALSE]
  /\ container = 0
  /\ stack = <<>>

Inlining ==
  \/ VisitContainer
  \/ \E t \in Blocks : InlineGoto(t)
  \/ FinishTarget
  \/ FinishContainer

CFNext ==
  \/ \E l \in loops : ParseLoop(l)
  \/ ParseRemainingBlocks
  \/ IdentifyInlinableBlocks
  \/ DoNotInlineLatches
  \/ Inlining
  \/ MarkLatchBlockAsInlined

CFSpec == CFInit /\ [][CFNext]_cfVars

-----------------------------------------------------------------------------
(* Properties *)

StmtOps ==
  {"body", "phi", "select", "goto", "splice", "latch", "ret", "if", "switch", "do"}

SimpleStmts == [op : StmtOps, at : Blocks, to : Blocks, neg : BOOLEAN]

Stmts ==
  [op : StmtOps, at : Blocks, to : Blocks, neg : BOOLEAN, arms : Seq(Seq(SimpleStmts))]

Activations == [block : Blocks, todo : SUBSET Blocks]

\* The kinds of values the variables of the three passes take.
CFTypeOK ==
  /\ pass \in Passes
  /\ parsed \subseteq loops
  /\ exprs \in [Blocks -> Seq(Stmts)]
  /\ brHandled \in [Blocks -> BOOLEAN]
  /\ doInline \in [Blocks -> BOOLEAN]
  /\ container \in 0..N+1
  /\ stack \in Seq(Activations)

\* The terminator of a block is turned into statements once.  parseLoop parses
\* the preheader of a rotated loop and drops its last statement without a look
\* at brHandled: nothing else has parsed it by then, and its latch neither.
\* After the pass no terminator is left out.
HandledOnce ==
  /\ pass = "parseBreaks" =>
       /\ \A b \in Blocks : ~brHandled[b] => exprs[b] = AfterCreateExpressions(b)
       /\ \A l \in loops \ parsed :
            l.rotated => ~brHandled[l.preheader] /\ ~brHandled[l.latch]
  /\ pass # "parseBreaks" =>
       \A b \in Blocks : HasParsedTerminator(b) => brHandled[b]
=============================================================================
