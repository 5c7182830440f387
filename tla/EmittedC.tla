------------------------------ MODULE EmittedC ------------------------------
(***************************************************************************)
(* The text Writer::functionDefinitions prints for the function, and what  *)
(* that C function does when it is called.                                 *)
(*                                                                         *)
(* The writer is modelled by what it prints of each block: copies of its   *)
(* statements, labels and gotos.  The C program is run by a continuation:  *)
(* the statements still to execute, the innermost first.                   *)
(***************************************************************************)
EXTENDS ControlFlow

VARIABLES
  pending,   \* copies of a block's statements the writer has still to print
  printed,   \* copies it has printed
  labels,    \* how often the label of a block is printed
  jumps,     \* blocks a printed goto names
  k,         \* the continuation of the running C program
  cur,       \* the block whose straight-line code ran last
  prev,      \* the block that ran before it
  src,       \* the edge's source that cur's phi variables were assigned for
  lastPhi,   \* per block, the source of the last assignment to its phi variables
  out,       \* the outcome of cur's terminator
  phase      \* "translating", "printing", then of the C program "running"
             \* and "returned"

textVars == <<pending, printed, labels, jumps>>
progVars == <<k, cur, prev, src, lastPhi, out>>
runVars == <<progVars, phase>>
emVars == <<cfVars, textVars, runVars>>

-----------------------------------------------------------------------------
(* Writer::functionDefinitions and writeBlock *)

\* The places of a list of statements: <<i, 0, 0>> is its i-th statement,
\* <<i, a, j>> the j-th of the a-th arm of that statement.
Places(code) ==
  {<<i, 0, 0>> : i \in DOMAIN code}
    \cup UNION {UNION {{<<i, a, j>> : j \in DOMAIN code[i].arms[a]} :
                         a \in DOMAIN code[i].arms} : i \in DOMAIN code}

At(code, p) == IF p[2] = 0 THEN code[p[1]] ELSE code[p[1]].arms[p[2]][p[3]]

Sites(code, op, t) == {p \in Places(code) : At(code, p).op = op /\ At(code, p).to = t}

Mentions(code, op, t) == Cardinality(Sites(code, op, t))

\* The entry block comes first, then every block that is not inlined.
OwnBlock(b) == b = Entry \/ ~doInline[b]

StartWriter ==
  /\ pass = "write"
  /\ phase = "translating"
  /\ phase' = "printing"
  /\ pending' = [b \in Blocks |-> IF OwnBlock(b) THEN 1 ELSE 0]
  /\ labels' = pending'
  /\ UNCHANGED <<cfVars, printed, jumps, progVars>>

\* Mutant: a block is printed whether or not it is to be printed.
WriteAnyCopy(b) ==
  /\ phase = "printing"
  /\ \A c \in Blocks : pending[c] > 0 => b <= c
  /\ pending' = [c \in Blocks |->
                   pending[c] - (IF c = b THEN 1 ELSE 0)
                     + Mentions(exprs[b], "splice", c) + Mentions(exprs[b], "latch", c)]
  /\ labels' = [c \in Blocks |-> labels[c] + Mentions(exprs[b], "latch", c)]
  /\ printed' = [printed EXCEPT ![b] = @ + 1]
  /\ jumps' = jumps \cup {t \in Blocks : Sites(exprs[b], "goto", t) # {}}
  /\ UNCHANGED <<cfVars, runVars>>

\* One copy of b's statements, with the statements spliced into it and the
\* latch a do-while wraps (ExprWriter::visit(LatchExpr&) prints its label)
\* to follow.  The blocks' order in the text plays no role.
WriteCopy(b) ==
  /\ phase = "printing"
  /\ pending[b] > 0
  /\ \A c \in Blocks : pending[c] > 0 => b <= c
  /\ pending' = [c \in Blocks |->
                   pending[c] - (IF c = b THEN 1 ELSE 0)
                     + Mentions(exprs[b], "splice", c) + Mentions(exprs[b], "latch", c)]
  /\ labels' = [c \in Blocks |-> labels[c] + Mentions(exprs[b], "latch", c)]
  /\ printed' = [printed EXCEPT ![b] = @ + 1]
  /\ jumps' = jumps \cup {t \in Blocks : Sites(exprs[b], "goto", t) # {}}
  /\ UNCHANGED <<cfVars, runVars>>

WriterDone == phase # "translating" /\ \A b \in Blocks : pending[b] = 0

-----------------------------------------------------------------------------
(* The C program *)

Outcomes(b) == IF g.succ[b] = <<>> THEN {0} ELSE DOMAIN g.succ[b]

\* The do-while that wraps the latch t: the block it is in, its place there
\* and the latch's place in its body.
Wraps(t) ==
  {w \in Blocks \X (1..4*N) \X (1..4) :
     /\ w[2] \in DOMAIN exprs[w[1]]
     /\ exprs[w[1]][w[2]].op = "do"
     /\ w[3] \in DOMAIN exprs[w[1]][w[2]].arms[1]
     /\ exprs[w[1]][w[2]].arms[1][w[3]] = LatchExpr(t)}

\* The do-while after its first iteration has begun.
Again(s) == [s EXCEPT !.op = "while"]

\* The end of a block's text: what follows there in the C text is another
\* block's code.
EndOf(b) == Plain(Simple("end", b, b))

\* From the label of t on.
FromLabel(t) ==
  IF OwnBlock(t) THEN exprs[t] \o <<EndOf(t)>>
  ELSE LET w == CHOOSE x \in Wraps(t) : TRUE
           do == exprs[w[1]][w[2]]
           arm == do.arms[1]
       IN  exprs[t] \o Lift(SubSeq(arm, w[3] + 1, Len(arm))) \o <<Again(do)>>
             \o SubSeq(exprs[w[1]], w[2] + 1, Len(exprs[w[1]])) \o <<EndOf(w[1])>>

CallFunction ==
  /\ WriterDone
  /\ phase = "printing"
  /\ phase' = "running"
  /\ k' = exprs[Entry] \o <<EndOf(Entry)>>
  /\ UNCHANGED <<cfVars, textVars, cur, prev, src, lastPhi, out>>

\* Nothing runs behind an instruction LLVM calls unreachable.
AtUnreachable == cur # NoBlock /\ g.term[cur] = "unreachable"

Executes(op) == phase = "running" /\ ~AtUnreachable /\ k # <<>> /\ Head(k).op = op

\* The straight-line code of a block; its last value decides the terminator.
RunBody ==
  LET b == Head(k).at IN
  /\ Executes("body")
  /\ cur' = b
  /\ prev' = cur
  /\ src' = IF b \in g.phis THEN lastPhi[b] ELSE NoBlock
  /\ out' \in Outcomes(b)
  /\ k' = Tail(k)
  /\ UNCHANGED <<cfVars, textVars, lastPhi, phase>>

\* Whether the while condition of a do-while, or the condition of a select in
\* front of it, holds: the block's condition or its negation.
GoesOn(s) == (out = 1) # s.neg

AssignPhis ==
  LET s == Head(k) IN
  /\ Executes("phi") \/ Executes("select")
  /\ lastPhi' = IF s.op = "phi" \/ GoesOn(s) THEN [lastPhi EXCEPT ![s.to] = s.at]
                ELSE lastPhi
  /\ k' = Tail(k)
  /\ UNCHANGED <<cfVars, textVars, cur, prev, src, out, phase>>

Jump ==
  /\ Executes("goto")
  /\ OwnBlock(Head(k).to) \/ Wraps(Head(k).to) # {}
  /\ k' = FromLabel(Head(k).to)
  /\ UNCHANGED <<cfVars, textVars, cur, prev, src, lastPhi, out, phase>>

\* Spliced statements, and those of the latch a do-while wraps, run in place.
RunInPlace ==
  /\ Executes("splice") \/ Executes("latch")
  /\ k' = exprs[Head(k).to] \o Tail(k)
  /\ UNCHANGED <<cfVars, textVars, cur, prev, src, lastPhi, out, phase>>

RunIf ==
  /\ Executes("if") \/ Executes("switch")
  /\ k' = Lift(Head(k).arms[out]) \o Tail(k)
  /\ UNCHANGED <<cfVars, textVars, cur, prev, src, lastPhi, out, phase>>

RunDo ==
  /\ Executes("do")
  /\ k' = Lift(Head(k).arms[1]) \o <<Again(Head(k))>> \o Tail(k)
  /\ UNCHANGED <<cfVars, textVars, cur, prev, src, lastPhi, out, phase>>

RunWhile ==
  /\ Executes("while")
  /\ k' = IF GoesOn(Head(k)) THEN Lift(Head(k).arms[1]) \o k ELSE Tail(k)
  /\ UNCHANGED <<cfVars, textVars, cur, prev, src, lastPhi, out, phase>>

RunRet ==
  /\ Executes("ret")
  /\ phase' = "returned"
  /\ k' = <<>>
  /\ UNCHANGED <<cfVars, textVars, cur, prev, src, lastPhi, out>>

-----------------------------------------------------------------------------
EmInit ==
  /\ CFInit
  /\ pending = [b \in Blocks |-> 0]
  /\ printed = [b \in Blocks |-> 0]
  /\ labels = [b \in Blocks |-> 0]
  /\ jumps = {}
  /\ k = <<>>
  /\ cur = NoBlock
  /\ prev = NoBlock
  /\ src = NoBlock
  /\ lastPhi = [b \in Blocks |-> NoBlock]
  /\ out = 0
  /\ phase = "translating"

Translate ==
  \/ CFNext /\ UNCHANGED <<textVars, runVars>>
  \/ StartWriter
  \/ \E b \in Blocks : WriteCopy(b)

RunC ==
  \/ CallFunction
  \/ RunBody
  \/ AssignPhis
  \/ Jump
  \/ RunInPlace
  \/ RunIf
  \/ RunDo
  \/ RunWhile
  \/ RunRet

\* The program has returned, or reached an instruction LLVM calls unreachable.
Stopped ==
  \/ phase = "returned"
  \/ phase = "running" /\ AtUnreachable

Stutter == Stopped /\ UNCHANGED emVars

EmNext == Translate \/ RunC \/ Stutter

\* llvm2c is one sequential program: a pass that can go on does.
EmSpec == EmInit /\ [][EmNext]_emVars /\ WF_emVars(Translate)

-----------------------------------------------------------------------------
(* Properties *)

\* The kinds of values of the variables of the writer and of the C program.
TypeOK ==
  /\ CFTypeOK
  /\ pending \in [Blocks -> Nat]
  /\ printed \in [Blocks -> Nat]
  /\ labels \in [Blocks -> Nat]
  /\ jumps \subseteq Blocks
  /\ {cur, prev, src} \subseteq Blocks \cup {NoBlock}
  /\ lastPhi \in [Blocks -> Blocks \cup {NoBlock}]
  /\ phase \in {"translating", "printing", "running", "returned"}

\* The C compiler accepts the function's labels: every goto that is printed
\* names a label that is printed exactly once, and no label is printed twice.
GotosHaveOneLabel ==
  WriterDone => /\ \A t \in jumps : labels[t] = 1
                /\ \A b \in Blocks : labels[b] <= 1

\* No code is lost and none is duplicated but a lone return: the statements
\* of a reachable block are printed, and more than once only if the block is
\* nothing but a return.
CodePrintedOnce ==
  WriterDone => \A b \in Reachable(g) :
    /\ printed[b] >= 1
    /\ printed[b] > 1 => g.term[b] = "ret" /\ b \in g.bare

\* What four places of the code decide about a latch fits together: nothing of
\* the function is missing, and no label or code is there twice.
TextIsWhole == GotosHaveOneLabel /\ CodePrintedOnce

\* InliningVisitor replaces a goto by the code of its target, visiting that
\* code first: it never comes back to a block it is in the middle of.
NoReentrantInlining ==
  \A i, j \in DOMAIN stack : i # j => stack[i].block # stack[j].block

\* Control never runs from the end of a block's text into the text printed
\* after it, which is the one of the next block in memory order.
NeverFallsOff == ~Executes("end")

\* When a block with phi nodes runs, its phi variables were last assigned for
\* the edge it was entered by.
PhisFromPredecessor == cur \in g.phis => src = prev

\* The terminator a statement tests is the one of the block that ran last:
\* an if, a switch or a while never tests the condition of another block.
TestsOwnCondition ==
  \A op \in {"if", "switch", "while", "select"} : Executes(op) => Head(k).at = cur

\* What the C function does is what the LLVM function does.
Walk == INSTANCE LlvmWalk WITH
  term <- g.term, succ <- g.succ, phis <- g.phis,
  at <- cur, returned <- phase = "returned"

ImplementsLlvm == Walk!Spec

\* Every function that llvm2c is given is printed in the end.
EventuallyPrinted == <>WriterDone
=============================================================================
