--------------------------- MODULE EmittedCProofs ---------------------------
(***************************************************************************)
(* The C function EmittedC runs does what the LLVM function does, for every *)
(* function LLVM's contract describes, and the text the writer prints for  *)
(* it is whole: no reachable code is missing, none is there twice but a    *)
(* lone return, and every goto has its label.                              *)
(***************************************************************************)
EXTENDS EmittedC, ControlFlowProofs

\* The targets of switches have no phi nodes: the case the code gets wrong.
NoSwitchPhis == \A b \in Blocks : g.term[b] = "switch" => Succs(g, b) \cap g.phis = {}

-----------------------------------------------------------------------------
(* Continuations *)

RunStmts ==
  [op : StmtOps \cup {"while", "end"}, at : Blocks, to : Blocks, neg : BOOLEAN,
   arms : Seq(Seq(SimpleStmts))]

Continuations == Seq(RunStmts)

Cons(s, rest) == <<s>> \o rest

LEMMA StmtsRun == Stmts \subseteq RunStmts /\ Seq(Stmts) \subseteq Continuations
<1>1. Stmts \subseteq RunStmts
  BY DEF Stmts, RunStmts
<1>2. ASSUME NEW s \in Seq(Stmts)
      PROVE  s \in Seq(RunStmts)
  BY <1>1
<1> QED
  BY <1>1, <1>2 DEF Continuations

LEMMA ConsFacts ==
  ASSUME NEW s \in RunStmts, NEW rest \in Continuations
  PROVE  /\ Cons(s, rest) \in Continuations /\ Cons(s, rest) # <<>>
         /\ Head(Cons(s, rest)) = s /\ Tail(Cons(s, rest)) = rest
BY DEF Cons, Continuations

LEMMA ConsConcat ==
  ASSUME NEW s \in RunStmts, NEW code \in Continuations, NEW rest \in Continuations
  PROVE  /\ Cons(s, code) \o rest = Cons(s, code \o rest)
         /\ <<s>> \o rest = Cons(s, rest)
         /\ <<>> \o rest = rest
         /\ code \o rest \in Continuations
BY DEF Cons, Continuations

LEMMA ConcatAssoc ==
  ASSUME NEW a \in Continuations, NEW b \in Continuations, NEW c \in Continuations
  PROVE  a \o b \o c = a \o (b \o c)
BY DEF Continuations

Then(code, rest) == code \o rest

LEMMA ThenFive ==
  ASSUME NEW a \in Continuations, NEW b \in Continuations, NEW c \in Continuations,
         NEW d \in Continuations, NEW e \in Continuations
  PROVE  Then(Then(Then(Then(a, b), c), d), e) = Then(a, Then(b, Then(c, Then(d, e))))
<1>1. \A x, y, z \in Continuations :
        Then(Then(x, y), z) = Then(x, Then(y, z)) /\ Then(x, y) \in Continuations
  <2>1. \A x, y \in Continuations : Then(x, y) \in Continuations
    BY DEF Continuations, Then
  <2>2. \A x, y, z \in Continuations : Then(Then(x, y), z) = Then(x, Then(y, z))
    BY ConcatAssoc DEF Then
  <2> QED
    BY <2>1, <2>2
<1>2. Then(a, b) \in Continuations /\ Then(Then(a, b), c) \in Continuations
      /\ Then(d, e) \in Continuations /\ Then(c, Then(d, e)) \in Continuations
  BY <1>1
<1>3. Then(Then(Then(Then(a, b), c), d), e) = Then(Then(Then(a, b), c), Then(d, e))
  BY <1>1, <1>2
<1>4. Then(Then(Then(a, b), c), Then(d, e)) = Then(Then(a, b), Then(c, Then(d, e)))
  BY <1>1, <1>2
<1>5. Then(Then(a, b), Then(c, Then(d, e))) = Then(a, Then(b, Then(c, Then(d, e))))
  BY <1>1, <1>2
<1> QED
  BY <1>3, <1>4, <1>5

PhiStmt(from, to) == Plain(Simple("phi", from, to))

LatchPhi(l) == Plain([Simple("phi", l.header, l.latch) EXCEPT !.neg = Negated(l)])

SelectStmt(l) == Plain([Simple("select", l.latch, l.header) EXCEPT !.neg = Negated(l)])

JumpStmt(t) == Plain(JumpTo(Spliced, t))

WhileStmt(l) == Again(DoLoop(Spliced, l))

\* The while condition of l and what follows the loop.
AtEnd(l, rest) == Cons(WhileStmt(l), WayOut(Spliced, l) \o rest)

\* What follows the code of l's latch when it runs in its place in the loop.
AfterLatch(l, rest) ==
  IF l.header \in g.phis THEN Cons(SelectStmt(l), AtEnd(l, rest)) ELSE AtEnd(l, rest)

LEMMA PhiStmtType ==
  ASSUME NEW from \in Blocks, NEW to \in Blocks
  PROVE  /\ PhiStmt(from, to) \in RunStmts /\ PhiStmt(from, to).op = "phi"
         /\ PhiStmt(from, to).at = from /\ PhiStmt(from, to).to = to
<1>1. <<>> \in Seq(Seq(SimpleStmts))
  OBVIOUS
<1> QED
  BY <1>1 DEF PhiStmt, Plain, Nested, Simple, RunStmts, StmtOps

LEMMA StmtTypes ==
  ASSUME InputOK, NEW l \in Rotated
  PROVE  /\ LatchPhi(l) \in RunStmts /\ LatchPhi(l).op = "phi"
         /\ LatchPhi(l).at = l.header /\ LatchPhi(l).to = l.latch
         /\ SelectStmt(l) \in RunStmts /\ SelectStmt(l).op = "select"
         /\ SelectStmt(l).at = l.latch /\ SelectStmt(l).to = l.header
         /\ SelectStmt(l).neg = Negated(l)
<1>1. l.header \in Blocks /\ l.latch \in Blocks /\ Negated(l) \in BOOLEAN
  BY RotatedFacts DEF Negated
<1>2. <<>> \in Seq(Seq(SimpleStmts))
  OBVIOUS
<1>4. /\ LatchPhi(l) \in RunStmts /\ LatchPhi(l).op = "phi"
      /\ LatchPhi(l).at = l.header /\ LatchPhi(l).to = l.latch
  BY <1>1, <1>2 DEF LatchPhi, Plain, Nested, Simple, RunStmts, StmtOps
<1>5. /\ SelectStmt(l) \in RunStmts /\ SelectStmt(l).op = "select"
      /\ SelectStmt(l).at = l.latch /\ SelectStmt(l).to = l.header
      /\ SelectStmt(l).neg = Negated(l)
  BY <1>1, <1>2 DEF SelectStmt, Plain, Nested, Simple, RunStmts, StmtOps
<1> QED
  BY <1>4, <1>5

LEMMA JumpStmtType ==
  ASSUME NEW t \in Blocks
  PROVE  /\ JumpStmt(t) \in RunStmts /\ JumpStmt(t).to = t
         /\ JumpStmt(t).op = IF t \in Spliced THEN "splice" ELSE "goto"
<1>1. <<>> \in Seq(Seq(SimpleStmts))
  OBVIOUS
<1> QED
  BY <1>1 DEF JumpStmt, JumpTo, Plain, Nested, Simple, RunStmts, StmtOps

LEMMA WhileType ==
  ASSUME InputOK, NEW l \in Rotated
  PROVE  /\ WhileStmt(l) \in RunStmts /\ WhileStmt(l).op = "while"
         /\ WhileStmt(l).at = l.latch /\ WhileStmt(l).neg = Negated(l)
         /\ WhileStmt(l).arms[1] = LoopArm(Spliced, l)
         /\ DoLoop(Spliced, l) \in RunStmts /\ DoLoop(Spliced, l).op = "do"
         /\ DoLoop(Spliced, l).arms[1] = LoopArm(Spliced, l)
         /\ WayOut(Spliced, l) \in Continuations
<1>1. DoLoop(Spliced, l) \in Stmts
  BY DoLoopType
<1>2. /\ DoLoop(Spliced, l).op = "do" /\ DoLoop(Spliced, l).arms[1] = LoopArm(Spliced, l)
      /\ DoLoop(Spliced, l).at = l.latch /\ DoLoop(Spliced, l).neg = Negated(l)
  BY DEF DoLoop, Nested
<1>3. ASSUME NEW s \in Stmts
      PROVE  /\ [s EXCEPT !.op = "while"] \in RunStmts
             /\ [s EXCEPT !.op = "while"].op = "while" /\ [s EXCEPT !.op = "while"].at = s.at
             /\ [s EXCEPT !.op = "while"].neg = s.neg /\ [s EXCEPT !.op = "while"].arms = s.arms
  BY DEF Stmts, RunStmts
<1>4. WayOut(Spliced, l) \in Continuations
  BY LoopCodeType, StmtsRun
<1> HIDE DEF WhileStmt
<1>5. WhileStmt(l) = [DoLoop(Spliced, l) EXCEPT !.op = "while"]
  BY DEF WhileStmt, Again
<1> QED
  BY <1>1, <1>2, <1>3, <1>4, <1>5, StmtsRun

LEMMA AfterLatchType ==
  ASSUME InputOK, NEW l \in Rotated, NEW rest \in Continuations
  PROVE  /\ WayOut(Spliced, l) \o rest \in Continuations
         /\ AtEnd(l, rest) \in Continuations
         /\ AfterLatch(l, rest) \in Continuations
<1>1. WayOut(Spliced, l) \in Continuations /\ WhileStmt(l) \in RunStmts
  BY WhileType
<1>2. WayOut(Spliced, l) \o rest \in Continuations
  BY <1>1 DEF Continuations
<1>3. SelectStmt(l) \in RunStmts
  BY RotatedFacts, StmtTypes
<1> QED
  BY <1>1, <1>2, <1>3, ConsFacts DEF AtEnd, AfterLatch

-----------------------------------------------------------------------------
(* The statements of an edge, of a loop and of a loop's body, in front of   *)
(* what follows.                                                           *)

LEMMA LiftOne ==
  ASSUME NEW x
  PROVE  Lift(<<x>>) = <<Plain(x)>>
BY DEF Lift

LEMMA PhisAre ==
  ASSUME NEW from \in Blocks, NEW to \in Blocks
  PROVE  Lift(GeneratePhiAssignments(from, to, FALSE, FALSE))
           = IF to \in g.phis /\ from \in Preds(g, to) THEN <<PhiStmt(from, to)>> ELSE <<>>
<1>1. [Simple("phi", from, to) EXCEPT !.neg = FALSE] = Simple("phi", from, to)
  <2>1. ASSUME NEW x
        PROVE  [[op |-> "phi", at |-> from, to |-> to, neg |-> x] EXCEPT !.neg = x]
                 = [op |-> "phi", at |-> from, to |-> to, neg |-> x]
    OBVIOUS
  <2> QED
    BY <2>1, Zenon DEF Simple
<1>2. CASE to \in g.phis /\ from \in Preds(g, to)
  BY <1>1, <1>2, LiftOne DEF GeneratePhiAssignments, PhiStmt
<1>3. CASE ~(to \in g.phis /\ from \in Preds(g, to))
  <2>1. Lift(<<>>) = <<>>
    BY DEF Lift
  <2> QED
    BY <1>3, <2>1 DEF GeneratePhiAssignments
<1> QED
  BY <1>2, <1>3

LEMMA EdgeForm ==
  ASSUME NEW from \in Blocks, NEW to \in Blocks, NEW rest \in Continuations
  PROVE  Lift(EdgeCode(Spliced, from, to)) \o rest
           = IF to \in g.phis /\ from \in Preds(g, to)
               THEN Cons(PhiStmt(from, to), Cons(JumpStmt(to), rest))
               ELSE Cons(JumpStmt(to), rest)
<1> DEFINE own == GeneratePhiAssignments(from, to, FALSE, FALSE)
           jump == JumpTo(Spliced, to)
           phis == Lift(own)
<1>1. own \in Seq(SimpleStmts) /\ <<jump>> \in Seq(SimpleStmts)
  BY PhiAssignmentsType, JumpToType
<1>2. phis = IF to \in g.phis /\ from \in Preds(g, to) THEN <<PhiStmt(from, to)>> ELSE <<>>
  BY PhisAre
<1>3. Lift(<<jump>>) = <<JumpStmt(to)>>
  BY LiftOne DEF JumpStmt
<1>4. JumpStmt(to) \in RunStmts
  BY JumpStmtType
<1>5. PhiStmt(from, to) \in RunStmts
  BY PhiStmtType
<1>6. EdgeCode(Spliced, from, to) = own \o <<jump>>
  BY DEF EdgeCode
<1> HIDE DEF own, jump
<1>7. Lift(EdgeCode(Spliced, from, to)) = phis \o <<JumpStmt(to)>>
  BY <1>1, <1>3, <1>6, LiftConcat
<1> HIDE DEF phis
<1>8. \A s, t \in RunStmts : /\ (<<s>> \o <<t>>) \o rest = Cons(s, Cons(t, rest))
                            /\ (<<>> \o <<t>>) \o rest = Cons(t, rest)
  BY DEF Cons, Continuations
<1> QED
  BY <1>2, <1>4, <1>5, <1>7, <1>8

LEMMA LoopForm ==
  ASSUME InputOK, NEW l \in Rotated, NEW rest \in Continuations
  PROVE  LoopCode(Spliced, l) \o rest
           = IF l.header \in g.phis
               THEN Cons(PhiStmt(l.preheader, l.header),
                         Cons(DoLoop(Spliced, l), WayOut(Spliced, l) \o rest))
               ELSE Cons(DoLoop(Spliced, l), WayOut(Spliced, l) \o rest)
<1> DEFINE phis == Lift(GeneratePhiAssignments(l.preheader, l.header, FALSE, FALSE))
           way == WayOut(Spliced, l)
           do == DoLoop(Spliced, l)
           phi == PhiStmt(l.preheader, l.header)
<1>1. l.header \in Blocks /\ l.preheader \in Blocks /\ l.preheader \in Preds(g, l.header)
  BY RotatedFacts, LoopFacts
<1>2. phis = IF l.header \in g.phis THEN <<phi>> ELSE <<>>
  BY <1>1, PhisAre
<1>3. do \in RunStmts /\ way \in Continuations
  BY WhileType
<1>4. phi \in RunStmts
  BY <1>1, PhiStmtType
<1>5. LoopCode(Spliced, l) = phis \o <<do>> \o way
  BY DEF LoopCode
<1> HIDE DEF phis, way, do, phi
<1>6. /\ (<<phi>> \o <<do>> \o way) \o rest = Cons(phi, Cons(do, way \o rest))
      /\ (<<>> \o <<do>> \o way) \o rest = Cons(do, way \o rest)
  BY <1>3, <1>4 DEF Cons, Continuations
<1>7. LoopCode(Spliced, l) \o rest = IF l.header \in g.phis THEN Cons(phi, Cons(do, way \o rest))
                                                          ELSE Cons(do, way \o rest)
  BY <1>2, <1>5, <1>6
<1> QED
  BY <1>7 DEF phi, do, way

\* What follows the header in the body of l.
AfterHeader(l, rest) ==
  IF l.header = l.latch \/ HeaderGotoLatch(l) THEN AfterLatch(l, rest)
  ELSE Cons(Plain(LatchExpr(l.latch)), AfterLatch(l, rest))

LEMMA SelectsAre ==
  ASSUME InputOK, NEW l \in Rotated, NEW rest \in Continuations
  PROVE  Lift(GeneratePhiAssignments(l.latch, l.header, TRUE, Negated(l))) \o AtEnd(l, rest)
           = AfterLatch(l, rest)
<1>1. l.latch \in Preds(g, l.header)
  BY RotatedFacts, LoopFacts
<1>2. AtEnd(l, rest) \in Continuations /\ SelectStmt(l) \in RunStmts
  BY RotatedFacts, AfterLatchType, StmtTypes
<1>3. CASE l.header \in g.phis
  <2>1. GeneratePhiAssignments(l.latch, l.header, TRUE, Negated(l))
          = <<[Simple("select", l.latch, l.header) EXCEPT !.neg = Negated(l)]>>
    BY <1>1, <1>3 DEF GeneratePhiAssignments
  <2>2. Lift(GeneratePhiAssignments(l.latch, l.header, TRUE, Negated(l))) = <<SelectStmt(l)>>
    BY <2>1, LiftOne DEF SelectStmt
  <2>3. Lift(GeneratePhiAssignments(l.latch, l.header, TRUE, Negated(l))) \o AtEnd(l, rest)
          = Cons(SelectStmt(l), AtEnd(l, rest))
    BY <2>2, Zenon DEF Cons
  <2> QED
    BY <1>3, <2>3, Zenon DEF AfterLatch
<1>4. CASE l.header \notin g.phis
  <2>1. GeneratePhiAssignments(l.latch, l.header, TRUE, Negated(l)) = <<>>
    BY <1>4 DEF GeneratePhiAssignments
  <2>2. Lift(<<>>) = <<>>
    BY DEF Lift
  <2>3. <<>> \o AtEnd(l, rest) = AtEnd(l, rest)
    BY <1>2, StmtTypes, ConsConcat
  <2> QED
    BY <1>4, <2>1, <2>2, <2>3 DEF AfterLatch
<1> QED
  BY <1>3, <1>4

LEMMA ArmForm ==
  ASSUME InputOK, NEW l \in Rotated, NEW rest \in Continuations
  PROVE  /\ AfterHeader(l, rest) \in Continuations
         /\ Lift(LoopArm(Spliced, l)) \o AtEnd(l, rest)
              = IF l.header # l.latch /\ l.latch \in g.phis /\ l.header \in Preds(g, l.latch)
                  THEN Cons(LatchPhi(l), Cons(JumpStmt(l.header), AfterHeader(l, rest)))
                  ELSE Cons(JumpStmt(l.header), AfterHeader(l, rest))
<1> DEFINE phis == IF l.header = l.latch THEN <<>>
                   ELSE GeneratePhiAssignments(l.header, l.latch, FALSE, Negated(l))
           jump == <<JumpTo(Spliced, l.header)>>
           wrap == IF l.header = l.latch \/ HeaderGotoLatch(l) THEN <<>> ELSE <<LatchExpr(l.latch)>>
           selects == GeneratePhiAssignments(l.latch, l.header, TRUE, Negated(l))
           hasPhi == l.header # l.latch /\ l.latch \in g.phis /\ l.header \in Preds(g, l.latch)
           after == AfterLatch(l, rest)
           tail == AfterHeader(l, rest)
           ending == AtEnd(l, rest)
<1>1. l.header \in Blocks /\ l.latch \in Blocks /\ Negated(l) \in BOOLEAN
  BY RotatedFacts DEF Negated
<1>2. <<>> \in Seq(SimpleStmts)
  OBVIOUS
<1>3. phis \in Seq(SimpleStmts) /\ selects \in Seq(SimpleStmts)
  <2>1. FALSE \in BOOLEAN /\ TRUE \in BOOLEAN
    OBVIOUS
  <2>2. GeneratePhiAssignments(l.header, l.latch, FALSE, Negated(l)) \in Seq(SimpleStmts)
    BY <1>1, <2>1, PhiAssignmentsType, Zenon
  <2>3. GeneratePhiAssignments(l.latch, l.header, TRUE, Negated(l)) \in Seq(SimpleStmts)
    BY <1>1, <2>1, PhiAssignmentsType, Zenon
  <2> QED
    BY <1>2, <2>2, <2>3, Zenon
<1>4. wrap \in Seq(SimpleStmts) /\ jump \in Seq(SimpleStmts)
  <2>1. <<LatchExpr(l.latch)>> \in Seq(SimpleStmts)
    BY <1>1, GotoType
  <2>2. wrap \in Seq(SimpleStmts)
    BY <1>2, <2>1, Zenon
  <2> QED
    BY <1>1, <2>2, JumpToType
<1>5. Lift(phis) = IF hasPhi THEN <<LatchPhi(l)>> ELSE <<>>
  <2>1. Lift(<<>>) = <<>>
    BY DEF Lift
  <2>2. CASE hasPhi
    <3>1. phis = <<[Simple("phi", l.header, l.latch) EXCEPT !.neg = Negated(l)]>>
      BY <2>2 DEF GeneratePhiAssignments
    <3> QED
      BY <2>2, <3>1, LiftOne DEF LatchPhi
  <2>3. CASE ~hasPhi
    <3>1. phis = <<>>
      BY <2>3 DEF GeneratePhiAssignments
    <3> QED
      BY <2>1, <2>3, <3>1
  <2> QED
    BY <2>2, <2>3
<1>6. Lift(jump) = <<JumpStmt(l.header)>>
  BY LiftOne DEF JumpStmt
<1>7. Lift(wrap) \o after = tail /\ tail \in Continuations /\ after \in Continuations
  <2>1. after \in Continuations
    BY AfterLatchType
  <2>2. Plain(LatchExpr(l.latch)) \in RunStmts
    BY <1>1, GotoType, PlainType, StmtsRun
  <2>3. Lift(<<>>) = <<>> /\ Lift(<<LatchExpr(l.latch)>>) = <<Plain(LatchExpr(l.latch))>>
    BY LiftOne DEF Lift
  <2>4. <<>> \o after = after
    BY <2>1 DEF Continuations
  <2> HIDE DEF after
  <2>5. <<Plain(LatchExpr(l.latch))>> \o after = Cons(Plain(LatchExpr(l.latch)), after)
    BY DEF Cons
  <2>6. Cons(Plain(LatchExpr(l.latch)), after) \in Continuations
    BY <2>1, <2>2, ConsFacts
  <2>7. tail = IF l.header = l.latch \/ HeaderGotoLatch(l) THEN after
               ELSE Cons(Plain(LatchExpr(l.latch)), after)
    BY DEF AfterHeader, after
  <2>8. wrap = IF l.header = l.latch \/ HeaderGotoLatch(l) THEN <<>> ELSE <<LatchExpr(l.latch)>>
    OBVIOUS
  <2> HIDE DEF tail, wrap
  <2> QED
    BY <2>1, <2>3, <2>4, <2>5, <2>6, <2>7, <2>8
<1>8. Lift(selects) \o ending = after
  BY SelectsAre
<1>9. LoopArm(Spliced, l) = phis \o jump \o wrap \o selects
  BY DEF LoopArm
<1>10. ending \in Continuations
  BY AfterLatchType
<1>11. LatchPhi(l) \in RunStmts /\ JumpStmt(l.header) \in RunStmts
  BY <1>1, StmtTypes, JumpStmtType
<1> HIDE DEF phis, jump, wrap, selects, after, tail, ending, hasPhi
<1>12. Lift(phis \o jump \o wrap \o selects)
         = Lift(phis) \o Lift(jump) \o Lift(wrap) \o Lift(selects)
  <2>1. phis \o jump \in Seq(SimpleStmts)
    BY <1>3, <1>4, ConcatType
  <2>2. phis \o jump \o wrap \in Seq(SimpleStmts)
    BY <1>4, <2>1, ConcatType
  <2>3. Lift(phis \o jump) = Lift(phis) \o Lift(jump)
    BY <1>3, <1>4, LiftConcat
  <2>4. Lift(phis \o jump \o wrap) = Lift(phis \o jump) \o Lift(wrap)
    BY <1>4, <2>1, LiftConcat
  <2>5. Lift(phis \o jump \o wrap \o selects) = Lift(phis \o jump \o wrap) \o Lift(selects)
    BY <1>3, <2>2, LiftConcat
  <2> QED
    BY <2>3, <2>4, <2>5
<1>13. /\ Lift(phis) \in Continuations /\ Lift(jump) \in Continuations
       /\ Lift(wrap) \in Continuations /\ Lift(selects) \in Continuations
  BY <1>3, <1>4, LiftType, StmtsRun
<1>14. Lift(phis) \o Lift(jump) \o Lift(wrap) \o Lift(selects) \o ending
         = Lift(phis) \o (Lift(jump) \o (Lift(wrap) \o (Lift(selects) \o ending)))
  <2> DEFINE a == Lift(phis)
             b == Lift(jump)
             c == Lift(wrap)
             d == Lift(selects)
  <2>1. a \in Continuations /\ b \in Continuations /\ c \in Continuations /\ d \in Continuations
    BY <1>13
  <2> HIDE DEF a, b, c, d
  <2>2. Then(Then(Then(Then(a, b), c), d), ending) = Then(a, Then(b, Then(c, Then(d, ending))))
    BY <1>10, <2>1, ThenFive
  <2> QED
    BY <2>2 DEF Then, a, b, c, d
<1>15. Lift(LoopArm(Spliced, l)) \o ending = Lift(phis) \o Cons(JumpStmt(l.header), tail)
  BY <1>6, <1>7, <1>8, <1>9, <1>12, <1>14 DEF Cons
<1>16. Cons(JumpStmt(l.header), tail) \in Continuations
  BY <1>7, <1>11, ConsFacts
<1>17. <<>> \o Cons(JumpStmt(l.header), tail) = Cons(JumpStmt(l.header), tail)
  BY <1>16 DEF Continuations
<1>18. Lift(LoopArm(Spliced, l)) \o ending
         = IF hasPhi THEN Cons(LatchPhi(l), Cons(JumpStmt(l.header), tail))
           ELSE Cons(JumpStmt(l.header), tail)
  BY <1>5, <1>15, <1>17 DEF Cons
<1> QED
  BY <1>7, <1>18 DEF hasPhi, tail, ending

-----------------------------------------------------------------------------
(* The code behind the label of a block. *)

\* The only statement of its kind in a list, and what is behind it.
LEMMA MiddleIs ==
  ASSUME NEW S, NEW a \in Seq(S), NEW x \in S, NEW c \in Seq(S), NEW op, 
         \A i \in DOMAIN a : a[i].op # op,
         \A i \in DOMAIN c : c[i].op # op,
         NEW s, s = a \o <<x>> \o c, NEW i \in DOMAIN s, s[i].op = op
  PROVE  /\ s[i] = x
         /\ SubSeq(s, i + 1, Len(s)) = c
<1>1. /\ s \in Seq(S) /\ Len(s) = Len(a) + 1 + Len(c)
      /\ Len(a) \in Nat /\ Len(c) \in Nat /\ i \in 1..Len(s)
      /\ DOMAIN a = 1..Len(a) /\ DOMAIN c = 1..Len(c)
  OBVIOUS
<1>2. \A j \in 1..Len(s) : s[j] = IF j <= Len(a) THEN a[j]
                                 ELSE IF j = Len(a) + 1 THEN x ELSE c[j - Len(a) - 1]
  OBVIOUS
<1>3. s[i].op = op
  OBVIOUS
<1>4. i = Len(a) + 1
  <2>1. ASSUME i <= Len(a) PROVE FALSE
    BY <1>1, <1>2, <1>3, <2>1
  <2>2. ASSUME i > Len(a) + 1 PROVE FALSE
    <3>1. i - Len(a) - 1 \in 1..Len(c)
      BY <1>1, <2>2
    <3>2. s[i] = c[i - Len(a) - 1]
      BY <1>1, <1>2, <2>2
    <3> QED
      BY <1>1, <1>3, <3>1, <3>2
  <2> QED
    BY <1>1, <2>1, <2>2
<1>5. s[i] = x
  BY <1>1, <1>2, <1>4
<1>6. SubSeq(s, i + 1, Len(s)) = c
  <2> DEFINE rest == SubSeq(s, i + 1, Len(s))
  <2>1. rest \in Seq(S) /\ Len(rest) = Len(c)
    BY <1>1, <1>4
  <2>2. \A j \in 1..Len(c) : rest[j] = c[j]
    BY <1>1, <1>2, <1>4
  <2> HIDE DEF rest
  <2>3. rest = c
    BY <1>1, <2>1, <2>2
  <2> QED
    BY <2>3 DEF rest
<1> QED
  BY <1>5, <1>6

LEMMA NeitherHas ==
  ASSUME NEW S, NEW a \in Seq(S), NEW c \in Seq(S), NEW op,
         \A i \in DOMAIN a : a[i].op # op,
         \A i \in DOMAIN c : c[i].op # op
  PROVE  \A i \in DOMAIN (a \o c) : (a \o c)[i].op # op
OBVIOUS

LEMMA FlatOps ==
  ASSUME NEW from \in Blocks, NEW to \in Blocks
  PROVE  \A i \in DOMAIN Lift(EdgeCode(Spliced, from, to)) :
           Lift(EdgeCode(Spliced, from, to))[i].op \in {"phi", "goto", "splice"}
<1> DEFINE own == GeneratePhiAssignments(from, to, FALSE, FALSE)
           jump == <<JumpTo(Spliced, to)>>
<1>1. own \in Seq(SimpleStmts) /\ jump \in Seq(SimpleStmts)
  BY PhiAssignmentsType, JumpToType
<1>2. \A i \in DOMAIN own : own[i].op = "phi"
  BY DEF GeneratePhiAssignments, Simple
<1>3. \A i \in DOMAIN jump : jump[i].op \in {"goto", "splice"}
  BY DEF JumpTo, Simple
<1>4. EdgeCode(Spliced, from, to) = own \o jump
  BY DEF EdgeCode
<1> HIDE DEF own, jump
<1>5. \A i \in DOMAIN (own \o jump) : (own \o jump)[i].op \in {"phi", "goto", "splice"}
  BY <1>1, <1>2, <1>3
<1>6. \A s : Plain(s).op = s.op
  BY DEF Plain, Nested
<1>7. \A i \in DOMAIN Lift(own \o jump) : /\ i \in DOMAIN (own \o jump)
                                         /\ Lift(own \o jump)[i] = Plain((own \o jump)[i])
  BY DEF Lift
<1> QED
  BY <1>4, <1>5, <1>6, <1>7

\* A do-while is in the preheader of its loop only, in front of the way out.
LEMMA DoInCode ==
  ASSUME InputOK, NEW b \in Blocks, NEW i \in DOMAIN CodeOf(Spliced, b),
         CodeOf(Spliced, b)[i].op = "do"
  PROVE  \E l \in Rotated :
           /\ b = l.preheader
           /\ CodeOf(Spliced, b)[i] = DoLoop(Spliced, l)
           /\ SubSeq(CodeOf(Spliced, b), i + 1, Len(CodeOf(Spliced, b))) = WayOut(Spliced, l)
<1>1. Body(b) \in Stmts /\ Body(b).op = "body"
  <2>1. Simple("body", b, b) \in SimpleStmts
    BY SimpleType DEF StmtOps
  <2> QED
    BY <2>1, PlainType DEF Body, Plain, Nested, Simple
<1>2. CASE b \in RotatedPreheaders
  <2>1. PICK l \in Rotated : b = l.preheader /\ LoopAt(b) = l /\ b \notin RotatedLatches
    BY <1>2, LoopAtIs DEF RotatedPreheaders
  <2> DEFINE phis == Lift(GeneratePhiAssignments(l.preheader, l.header, FALSE, FALSE))
             do == DoLoop(Spliced, l)
             way == WayOut(Spliced, l)
             body == <<Body(b)>>
             front == body \o phis
  <2>2. phis \in Seq(Stmts) /\ do \in Stmts /\ way \in Seq(Stmts) /\ body \in Seq(Stmts)
    <3>1. phis \in Seq(Stmts) /\ way \in Seq(Stmts)
      BY LoopCodeType
    <3>2. do \in Stmts
      BY DoLoopType
    <3>3. body \in Seq(Stmts)
      BY <1>1
    <3> QED
      BY <3>1, <3>2, <3>3
  <2>3. do.op = "do"
    BY DEF DoLoop, Nested
  <2>4. \A j \in DOMAIN way : way[j].op # "do"
    BY RotatedFacts, FlatOps DEF WayOut
  <2>5. \A j \in DOMAIN phis : phis[j].op # "do"
    <3>1. phis = IF l.header \in g.phis /\ l.preheader \in Preds(g, l.header)
                 THEN <<PhiStmt(l.preheader, l.header)>> ELSE <<>>
      BY RotatedFacts, PhisAre
    <3>2. PhiStmt(l.preheader, l.header).op = "phi"
      BY DEF PhiStmt, Plain, Nested, Simple
    <3> HIDE DEF phis
    <3> QED
      BY <3>1, <3>2
  <2>6. CodeOf(Spliced, b) = body \o (phis \o <<do>> \o way)
    <3>1. TermCode(Spliced, b) = LoopCode(Spliced, l)
      BY <1>2, <2>1 DEF TermCode
    <3>2. LoopCode(Spliced, l) = phis \o <<do>> \o way
      BY DEF LoopCode
    <3> QED
      BY <3>1, <3>2 DEF CodeOf
  <2>7. body[1].op = "body" /\ DOMAIN body = {1}
    BY <1>1
  <2> HIDE DEF phis, do, way, body
  <2>8. CodeOf(Spliced, b) = front \o <<do>> \o way
    BY <2>2, <2>6
  <2>9. front \in Seq(Stmts)
    BY <2>2
  <2>10. \A j \in DOMAIN front : front[j].op # "do"
    <3>1. \A j \in DOMAIN body : body[j].op # "do"
      BY <2>7
    <3> QED
      BY <2>2, <2>5, <3>1, NeitherHas
  <2> HIDE DEF front
  <2>11. /\ CodeOf(Spliced, b)[i] = do
         /\ SubSeq(CodeOf(Spliced, b), i + 1, Len(CodeOf(Spliced, b))) = way
    <3>2. do \in Stmts /\ way \in Seq(Stmts) /\ \A j \in DOMAIN way : way[j].op # "do"
      BY <2>2, <2>4
    <3> QED
      BY <2>8, <2>9, <2>10, <3>2, MiddleIs
  <2> QED
    BY <2>1, <2>11 DEF do, way
<1>3. CASE b \notin RotatedPreheaders
  <2> SUFFICES \A j \in DOMAIN CodeOf(Spliced, b) : CodeOf(Spliced, b)[j].op # "do"
    OBVIOUS
  <2> DEFINE term == TermCode(Spliced, b)
  <2>1. \A j \in DOMAIN term : term[j].op # "do"
    <3>1. CASE b \in RotatedLatches
      BY <3>1 DEF TermCode
    <3>2. CASE b \notin RotatedLatches /\ g.term[b] = "ret"
      BY <1>3, <3>2 DEF TermCode, ParseRETURN, Plain, Nested, Simple
    <3>3. CASE b \notin RotatedLatches /\ g.term[b] = "br"
      <4>1. term = Lift(EdgeCode(Spliced, b, g.succ[b][1]))
        BY <1>3, <3>3 DEF TermCode
      <4>2. g.succ[b][1] \in Blocks
        BY <3>3, SuccType
      <4> QED
        BY <4>1, <4>2, FlatOps
    <3>4. CASE b \notin RotatedLatches /\ g.term[b] = "cond"
      BY <1>3, <3>4 DEF TermCode, IfCode, Nested
    <3>5. CASE b \notin RotatedLatches /\ g.term[b] = "switch"
      BY <1>3, <3>5 DEF TermCode, SwitchCode, Nested
    <3>6. CASE b \notin RotatedLatches /\ g.term[b] \notin {"ret", "br", "cond", "switch"}
      BY <1>3, <3>6 DEF TermCode
    <3> QED
      BY <3>1, <3>2, <3>3, <3>4, <3>5, <3>6
  <2>2. term \in Seq(Stmts)
    BY TermCodeType
  <2>3. CodeOf(Spliced, b) = <<Body(b)>> \o term
    BY DEF CodeOf
  <2> HIDE DEF term
  <2> QED
    BY <1>1, <2>1, <2>2, <2>3
<1> QED
  BY <1>2, <1>3

\* A do-while names its own latch, and what is behind that are the selects.
LEMMA LatchInArm ==
  ASSUME InputOK, NEW l \in Rotated, NEW t \in Blocks, NEW j \in DOMAIN LoopArm(Spliced, l),
         LoopArm(Spliced, l)[j] = LatchExpr(t)
  PROVE  /\ l.latch = t /\ l.header # l.latch /\ ~HeaderGotoLatch(l)
         /\ SubSeq(LoopArm(Spliced, l), j + 1, Len(LoopArm(Spliced, l)))
              = GeneratePhiAssignments(l.latch, l.header, TRUE, Negated(l))
<1> DEFINE phis == IF l.header = l.latch THEN <<>>
                   ELSE GeneratePhiAssignments(l.header, l.latch, FALSE, Negated(l))
           jump == <<JumpTo(Spliced, l.header)>>
           inPlace == l.header = l.latch \/ HeaderGotoLatch(l)
           wrap == IF inPlace THEN <<>> ELSE <<LatchExpr(l.latch)>>
           selects == GeneratePhiAssignments(l.latch, l.header, TRUE, Negated(l))
           front == phis \o jump
           latch == LatchExpr(l.latch)
           arm == LoopArm(Spliced, l)
<1>1. l.header \in Blocks /\ l.latch \in Blocks /\ Negated(l) \in BOOLEAN
  BY RotatedFacts DEF Negated
<1>2. <<>> \in Seq(SimpleStmts)
  OBVIOUS
<1>3. phis \in Seq(SimpleStmts) /\ selects \in Seq(SimpleStmts)
  <2>1. FALSE \in BOOLEAN /\ TRUE \in BOOLEAN
    OBVIOUS
  <2>2. GeneratePhiAssignments(l.header, l.latch, FALSE, Negated(l)) \in Seq(SimpleStmts)
    BY <1>1, <2>1, PhiAssignmentsType, Zenon
  <2>3. GeneratePhiAssignments(l.latch, l.header, TRUE, Negated(l)) \in Seq(SimpleStmts)
    BY <1>1, <2>1, PhiAssignmentsType, Zenon
  <2> QED
    BY <1>2, <2>2, <2>3, Zenon
<1>4. jump \in Seq(SimpleStmts) /\ latch \in SimpleStmts
  BY <1>1, JumpToType, GotoType
<1>5. /\ \A i \in DOMAIN phis : phis[i].op # "latch"
      /\ \A i \in DOMAIN selects : selects[i].op # "latch"
      /\ \A i \in DOMAIN jump : jump[i].op # "latch"
  <2>1. \A from, to, isLoop, isNegated :
          \A i \in DOMAIN GeneratePhiAssignments(from, to, isLoop, isNegated) :
            GeneratePhiAssignments(from, to, isLoop, isNegated)[i].op # "latch"
    BY DEF GeneratePhiAssignments, Simple
  <2>2. JumpTo(Spliced, l.header).op # "latch"
    BY DEF JumpTo, Simple
  <2>3. \A i \in DOMAIN selects : selects[i].op # "latch"
    BY <2>1, Zenon
  <2>4. \A i \in DOMAIN GeneratePhiAssignments(l.header, l.latch, FALSE, Negated(l)) :
          GeneratePhiAssignments(l.header, l.latch, FALSE, Negated(l))[i].op # "latch"
    BY <2>1, Zenon
  <2>5. \A i \in DOMAIN <<>> : <<>>[i].op # "latch"
    OBVIOUS
  <2>6. \A i \in DOMAIN phis : phis[i].op # "latch"
    BY <2>4, <2>5, Zenon
  <2>7. \A i \in DOMAIN jump : jump[i].op # "latch"
    BY <2>2
  <2> QED
    BY <2>3, <2>6, <2>7
<1>6. arm = phis \o jump \o wrap \o selects
  BY DEF LoopArm
<1>7. latch.op = "latch" /\ LatchExpr(t).op = "latch" /\ latch.to = l.latch /\ LatchExpr(t).to = t
  BY DEF LatchExpr, Simple
<1>8. wrap = IF inPlace THEN <<>> ELSE <<latch>>
  OBVIOUS
<1>9. arm[j].op = "latch" /\ j \in DOMAIN arm
  BY <1>7
<1> HIDE DEF phis, jump, wrap, selects, inPlace
<1>10. front \in Seq(SimpleStmts) /\ \A i \in DOMAIN front : front[i].op # "latch"
  BY <1>3, <1>4, <1>5, NeitherHas
<1> HIDE DEF front
<1>11. ~inPlace
  <2> SUFFICES ASSUME inPlace PROVE FALSE
    OBVIOUS
  <2>1. arm = front \o <<>> \o selects
    BY <1>6, <1>8 DEF front
  <2>2. front \o <<>> = front
    BY <1>10
  <2>3. arm = front \o selects
    BY <2>1, <2>2
  <2> HIDE DEF arm
  <2>4. \A i \in DOMAIN (front \o selects) : (front \o selects)[i].op # "latch"
    BY <1>3, <1>5, <1>10, NeitherHas
  <2> QED
    BY <1>9, <2>3, <2>4
<1>12. arm = front \o <<latch>> \o selects
  BY <1>6, <1>8, <1>11 DEF front
<1>13. arm[j] = LatchExpr(t)
  OBVIOUS
<1> HIDE DEF arm, latch
<1>14. /\ arm[j] = latch
       /\ SubSeq(arm, j + 1, Len(arm)) = selects
  <2>2. front \in Seq(SimpleStmts) /\ latch \in SimpleStmts /\ selects \in Seq(SimpleStmts)
    BY <1>3, <1>4, <1>10
  <2>3. /\ \A i \in DOMAIN front : front[i].op # "latch"
        /\ \A i \in DOMAIN selects : selects[i].op # "latch"
    BY <1>5, <1>10
  <2> QED
    BY <1>9, <1>12, <2>2, <2>3, MiddleIs
<1>15. latch = LatchExpr(t)
  BY <1>13, <1>14
<1>16. l.latch = t
  BY <1>7, <1>15
<1>17. SubSeq(arm, j + 1, Len(arm)) = selects
  BY <1>14
<1> QED
  BY <1>11, <1>16, <1>17 DEF inPlace, selects, arm

-----------------------------------------------------------------------------
(* Where control goes, and what the code it meets there is followed by. *)

\* What is planned for the blocks when the translation is done.
Planned ==
  /\ InputOK
  /\ \A b \in Blocks : exprs[b] = CodeOf(Spliced, b)
  /\ \A l \in Rotated : l.header \in Spliced
  /\ ~doInline[Entry]
  /\ \A t \in RotatedLatches : doInline[t]

\* The code of a rotated latch is followed by the end of its loop, and so is
\* the one of a header that goes straight to the latch.
Follows(t, rest) ==
  \A l \in Rotated : t = l.latch \/ (t = l.header /\ HeaderGotoLatch(l)) =>
    \E after \in Continuations : rest = AfterLatch(l, after)

LEMMA NotSplicedFollows ==
  ASSUME Planned, NEW t \in Blocks, OwnBlock(t), NEW rest
  PROVE  t \notin Spliced /\ Follows(t, rest)
<1>1. ~doInline[t]
  BY DEF Planned, OwnBlock
<1>2. t \notin Spliced
  BY <1>1 DEF Spliced
<1>3. t \notin RotatedLatches
  BY <1>1 DEF Planned
<1>4. \A l \in Rotated : t # l.latch /\ t # l.header
  BY <1>2, <1>3 DEF Planned, RotatedLatches, Rotated
<1> QED
  BY <1>2, <1>4 DEF Follows

\* What a goto leads to: the code of the block it names.
LEMMA LabelForm ==
  ASSUME Planned, NEW t \in Blocks, t \notin Spliced, OwnBlock(t) \/ Wraps(t) # {}
  PROVE  \E rest \in Continuations :
           /\ FromLabel(t) = Cons(Body(t), TermCode(Spliced, t) \o rest)
           /\ Follows(t, rest)
<1>1. InputOK /\ exprs[t] = <<Body(t)>> \o TermCode(Spliced, t)
  BY DEF Planned, CodeOf
<1>2. TermCode(Spliced, t) \in Continuations /\ Body(t) \in RunStmts
  <2>1. Simple("body", t, t) \in SimpleStmts
    BY SimpleType DEF StmtOps
  <2>2. Body(t) \in Stmts
    BY <2>1, PlainType DEF Body
  <2> QED
    BY <1>1, <2>2, TermCodeType, StmtsRun
<1>3. ASSUME NEW b \in Blocks
      PROVE  EndOf(b) \in RunStmts /\ <<EndOf(b)>> \in Continuations
  <2>1. <<>> \in Seq(Seq(SimpleStmts))
    OBVIOUS
  <2>2. EndOf(b) \in RunStmts
    BY <2>1 DEF EndOf, Plain, Nested, Simple, RunStmts, StmtOps
  <2> QED
    BY <2>2 DEF Continuations
<1>4. CASE OwnBlock(t)
  <2> DEFINE end == <<EndOf(t)>>
             body == <<Body(t)>>
             term == TermCode(Spliced, t)
  <2>1. FromLabel(t) = (body \o term) \o end
    BY <1>1, <1>4 DEF FromLabel
  <2>2. body \in Continuations /\ term \in Continuations /\ end \in Continuations
    BY <1>2, <1>3 DEF Continuations
  <2>3. Follows(t, end)
    BY <1>4, NotSplicedFollows
  <2> HIDE DEF body, term, end
  <2>4. (body \o term) \o end = body \o (term \o end)
    BY <2>2, ConcatAssoc
  <2> QED
    BY <2>1, <2>2, <2>3, <2>4 DEF Cons, body, term
<1>5. CASE ~OwnBlock(t)
  <2> DEFINE w == CHOOSE x \in Wraps(t) : TRUE
             b == w[1]
             i == w[2]
             j == w[3]
             do == exprs[b][i]
             arm == do.arms[1]
  <2>1. w \in Wraps(t)
    BY <1>5
  <2>2. /\ b \in Blocks /\ i \in DOMAIN exprs[b] /\ do.op = "do"
        /\ j \in DOMAIN arm /\ arm[j] = LatchExpr(t)
    BY <2>1 DEF Wraps
  <2>3. FromLabel(t) = exprs[t] \o Lift(SubSeq(arm, j + 1, Len(arm))) \o <<Again(do)>>
                         \o SubSeq(exprs[b], i + 1, Len(exprs[b])) \o <<EndOf(b)>>
    BY <1>5 DEF FromLabel
  <2> HIDE DEF w, b, i, j
  <2>4. exprs[b] = CodeOf(Spliced, b)
    BY <2>2 DEF Planned
  <2>5. PICK l \in Rotated :
          /\ b = l.preheader
          /\ do = DoLoop(Spliced, l)
          /\ SubSeq(exprs[b], i + 1, Len(exprs[b])) = WayOut(Spliced, l)
    <3>1. i \in DOMAIN CodeOf(Spliced, b) /\ CodeOf(Spliced, b)[i].op = "do"
      BY <2>2, <2>4
    <3>2. PICK l \in Rotated :
            /\ b = l.preheader
            /\ CodeOf(Spliced, b)[i] = DoLoop(Spliced, l)
            /\ SubSeq(CodeOf(Spliced, b), i + 1, Len(CodeOf(Spliced, b))) = WayOut(Spliced, l)
      BY <1>1, <2>2, <3>1, DoInCode
    <3> QED
      BY <2>4, <3>2
  <2>6. arm = LoopArm(Spliced, l)
    BY <2>5 DEF DoLoop, Nested
  <2>7. /\ l.latch = t
        /\ SubSeq(arm, j + 1, Len(arm)) = GeneratePhiAssignments(l.latch, l.header, TRUE, Negated(l))
    <3>1. j \in DOMAIN LoopArm(Spliced, l) /\ LoopArm(Spliced, l)[j] = LatchExpr(t)
      BY <2>2, <2>6
    <3>2. /\ l.latch = t
          /\ SubSeq(LoopArm(Spliced, l), j + 1, Len(LoopArm(Spliced, l)))
               = GeneratePhiAssignments(l.latch, l.header, TRUE, Negated(l))
      BY <1>1, <3>1, LatchInArm
    <3> QED
      BY <2>6, <3>2
  <2> DEFINE end == <<EndOf(b)>>
             selects == GeneratePhiAssignments(l.latch, l.header, TRUE, Negated(l))
             some == Lift(selects)
             again == <<WhileStmt(l)>>
             way == WayOut(Spliced, l)
             body == <<Body(t)>>
             after == AfterLatch(l, end)
  <2>8. t \in RotatedLatches
    BY <2>7 DEF RotatedLatches, Rotated
  <2>9. exprs[t] = body \o <<>> /\ TermCode(Spliced, t) = <<>>
    BY <1>1, <2>8 DEF TermCode
  <2>10. FromLabel(t) = body \o some \o again \o way \o end
    <3>1. body \o <<>> = body
      BY <1>2
    <3> QED
      BY <2>3, <2>5, <2>7, <2>9, <3>1 DEF WhileStmt
  <2>11. /\ body \in Continuations /\ again \in Continuations /\ way \in Continuations
         /\ end \in Continuations
    <3>1. WhileStmt(l) \in RunStmts /\ way \in Continuations
      BY <1>1, WhileType
    <3> QED
      BY <1>2, <1>3, <2>2, <3>1 DEF Continuations
  <2>12. some \in Continuations
    <3>1. l.header \in Blocks /\ l.latch \in Blocks /\ Negated(l) \in BOOLEAN /\ TRUE \in BOOLEAN
      BY <1>1, RotatedFacts DEF Negated
    <3>2. selects \in Seq(SimpleStmts)
      BY <3>1, PhiAssignmentsType, Zenon
    <3> QED
      BY <3>2, LiftType, StmtsRun
  <2>13. some \o (again \o (way \o end)) = after
    <3>1. some \o AtEnd(l, end) = after
      BY <1>1, <2>11, SelectsAre
    <3> QED
      BY <3>1 DEF AtEnd, Cons
  <2>14. after \in Continuations
    BY <1>1, <2>11, AfterLatchType
  <2> HIDE DEF end, some, again, way, body, after, selects
  <2>15. FromLabel(t) = body \o after
    <3>1. Then(Then(Then(Then(body, some), again), way), end)
            = Then(body, Then(some, Then(again, Then(way, end))))
      BY <2>11, <2>12, ThenFive
    <3> QED
      BY <2>10, <2>13, <3>1 DEF Then
  <2>16. FromLabel(t) = Cons(Body(t), TermCode(Spliced, t) \o after)
    <3>1. <<>> \o after = after
      BY <2>14 DEF Continuations
    <3> QED
      BY <2>9, <2>15, <3>1 DEF Cons, body
  <2>17. Follows(t, after)
    <3> SUFFICES ASSUME NEW m \in Rotated, t = m.latch \/ (t = m.header /\ HeaderGotoLatch(m))
                 PROVE  m = l
      BY <2>11 DEF Follows, after
    <3>1. CASE t = m.latch
      BY <1>1, <2>7, <3>1, OneLoopPerLatch
    <3>2. CASE t = m.header
      BY <1>1, <2>7, <3>2, HeaderIsNoLatch DEF Rotated
    <3> QED
      BY <3>1, <3>2
  <2> QED
    BY <2>14, <2>16, <2>17
<1> QED
  BY <1>4, <1>5

\* A block that is no part of a rotated loop's do-while leads to no rotated
\* header, and into a spliced latch only as the header in front of it.
LEMMA OwnEdge ==
  ASSUME Planned, NEW c \in Blocks, c \notin RotatedLatches, c \notin RotatedPreheaders,
         NEW t \in Blocks, c \in Preds(g, t), NEW rest, Follows(c, rest), t \in Spliced
  PROVE  Follows(t, rest)
<1>1. InputOK
  BY DEF Planned
<1>2. \A l \in Rotated : c # l.latch /\ c # l.preheader
  BY DEF RotatedLatches, RotatedPreheaders, Rotated
<1>3. ASSUME NEW l \in Rotated PROVE t # l.header
  <2>1. l \in loops
    BY <1>1, RotatedFacts
  <2>2. Preds(g, l.header) = {l.latch, l.preheader}
    BY <1>1, <2>1, LoopFacts
  <2> QED
    BY <1>2, <2>2
<1>4. SUFFICES ASSUME NEW l \in Rotated, t = l.latch
               PROVE  \E after \in Continuations : rest = AfterLatch(l, after)
  BY <1>3 DEF Follows
<1>5. LatchStaysInline(t)
  BY <1>4 DEF Spliced, RotatedLatches, Rotated
<1>6. PICK m \in Rotated : m.latch = t /\ (m.latch = m.header \/ HeaderGotoLatch(m))
  BY <1>5 DEF LatchStaysInline, Rotated
<1>7. m = l
  BY <1>1, <1>4, <1>6, OneLoopPerLatch
<1>8. HeaderGotoLatch(l) /\ l.header # l.latch
  BY <1>3, <1>4, <1>6, <1>7
<1>9. Preds(g, l.latch) = {l.header}
  BY <1>1, <1>8 DEF InputOK, LoopContract, HeaderGotoLatch, Rotated
<1>10. c = l.header
  BY <1>4, <1>9
<1> QED
  BY <1>8, <1>10 DEF Follows

\* Behind a do-while there is no header and no spliced latch of a rotated loop.
LEMMA ExitFollows ==
  ASSUME Planned, NEW k0 \in Rotated, AfterDoWhile(k0) \in Spliced, NEW rest
  PROVE  Follows(AfterDoWhile(k0), rest)
<1> DEFINE t == AfterDoWhile(k0)
           c == k0.latch
<1>1. InputOK
  BY DEF Planned
<1>2. /\ c \in Blocks /\ t \in Blocks /\ t \notin k0.blocks /\ c \in k0.blocks
      /\ g.term[c] = "cond" /\ Len(g.succ[c]) = 2 /\ k0.header \in k0.blocks
      /\ c \in Preds(g, t)
  <2>1. /\ c \in Blocks /\ t \in Blocks /\ t \notin k0.blocks /\ c \in k0.blocks
        /\ g.term[c] = "cond" /\ Len(g.succ[c]) = 2 /\ k0.header \in k0.blocks
        /\ DOMAIN g.succ[c] = {1, 2} /\ (g.succ[c][1] = t \/ g.succ[c][2] = t)
    BY <1>1, RotatedFacts
  <2> QED
    BY <2>1 DEF Preds, Succs
<1> HIDE DEF t, c
<1>3. ASSUME NEW l \in Rotated, t = l.header
      PROVE  FALSE
  <2>1. c \in {l.latch, l.preheader}
    BY <1>1, <1>2, <1>3, RotatedFacts, LoopFacts
  <2>2. c # l.preheader
    BY <1>1, <1>2, RotatedFacts
  <2>3. l = k0
    BY <1>1, <2>1, <2>2, OneLoopPerLatch DEF c
  <2> QED
    BY <1>2, <1>3, <2>3
<1>4. ASSUME NEW l \in Rotated, t = l.latch
      PROVE  FALSE
  <2>1. LatchStaysInline(t)
    BY <1>4 DEF Spliced, RotatedLatches, Rotated, t
  <2>2. PICK m \in Rotated : m.latch = t /\ (m.latch = m.header \/ HeaderGotoLatch(m))
    BY <2>1 DEF LatchStaysInline, Rotated
  <2>3. m.latch # m.header
    BY <1>3, <2>2
  <2>4. Preds(g, m.latch) = {m.header} /\ g.succ[m.header] = <<m.latch>>
    BY <1>1, <2>2, <2>3 DEF InputOK, LoopContract, HeaderGotoLatch, Rotated
  <2>5. c = m.header
    BY <1>2, <2>2, <2>4
  <2> QED
    BY <1>2, <2>4, <2>5
<1> QED
  BY <1>3, <1>4 DEF Follows, t

\* The header's code in the do-while is followed by what its end needs.
LEMMA HeaderFollows ==
  ASSUME Planned, NEW l \in Rotated, NEW rest \in Continuations
  PROVE  Follows(l.header, AfterHeader(l, rest))
<1>1. InputOK
  BY DEF Planned
<1> SUFFICES ASSUME NEW m \in Rotated,
                    l.header = m.latch \/ (l.header = m.header /\ HeaderGotoLatch(m))
             PROVE  m = l /\ (l.header = l.latch \/ HeaderGotoLatch(l))
  BY DEF Follows, AfterHeader
<1>2. CASE l.header = m.latch
  BY <1>1, <1>2, HeaderIsNoLatch DEF Rotated
<1>3. CASE l.header = m.header /\ HeaderGotoLatch(m)
  BY <1>1, <1>3, RotatedFacts DEF InputOK, LoopContract
<1> QED
  BY <1>2, <1>3

-----------------------------------------------------------------------------
(* What the running program has still to do, after the straight-line code   *)
(* of block c with outcome o; lp are the sources of the phi variables.     *)

Enters(t, c, o) ==
  IF c = NoBlock THEN t = Entry ELSE o \in DOMAIN g.succ[c] /\ g.succ[c][o] = t

PhiOK(t, c, lp) == NoSwitchPhis /\ t \in g.phis => lp[t] = c

Ready(t, c, o, lp) == Enters(t, c, o) /\ PhiOK(t, c, lp)

AtBody(code, c, o, lp) ==
  \E t \in Blocks : \E rest \in Continuations :
    /\ code = Cons(Body(t), TermCode(Spliced, t) \o rest)
    /\ Ready(t, c, o, lp)
    /\ Follows(t, rest)

AtBranch(code, c, o) ==
  /\ c \in Blocks /\ c \notin RotatedLatches /\ c \notin RotatedPreheaders
  /\ o \in DOMAIN g.succ[c]
  /\ \E rest \in Continuations :
       /\ \/ g.term[c] = "cond" /\ code = Cons(IfCode(Spliced, c), rest)
          \/ g.term[c] = "switch" /\ code = Cons(SwitchCode(Spliced, c), rest)
       /\ Follows(c, rest)

AtRet(code, c) ==
  /\ c \in Blocks /\ g.term[c] = "ret"
  /\ \E rest \in Continuations : code = Cons(ParseRETURN(c), rest)

AtEdgePhi(code, c, o) ==
  /\ c \in Blocks
  /\ \E t \in Blocks : \E rest \in Continuations :
       /\ code = Cons(PhiStmt(c, t), Cons(JumpStmt(t), rest))
       /\ Enters(t, c, o)
       /\ t \in Spliced => Follows(t, rest)

AtJump(code, c, o, lp) ==
  \E t \in Blocks : \E rest \in Continuations :
    /\ code = Cons(JumpStmt(t), rest)
    /\ Ready(t, c, o, lp)
    /\ t \in Spliced => Follows(t, rest)

AtPreheaderPhi(code, c, o) ==
  \E l \in Rotated : \E rest \in Continuations :
    /\ code = Cons(PhiStmt(l.preheader, l.header),
                   Cons(DoLoop(Spliced, l), WayOut(Spliced, l) \o rest))
    /\ c = l.preheader
    /\ Enters(l.header, c, o)

AtDo(code, c, o, lp) ==
  \E l \in Rotated : \E rest \in Continuations :
    /\ code = Cons(DoLoop(Spliced, l), WayOut(Spliced, l) \o rest)
    /\ Ready(l.header, c, o, lp)

AtLatchPhi(code, c, o, lp) ==
  \E l \in Rotated : \E rest \in Continuations :
    /\ l.header # l.latch
    /\ code = Cons(LatchPhi(l), Cons(JumpStmt(l.header), AfterHeader(l, rest)))
    /\ Ready(l.header, c, o, lp)

AtSelect(code, c, o) ==
  \E l \in Rotated : \E rest \in Continuations :
    /\ code = Cons(SelectStmt(l), AtEnd(l, rest))
    /\ c = l.latch /\ o \in {1, 2}

AtWhile(code, c, o, lp) ==
  \E l \in Rotated : \E rest \in Continuations :
    /\ code = AtEnd(l, rest)
    /\ c = l.latch /\ o \in {1, 2}
    /\ g.succ[c][o] = l.header => PhiOK(l.header, c, lp)

RunState(code, c, o, lp) ==
  \/ c \in Blocks /\ g.term[c] = "unreachable"
  \/ AtBody(code, c, o, lp)
  \/ AtBranch(code, c, o)
  \/ AtRet(code, c)
  \/ AtEdgePhi(code, c, o)
  \/ AtJump(code, c, o, lp)
  \/ AtPreheaderPhi(code, c, o)
  \/ AtDo(code, c, o, lp)
  \/ AtLatchPhi(code, c, o, lp)
  \/ AtSelect(code, c, o)
  \/ AtWhile(code, c, o, lp)

\* The statements of the edge c takes with outcome o.
LEMMA EdgeState ==
  ASSUME Planned, NEW c \in Blocks, NEW o \in DOMAIN g.succ[c], NEW lp,
         NEW t \in Blocks, t = g.succ[c][o],
         NEW rest \in Continuations, t \in Spliced => Follows(t, rest)
  PROVE  RunState(Lift(EdgeCode(Spliced, c, t)) \o rest, c, o, lp)
<1>1. c \in Preds(g, t)
  BY DEF Preds, Succs
<1>2. Enters(t, c, o)
  BY DEF Enters, NoBlock, Blocks
<1>3. CASE t \in g.phis
  <2>1. Lift(EdgeCode(Spliced, c, t)) \o rest = Cons(PhiStmt(c, t), Cons(JumpStmt(t), rest))
    BY <1>1, <1>3, EdgeForm
  <2> QED
    BY <1>2, <2>1 DEF RunState, AtEdgePhi
<1>4. CASE t \notin g.phis
  <2>1. Lift(EdgeCode(Spliced, c, t)) \o rest = Cons(JumpStmt(t), rest)
    BY <1>4, EdgeForm
  <2>2. Ready(t, c, o, lp)
    BY <1>2, <1>4 DEF Ready, PhiOK
  <2> QED
    BY <2>1, <2>2 DEF RunState, AtJump
<1> QED
  BY <1>3, <1>4

\* The body of a do-while whose header is about to be entered.
LEMMA ArmState ==
  ASSUME Planned, NEW l \in Rotated, NEW c, NEW o, NEW lp, Ready(l.header, c, o, lp),
         NEW rest \in Continuations
  PROVE  RunState(Lift(LoopArm(Spliced, l)) \o AtEnd(l, rest), c, o, lp)
<1> DEFINE hasPhi == l.header # l.latch /\ l.latch \in g.phis /\ l.header \in Preds(g, l.latch)
<1>1. /\ AfterHeader(l, rest) \in Continuations
      /\ Lift(LoopArm(Spliced, l)) \o AtEnd(l, rest)
           = IF hasPhi THEN Cons(LatchPhi(l), Cons(JumpStmt(l.header), AfterHeader(l, rest)))
             ELSE Cons(JumpStmt(l.header), AfterHeader(l, rest))
  BY ArmForm DEF Planned
<1>2. Follows(l.header, AfterHeader(l, rest)) /\ l.header \in Blocks
  BY HeaderFollows, RotatedFacts DEF Planned
<1>3. CASE hasPhi
  BY <1>1, <1>3 DEF RunState, AtLatchPhi
<1>4. CASE ~hasPhi
  BY <1>1, <1>2, <1>4 DEF RunState, AtJump
<1> QED
  BY <1>3, <1>4

\* The statements of a block behind its straight-line code.
LEMMA TermState ==
  ASSUME Planned, NEW t \in Blocks, NEW rest \in Continuations, Follows(t, rest), NEW lp,
         NEW o \in Outcomes(t)
  PROVE  RunState(TermCode(Spliced, t) \o rest, t, o, lp)
<1>1. InputOK /\ t # NoBlock
  BY DEF Planned, Blocks, NoBlock
<1>2. CASE t \in RotatedLatches
  <2>1. PICK l \in Rotated : l.latch = t
    BY <1>2 DEF RotatedLatches, Rotated
  <2>2. PICK after \in Continuations : rest = AfterLatch(l, after)
    BY <2>1 DEF Follows
  <2>3. TermCode(Spliced, t) \o rest = rest
    <3>1. TermCode(Spliced, t) = <<>>
      BY <1>2 DEF TermCode
    <3>2. <<>> \o rest = rest
      <4>1. rest \in Seq(RunStmts)
        BY DEF Continuations
      <4> HIDE DEF Continuations
      <4> QED
        BY <4>1
    <3> QED
      BY <3>1, <3>2
  <2>4. o \in {1, 2}
    <3>1. DOMAIN g.succ[t] = {1, 2} /\ Len(g.succ[t]) = 2
      BY <1>1, <2>1, RotatedFacts
    <3>2. g.succ[t] # <<>>
      <4>1. DOMAIN <<>> = {} /\ 1 \in {1, 2}
        OBVIOUS
      <4> QED
        BY <3>1, <4>1, Zenon
    <3>3. Outcomes(t) = DOMAIN g.succ[t]
      BY <3>2 DEF Outcomes
    <3> QED
      BY <3>1, <3>3
  <2>5. CASE l.header \in g.phis
    BY <2>1, <2>2, <2>3, <2>4, <2>5 DEF AfterLatch, RunState, AtSelect
  <2>6. CASE l.header \notin g.phis
    BY <2>1, <2>2, <2>3, <2>4, <2>6 DEF AfterLatch, RunState, AtWhile, PhiOK
  <2> QED
    BY <2>5, <2>6
<1>3. CASE t \notin RotatedLatches /\ t \in RotatedPreheaders
  <2>1. PICK l \in Rotated : l.preheader = t /\ LoopAt(t) = l
    BY <1>1, <1>3, LoopAtIs DEF RotatedPreheaders
  <2>2. TermCode(Spliced, t) = LoopCode(Spliced, l)
    BY <1>3, <2>1 DEF TermCode
  <2>3. Enters(l.header, t, o)
    <3>1. DOMAIN g.succ[t] = {1} /\ g.succ[t][1] = l.header /\ Len(g.succ[t]) = 1
      <4>1. g.succ[t] \in Seq(Blocks) /\ Len(g.succ[t]) = 1 /\ g.succ[t][1] = l.header
        BY <1>1, <2>1, RotatedFacts
      <4> QED
        BY <4>1
    <3>2. g.succ[t] # <<>>
      BY <3>1
    <3> QED
      BY <1>1, <3>1, <3>2 DEF Outcomes, Enters
  <2>4. CASE l.header \in g.phis
    <3>1. LoopCode(Spliced, l) \o rest
            = Cons(PhiStmt(l.preheader, l.header), Cons(DoLoop(Spliced, l), WayOut(Spliced, l) \o rest))
      BY <1>1, <2>4, LoopForm
    <3> QED
      BY <2>1, <2>2, <2>3, <3>1 DEF RunState, AtPreheaderPhi
  <2>5. CASE l.header \notin g.phis
    <3>1. LoopCode(Spliced, l) \o rest = Cons(DoLoop(Spliced, l), WayOut(Spliced, l) \o rest)
      BY <1>1, <2>5, LoopForm
    <3>2. Ready(l.header, t, o, lp)
      BY <2>3, <2>5 DEF Ready, PhiOK
    <3> QED
      BY <2>2, <3>1, <3>2 DEF RunState, AtDo
  <2> QED
    BY <2>4, <2>5
<1>4. CASE t \notin RotatedLatches /\ t \notin RotatedPreheaders
  <2>1. CASE g.term[t] = "ret"
    <3>1. TermCode(Spliced, t) = <<ParseRETURN(t)>>
      BY <1>4, <2>1 DEF TermCode
    <3> QED
      BY <2>1, <3>1 DEF RunState, AtRet, Cons
  <2>2. CASE g.term[t] = "br"
    <3> DEFINE s == g.succ[t][1]
    <3>1. TermCode(Spliced, t) = Lift(EdgeCode(Spliced, t, s))
      BY <1>4, <2>2 DEF TermCode
    <3>2. s \in Blocks /\ DOMAIN g.succ[t] = {1} /\ g.succ[t] # <<>>
      <4> DEFINE targets == g.succ[t]
      <4>1. targets \in Seq(Blocks) /\ Len(targets) = 1
        BY <1>1, <2>2, SuccType DEF InputOK, TerminatorsOK
      <4> HIDE DEF targets
      <4>2. targets[1] \in Blocks
        BY <4>1
      <4>3. DOMAIN targets = {1}
        BY <4>1
      <4>4. targets # <<>>
        BY <4>1
      <4> QED
        BY <4>2, <4>3, <4>4 DEF targets
    <3>3. o \in DOMAIN g.succ[t] /\ o = 1
      BY <3>2 DEF Outcomes
    <3>4. t \in Preds(g, s)
      BY <3>2 DEF Preds, Succs
    <3> HIDE DEF s
    <3>5. s \in Spliced => Follows(s, rest)
      BY <1>4, <3>2, <3>4, OwnEdge
    <3>6. RunState(Lift(EdgeCode(Spliced, t, s)) \o rest, t, o, lp)
      <4>1. s = g.succ[t][o]
        BY <3>3 DEF s
      <4> QED
        BY <3>2, <3>3, <3>5, <4>1, EdgeState
    <3> QED
      BY <3>1, <3>6
  <2>3. CASE g.term[t] = "cond"
    <3>1. TermCode(Spliced, t) = <<IfCode(Spliced, t)>>
      BY <1>4, <2>3 DEF TermCode
    <3>2. Len(g.succ[t]) = 2
      BY <1>1, <2>3 DEF InputOK, TerminatorsOK
    <3>3. o \in DOMAIN g.succ[t]
      BY <3>2 DEF Outcomes
    <3> QED
      BY <1>4, <2>3, <3>1, <3>3 DEF RunState, AtBranch, Cons
  <2>4. CASE g.term[t] = "switch"
    <3>1. TermCode(Spliced, t) = <<SwitchCode(Spliced, t)>>
      BY <1>4, <2>4 DEF TermCode
    <3>2. Len(g.succ[t]) > 0
      BY <1>1, <2>4 DEF InputOK, TerminatorsOK
    <3>3. o \in DOMAIN g.succ[t]
      BY <3>2 DEF Outcomes
    <3> QED
      BY <1>4, <2>4, <3>1, <3>3 DEF RunState, AtBranch, Cons
  <2>5. CASE g.term[t] = "unreachable"
    BY <2>5 DEF RunState
  <2>6. g.term[t] \in TermKinds
    BY <1>1 DEF InputOK, IsFunction
  <2> QED
    BY <2>1, <2>2, <2>3, <2>4, <2>5, <2>6 DEF TermKinds
<1> QED
  BY <1>2, <1>3, <1>4

-----------------------------------------------------------------------------
(* The kinds of the first statements: at most one of the situations above. *)

Kinds(code, c, o, lp) ==
  /\ code # <<>>
  /\ Head(code).op = "body" => AtBody(code, c, o, lp)
  /\ Head(code).op \in {"if", "switch"} => AtBranch(code, c, o)
  /\ Head(code).op = "ret" => AtRet(code, c)
  /\ Head(code).op = "phi" =>
       AtEdgePhi(code, c, o) \/ AtPreheaderPhi(code, c, o) \/ AtLatchPhi(code, c, o, lp)
  /\ Head(code).op \in {"goto", "splice"} => AtJump(code, c, o, lp)
  /\ Head(code).op = "do" => AtDo(code, c, o, lp)
  /\ Head(code).op = "select" => AtSelect(code, c, o)
  /\ Head(code).op = "while" => AtWhile(code, c, o, lp)
  /\ Head(code).op \notin {"latch", "end"}

LEMMA BodyFacts ==
  ASSUME Planned, NEW t \in Blocks, NEW rest \in Continuations
  PROVE  /\ Body(t) \in RunStmts /\ Body(t).op = "body" /\ Body(t).at = t
         /\ TermCode(Spliced, t) \o rest \in Continuations
<1>1. Simple("body", t, t) \in SimpleStmts
  BY SimpleType DEF StmtOps
<1>2. Body(t) \in Stmts
  BY <1>1, PlainType DEF Body
<1>3. Body(t) \in RunStmts
  BY <1>2, StmtsRun
<1>4. Body(t).op = "body" /\ Body(t).at = t
  BY DEF Body, Plain, Nested, Simple
<1>5. TermCode(Spliced, t) \in Continuations
  BY TermCodeType, StmtsRun DEF Planned
<1>6. TermCode(Spliced, t) \o rest \in Continuations
  BY <1>5 DEF Continuations
<1> QED
  BY <1>3, <1>4, <1>6

LEMMA BranchFacts ==
  ASSUME Planned, NEW c \in Blocks
  PROVE  /\ g.term[c] = "cond" =>
              /\ IfCode(Spliced, c) \in RunStmts /\ IfCode(Spliced, c).op = "if"
              /\ IfCode(Spliced, c).at = c
              /\ \A i \in 1..2 : IfCode(Spliced, c).arms[i] = EdgeCode(Spliced, c, g.succ[c][i])
         /\ g.term[c] = "switch" =>
              /\ SwitchCode(Spliced, c) \in RunStmts /\ SwitchCode(Spliced, c).op = "switch"
              /\ SwitchCode(Spliced, c).at = c
              /\ \A i \in 1..Len(g.succ[c]) :
                   SwitchCode(Spliced, c).arms[i] = <<JumpTo(Spliced, g.succ[c][i])>>
         /\ ParseRETURN(c) \in RunStmts /\ ParseRETURN(c).op = "ret"
<1>1. InputOK
  BY DEF Planned
<1>2. ASSUME g.term[c] = "cond"
      PROVE  IfCode(Spliced, c) \in RunStmts
  <2> DEFINE arms == [i \in 1..2 |-> EdgeCode(Spliced, c, g.succ[c][i])]
  <2>1. \A i \in 1..2 : EdgeCode(Spliced, c, g.succ[c][i]) \in Seq(SimpleStmts)
    BY <1>1, <1>2, SuccType, EdgeCodeType
  <2>2. arms \in Seq(Seq(SimpleStmts))
    BY <2>1
  <2> HIDE DEF arms
  <2>3. Nested("if", c, c, FALSE, arms) \in RunStmts
    BY <2>2 DEF Nested, RunStmts, StmtOps
  <2> QED
    BY <2>3 DEF IfCode, arms
<1>3. ASSUME g.term[c] = "switch"
      PROVE  SwitchCode(Spliced, c) \in RunStmts
  <2> DEFINE arms == [i \in 1..Len(g.succ[c]) |-> <<JumpTo(Spliced, g.succ[c][i])>>]
  <2>1. \A i \in 1..Len(g.succ[c]) : <<JumpTo(Spliced, g.succ[c][i])>> \in Seq(SimpleStmts)
    BY <1>1, SuccType, JumpToType
  <2>2. Len(g.succ[c]) \in Nat
    BY <1>1, SuccType
  <2>3. arms \in Seq(Seq(SimpleStmts))
    BY <2>1, <2>2
  <2> HIDE DEF arms
  <2>4. Nested("switch", c, c, FALSE, arms) \in RunStmts
    BY <2>3 DEF Nested, RunStmts, StmtOps
  <2> QED
    BY <2>4 DEF SwitchCode, arms
<1>4. /\ IfCode(Spliced, c).op = "if" /\ IfCode(Spliced, c).at = c
      /\ \A i \in 1..2 : IfCode(Spliced, c).arms[i] = EdgeCode(Spliced, c, g.succ[c][i])
  BY DEF IfCode, Nested
<1>5. /\ SwitchCode(Spliced, c).op = "switch" /\ SwitchCode(Spliced, c).at = c
      /\ \A i \in 1..Len(g.succ[c]) :
           SwitchCode(Spliced, c).arms[i] = <<JumpTo(Spliced, g.succ[c][i])>>
  BY DEF SwitchCode, Nested
<1>6. ParseRETURN(c) \in RunStmts /\ ParseRETURN(c).op = "ret"
  <2>1. Simple("ret", c, c) \in SimpleStmts
    BY SimpleType DEF StmtOps
  <2>2. ParseRETURN(c) \in Stmts
    BY <2>1, PlainType DEF ParseRETURN
  <2>3. ParseRETURN(c).op = "ret"
    BY DEF ParseRETURN, Plain, Nested, Simple
  <2> QED
    BY <2>2, <2>3, StmtsRun
<1> QED
  BY <1>2, <1>3, <1>4, <1>5, <1>6

LEMMA HeadKinds ==
  ASSUME Planned, NEW code, NEW c, NEW o, NEW lp, RunState(code, c, o, lp)
  PROVE  (c \in Blocks /\ g.term[c] = "unreachable") \/ Kinds(code, c, o, lp)
<1>1. InputOK
  BY DEF Planned
<1>2. CASE AtBody(code, c, o, lp)
  <2>1. PICK t \in Blocks, rest \in Continuations : code = Cons(Body(t), TermCode(Spliced, t) \o rest)
    BY <1>2 DEF AtBody
  <2>2. code # <<>> /\ Head(code).op = "body"
    <3> DEFINE more == TermCode(Spliced, t) \o rest
    <3>1. Body(t) \in RunStmts /\ Body(t).op = "body" /\ more \in Continuations
      BY BodyFacts
    <3> HIDE DEF more
    <3> QED
      BY <2>1, <3>1, ConsFacts DEF more
  <2> QED
    BY <1>2, <2>2 DEF Kinds
<1>3. CASE AtBranch(code, c, o)
  <2>1. code # <<>> /\ Head(code).op \in {"if", "switch"}
    BY <1>3, BranchFacts, ConsFacts DEF AtBranch
  <2> QED
    BY <1>3, <2>1 DEF Kinds
<1>4. CASE AtRet(code, c)
  <2>1. code # <<>> /\ Head(code).op = "ret"
    BY <1>4, BranchFacts, ConsFacts DEF AtRet
  <2> QED
    BY <1>4, <2>1 DEF Kinds
<1>5. CASE AtEdgePhi(code, c, o)
  <2>1. code # <<>> /\ Head(code).op = "phi"
    <3>1. PICK t \in Blocks, rest \in Continuations :
            code = Cons(PhiStmt(c, t), Cons(JumpStmt(t), rest))
      BY <1>5 DEF AtEdgePhi
    <3>2. PhiStmt(c, t) \in RunStmts /\ PhiStmt(c, t).op = "phi"
      BY <1>5, PhiStmtType DEF AtEdgePhi
    <3>3. Cons(JumpStmt(t), rest) \in Continuations
      BY JumpStmtType, ConsFacts
    <3> QED
      BY <3>1, <3>2, <3>3, ConsFacts
  <2> QED
    BY <1>5, <2>1 DEF Kinds
<1>6. CASE AtJump(code, c, o, lp)
  <2>1. code # <<>> /\ Head(code).op \in {"goto", "splice"}
    BY <1>6, JumpStmtType, ConsFacts DEF AtJump
  <2> QED
    BY <1>6, <2>1 DEF Kinds
<1>7. CASE AtPreheaderPhi(code, c, o)
  <2>1. code # <<>> /\ Head(code).op = "phi"
    <3>1. PICK l \in Rotated, rest \in Continuations :
            code = Cons(PhiStmt(l.preheader, l.header),
                        Cons(DoLoop(Spliced, l), WayOut(Spliced, l) \o rest))
      BY <1>7 DEF AtPreheaderPhi
    <3>2. PhiStmt(l.preheader, l.header) \in RunStmts /\ PhiStmt(l.preheader, l.header).op = "phi"
      <4>1. l.preheader \in Blocks /\ l.header \in Blocks
        BY <1>1, RotatedFacts
      <4> QED
        BY <4>1, PhiStmtType
    <3> DEFINE more == WayOut(Spliced, l) \o rest
    <3>3. more \in Continuations /\ DoLoop(Spliced, l) \in RunStmts
      BY <1>1, AfterLatchType, WhileType
    <3> HIDE DEF more
    <3>4. Cons(DoLoop(Spliced, l), more) \in Continuations
      BY <3>3, ConsFacts
    <3> QED
      BY <3>1, <3>2, <3>4, ConsFacts DEF more
  <2> QED
    BY <1>7, <2>1 DEF Kinds
<1>8. CASE AtDo(code, c, o, lp)
  <2>1. code # <<>> /\ Head(code).op = "do"
    <3>1. PICK l \in Rotated, rest \in Continuations :
            code = Cons(DoLoop(Spliced, l), WayOut(Spliced, l) \o rest)
      BY <1>8 DEF AtDo
    <3> DEFINE more == WayOut(Spliced, l) \o rest
    <3>2. more \in Continuations /\ DoLoop(Spliced, l) \in RunStmts /\ DoLoop(Spliced, l).op = "do"
      BY <1>1, AfterLatchType, WhileType
    <3> HIDE DEF more
    <3> QED
      BY <3>1, <3>2, ConsFacts DEF more
  <2> QED
    BY <1>8, <2>1 DEF Kinds
<1>9. CASE AtLatchPhi(code, c, o, lp)
  <2>1. code # <<>> /\ Head(code).op = "phi"
    <3>1. PICK l \in Rotated, rest \in Continuations :
            code = Cons(LatchPhi(l), Cons(JumpStmt(l.header), AfterHeader(l, rest)))
      BY <1>9 DEF AtLatchPhi
    <3>2. LatchPhi(l) \in RunStmts /\ LatchPhi(l).op = "phi" /\ l.header \in Blocks
      BY <1>1, RotatedFacts, StmtTypes
    <3>3. AfterHeader(l, rest) \in Continuations
      BY <1>1, ArmForm
    <3>4. Cons(JumpStmt(l.header), AfterHeader(l, rest)) \in Continuations
      BY <3>2, <3>3, JumpStmtType, ConsFacts
    <3> QED
      BY <3>1, <3>2, <3>4, ConsFacts
  <2> QED
    BY <1>9, <2>1 DEF Kinds
<1>10. CASE AtSelect(code, c, o)
  <2>1. code # <<>> /\ Head(code).op = "select"
    <3>1. PICK l \in Rotated, rest \in Continuations : code = Cons(SelectStmt(l), AtEnd(l, rest))
      BY <1>10 DEF AtSelect
    <3>2. SelectStmt(l) \in RunStmts /\ SelectStmt(l).op = "select"
      BY <1>1, RotatedFacts, StmtTypes
    <3>3. AtEnd(l, rest) \in Continuations
      BY <1>1, AfterLatchType
    <3> QED
      BY <3>1, <3>2, <3>3, ConsFacts
  <2> QED
    BY <1>10, <2>1 DEF Kinds
<1>11. CASE AtWhile(code, c, o, lp)
  <2>1. code # <<>> /\ Head(code).op = "while"
    <3>1. PICK l \in Rotated, rest \in Continuations : code = AtEnd(l, rest)
      BY <1>11 DEF AtWhile
    <3> DEFINE more == WayOut(Spliced, l) \o rest
    <3>2. more \in Continuations /\ WhileStmt(l) \in RunStmts /\ WhileStmt(l).op = "while"
      BY <1>1, AfterLatchType, WhileType
    <3>3. code = Cons(WhileStmt(l), more)
      BY <3>1 DEF AtEnd
    <3> HIDE DEF more
    <3> QED
      BY <3>2, <3>3, ConsFacts
  <2> QED
    BY <1>11, <2>1 DEF Kinds
<1> QED
  BY <1>2, <1>3, <1>4, <1>5, <1>6, <1>7, <1>8, <1>9, <1>10, <1>11 DEF RunState

-----------------------------------------------------------------------------
(* One statement of the running program, situation by situation. *)

LastPhis == [Blocks -> Blocks \cup {NoBlock}]

LEMMA BodyStep ==
  ASSUME Planned, NEW code, NEW c, NEW o, NEW lp, AtBody(code, c, o, lp)
  PROVE  /\ Head(code).at \in Blocks
         /\ Ready(Head(code).at, c, o, lp)
         /\ \A o2 \in Outcomes(Head(code).at) : RunState(Tail(code), Head(code).at, o2, lp)
<1>1. PICK t \in Blocks, rest \in Continuations :
        /\ code = Cons(Body(t), TermCode(Spliced, t) \o rest)
        /\ Ready(t, c, o, lp)
        /\ Follows(t, rest)
  BY DEF AtBody
<1> DEFINE more == TermCode(Spliced, t) \o rest
<1>2. Body(t) \in RunStmts /\ Body(t).at = t /\ more \in Continuations
  BY BodyFacts
<1>3. \A o2 \in Outcomes(t) : RunState(more, t, o2, lp)
  BY <1>1, TermState
<1>4. code = Cons(Body(t), more)
  BY <1>1
<1> HIDE DEF more
<1>5. Head(code) = Body(t) /\ Tail(code) = more
  BY <1>2, <1>4, ConsFacts
<1> QED
  BY <1>1, <1>2, <1>3, <1>5

LEMMA PhiStep ==
  ASSUME Planned, NEW code, NEW c, NEW o, NEW lp \in LastPhis, Kinds(code, c, o, lp),
         Head(code).op = "phi"
  PROVE  /\ Head(code).at \in Blocks /\ Head(code).to \in Blocks
         /\ RunState(Tail(code), c, o, [lp EXCEPT ![Head(code).to] = Head(code).at])
<1>1. InputOK
  BY DEF Planned
<1>2. CASE AtEdgePhi(code, c, o)
  <2>1. PICK t \in Blocks, rest \in Continuations :
          /\ c \in Blocks
          /\ code = Cons(PhiStmt(c, t), Cons(JumpStmt(t), rest))
          /\ Enters(t, c, o)
          /\ t \in Spliced => Follows(t, rest)
    BY <1>2 DEF AtEdgePhi
  <2>2. PhiStmt(c, t) \in RunStmts /\ PhiStmt(c, t).at = c /\ PhiStmt(c, t).to = t
    BY <2>1, PhiStmtType
  <2>3. Cons(JumpStmt(t), rest) \in Continuations
    BY JumpStmtType, ConsFacts
  <2>4. Head(code) = PhiStmt(c, t) /\ Tail(code) = Cons(JumpStmt(t), rest)
    BY <2>1, <2>2, <2>3, ConsFacts
  <2>5. [lp EXCEPT ![t] = c][t] = c
    BY DEF LastPhis
  <2>6. RunState(Cons(JumpStmt(t), rest), c, o, [lp EXCEPT ![t] = c])
    BY <2>1, <2>5 DEF RunState, AtJump, Ready, PhiOK
  <2> QED
    BY <2>1, <2>2, <2>4, <2>6
<1>3. CASE AtPreheaderPhi(code, c, o)
  <2>1. PICK l \in Rotated, rest \in Continuations :
          /\ code = Cons(PhiStmt(l.preheader, l.header),
                         Cons(DoLoop(Spliced, l), WayOut(Spliced, l) \o rest))
          /\ c = l.preheader
          /\ Enters(l.header, c, o)
    BY <1>3 DEF AtPreheaderPhi
  <2> DEFINE more == WayOut(Spliced, l) \o rest
             phi == PhiStmt(l.preheader, l.header)
             do == DoLoop(Spliced, l)
  <2>2. l.preheader \in Blocks /\ l.header \in Blocks
    BY <1>1, RotatedFacts
  <2>3. phi \in RunStmts /\ phi.at = c /\ phi.to = l.header
    BY <2>1, <2>2, PhiStmtType
  <2>4. more \in Continuations /\ do \in RunStmts
    BY <1>1, AfterLatchType, WhileType
  <2>5. code = Cons(phi, Cons(do, more))
    BY <2>1
  <2>6. [lp EXCEPT ![l.header] = c][l.header] = c
    BY <2>2 DEF LastPhis
  <2>7. RunState(Cons(do, more), c, o, [lp EXCEPT ![l.header] = c])
    BY <2>1, <2>6 DEF RunState, AtDo, Ready, PhiOK
  <2> HIDE DEF more, phi, do
  <2>8. Cons(do, more) \in Continuations
    BY <2>4, ConsFacts
  <2>9. Head(code) = phi /\ Tail(code) = Cons(do, more)
    BY <2>3, <2>5, <2>8, ConsFacts
  <2> QED
    BY <2>1, <2>2, <2>3, <2>7, <2>9
<1>4. CASE AtLatchPhi(code, c, o, lp)
  <2>1. PICK l \in Rotated, rest \in Continuations :
          /\ l.header # l.latch
          /\ code = Cons(LatchPhi(l), Cons(JumpStmt(l.header), AfterHeader(l, rest)))
          /\ Ready(l.header, c, o, lp)
    BY <1>4 DEF AtLatchPhi
  <2>2. l.latch \in Blocks /\ l.header \in Blocks
    BY <1>1, RotatedFacts
  <2>3. LatchPhi(l) \in RunStmts /\ LatchPhi(l).at = l.header /\ LatchPhi(l).to = l.latch
    BY <1>1, StmtTypes
  <2>4. AfterHeader(l, rest) \in Continuations
    BY <1>1, ArmForm
  <2>5. Cons(JumpStmt(l.header), AfterHeader(l, rest)) \in Continuations
    BY <2>2, <2>4, JumpStmtType, ConsFacts
  <2>6. Head(code) = LatchPhi(l) /\ Tail(code) = Cons(JumpStmt(l.header), AfterHeader(l, rest))
    BY <2>1, <2>3, <2>5, ConsFacts
  <2>7. [lp EXCEPT ![l.latch] = l.header][l.header] = lp[l.header]
    BY <2>1, <2>2 DEF LastPhis
  <2>8. Ready(l.header, c, o, [lp EXCEPT ![l.latch] = l.header])
    BY <2>1, <2>7 DEF Ready, PhiOK
  <2>9. Follows(l.header, AfterHeader(l, rest))
    BY HeaderFollows
  <2>10. RunState(Cons(JumpStmt(l.header), AfterHeader(l, rest)), c, o,
                  [lp EXCEPT ![l.latch] = l.header])
    BY <2>2, <2>4, <2>8, <2>9 DEF RunState, AtJump
  <2> QED
    BY <2>2, <2>3, <2>6, <2>10
<1> QED
  BY <1>2, <1>3, <1>4 DEF Kinds

LEMMA SelectStep ==
  ASSUME Planned, NEW code, NEW c, NEW o, NEW lp \in LastPhis, AtSelect(code, c, o)
  PROVE  /\ Head(code).at = c /\ c \in Blocks /\ Head(code).to \in Blocks
         /\ RunState(Tail(code), c, o,
                     IF (o = 1) # Head(code).neg THEN [lp EXCEPT ![Head(code).to] = Head(code).at]
                     ELSE lp)
<1>1. InputOK
  BY DEF Planned
<1>2. PICK l \in Rotated, rest \in Continuations :
        /\ code = Cons(SelectStmt(l), AtEnd(l, rest))
        /\ c = l.latch /\ o \in {1, 2}
  BY DEF AtSelect
<1>3. /\ SelectStmt(l) \in RunStmts /\ SelectStmt(l).at = l.latch
      /\ SelectStmt(l).to = l.header /\ SelectStmt(l).neg = Negated(l)
  BY <1>1, StmtTypes
<1>4. AtEnd(l, rest) \in Continuations
  BY <1>1, AfterLatchType
<1>5. Head(code) = SelectStmt(l) /\ Tail(code) = AtEnd(l, rest)
  BY <1>2, <1>3, <1>4, ConsFacts
<1>6. l.latch \in Blocks /\ l.header \in Blocks
  BY <1>1, RotatedFacts
<1>7. g.succ[c][o] = l.header => (o = 1) # Negated(l)
  <2>1. AfterDoWhile(l) # l.header
    BY <1>1, RotatedFacts
  <2>2. \/ /\ g.succ[l.latch][1] = l.header /\ g.succ[l.latch][2] = AfterDoWhile(l)
           /\ Negated(l) = FALSE
        \/ /\ g.succ[l.latch][2] = l.header /\ g.succ[l.latch][1] = AfterDoWhile(l)
           /\ Negated(l) = TRUE
    BY <1>1, RotatedFacts
  <2> QED
    BY <1>2, <2>1, <2>2
<1>8. [lp EXCEPT ![l.header] = l.latch][l.header] = c
  BY <1>2, <1>6 DEF LastPhis
<1>9. RunState(AtEnd(l, rest), c, o,
               IF (o = 1) # Negated(l) THEN [lp EXCEPT ![l.header] = l.latch] ELSE lp)
  BY <1>2, <1>7, <1>8 DEF RunState, AtWhile, PhiOK
<1> QED
  BY <1>2, <1>3, <1>5, <1>6, <1>9

LEMMA JumpStep ==
  ASSUME Planned, NEW code, NEW c, NEW o, NEW lp, AtJump(code, c, o, lp)
  PROVE  /\ Head(code).op = "goto"
              /\ (OwnBlock(Head(code).to) \/ Wraps(Head(code).to) # {})
              => RunState(FromLabel(Head(code).to), c, o, lp)
         /\ Head(code).op = "splice" => RunState(exprs[Head(code).to] \o Tail(code), c, o, lp)
<1>1. InputOK
  BY DEF Planned
<1>2. PICK t \in Blocks, rest \in Continuations :
        /\ code = Cons(JumpStmt(t), rest)
        /\ Ready(t, c, o, lp)
        /\ t \in Spliced => Follows(t, rest)
  BY DEF AtJump
<1>3. /\ JumpStmt(t) \in RunStmts /\ JumpStmt(t).to = t
      /\ JumpStmt(t).op = IF t \in Spliced THEN "splice" ELSE "goto"
  BY JumpStmtType
<1>4. Head(code) = JumpStmt(t) /\ Tail(code) = rest
  BY <1>2, <1>3, ConsFacts
<1>5. ASSUME Head(code).op = "goto", OwnBlock(t) \/ Wraps(t) # {}
      PROVE  RunState(FromLabel(t), c, o, lp)
  <2>1. t \notin Spliced
    BY <1>3, <1>4, <1>5
  <2>2. PICK more \in Continuations : /\ FromLabel(t) = Cons(Body(t), TermCode(Spliced, t) \o more)
                                      /\ Follows(t, more)
    BY <1>5, <2>1, LabelForm
  <2> QED
    BY <1>2, <2>2 DEF RunState, AtBody
<1>6. ASSUME Head(code).op = "splice"
      PROVE  RunState(exprs[t] \o rest, c, o, lp)
  <2>1. t \in Spliced
    BY <1>3, <1>4, <1>6
  <2> DEFINE term == TermCode(Spliced, t)
             body == <<Body(t)>>
  <2>2. exprs[t] = body \o term
    BY DEF Planned, CodeOf
  <2>3. body \in Continuations /\ term \in Continuations
    <3>1. Body(t) \in RunStmts
      BY BodyFacts
    <3>2. term \in Continuations
      BY <1>1, TermCodeType, StmtsRun
    <3> QED
      BY <3>1, <3>2 DEF Continuations
  <2> HIDE DEF term, body
  <2>4. (body \o term) \o rest = body \o (term \o rest)
    BY <2>3, ConcatAssoc
  <2>5. exprs[t] \o rest = Cons(Body(t), TermCode(Spliced, t) \o rest)
    BY <2>2, <2>4 DEF term, body, Cons
  <2> QED
    BY <1>2, <2>1, <2>5 DEF RunState, AtBody
<1> QED
  BY <1>3, <1>4, <1>5, <1>6

LEMMA BranchStep ==
  ASSUME Planned, NEW code, NEW c, NEW o, NEW lp, AtBranch(code, c, o)
  PROVE  /\ Head(code).at = c
         /\ RunState(Lift(Head(code).arms[o]) \o Tail(code), c, o, lp)
<1>1. InputOK
  BY DEF Planned
<1>2. PICK rest \in Continuations :
        /\ \/ g.term[c] = "cond" /\ code = Cons(IfCode(Spliced, c), rest)
           \/ g.term[c] = "switch" /\ code = Cons(SwitchCode(Spliced, c), rest)
        /\ Follows(c, rest)
  BY DEF AtBranch
<1>3. /\ c \in Blocks /\ c \notin RotatedLatches /\ c \notin RotatedPreheaders
      /\ o \in DOMAIN g.succ[c]
  BY DEF AtBranch
<1> DEFINE t == g.succ[c][o]
<1>4. t \in Blocks /\ c \in Preds(g, t)
  <2>1. g.succ[c] \in Seq(Blocks)
    BY <1>1, <1>3, SuccType
  <2>2. t \in Blocks
    BY <1>3, <2>1
  <2> QED
    BY <1>3, <2>2 DEF Preds, Succs
<1>5. t \in Spliced => Follows(t, rest)
  <2> HIDE DEF t
  <2> QED
    BY <1>2, <1>3, <1>4, OwnEdge
<1>6. CASE g.term[c] = "cond"
  <2>1. /\ IfCode(Spliced, c) \in RunStmts /\ IfCode(Spliced, c).at = c
        /\ \A i \in 1..2 : IfCode(Spliced, c).arms[i] = EdgeCode(Spliced, c, g.succ[c][i])
    BY <1>3, <1>6, BranchFacts
  <2>2. o \in 1..2
    <3>1. Len(g.succ[c]) = 2
      BY <1>1, <1>3, <1>6 DEF InputOK, TerminatorsOK
    <3>2. g.succ[c] \in Seq(Blocks)
      BY <1>1, <1>3, SuccType
    <3> QED
      BY <1>3, <3>1, <3>2
  <2>3. Head(code) = IfCode(Spliced, c) /\ Tail(code) = rest
    BY <1>2, <1>6, <2>1, ConsFacts
  <2>4. Head(code).arms[o] = EdgeCode(Spliced, c, t)
    BY <2>1, <2>2, <2>3
  <2> HIDE DEF t
  <2>5. RunState(Lift(EdgeCode(Spliced, c, t)) \o rest, c, o, lp)
    BY <1>3, <1>4, <1>5, EdgeState DEF t
  <2> QED
    BY <2>1, <2>3, <2>4, <2>5
<1>7. CASE g.term[c] = "switch"
  <2>1. /\ SwitchCode(Spliced, c) \in RunStmts /\ SwitchCode(Spliced, c).at = c
        /\ \A i \in 1..Len(g.succ[c]) :
             SwitchCode(Spliced, c).arms[i] = <<JumpTo(Spliced, g.succ[c][i])>>
    BY <1>3, <1>7, BranchFacts
  <2>2. o \in 1..Len(g.succ[c])
    <3>1. g.succ[c] \in Seq(Blocks)
      BY <1>1, <1>3, SuccType
    <3> QED
      BY <1>3, <3>1
  <2>3. Head(code) = SwitchCode(Spliced, c) /\ Tail(code) = rest
    BY <1>2, <1>7, <2>1, ConsFacts
  <2>4. Head(code).arms[o] = <<JumpTo(Spliced, t)>>
    BY <2>1, <2>2, <2>3
  <2>5. Lift(<<JumpTo(Spliced, t)>>) = <<JumpStmt(t)>>
    BY LiftOne DEF JumpStmt
  <2>6. Ready(t, c, o, lp)
    <3>1. Enters(t, c, o)
      BY <1>3 DEF Enters, NoBlock, Blocks
    <3>2. t \in Succs(g, c)
      BY <1>3 DEF Succs
    <3>3. PhiOK(t, c, lp)
      BY <1>3, <1>7, <3>2 DEF PhiOK, NoSwitchPhis
    <3> QED
      BY <3>1, <3>3 DEF Ready
  <2> HIDE DEF t
  <2>7. RunState(Cons(JumpStmt(t), rest), c, o, lp)
    BY <1>4, <1>5, <2>6 DEF RunState, AtJump
  <2>8. Lift(Head(code).arms[o]) \o Tail(code) = Cons(JumpStmt(t), rest)
    BY <2>3, <2>4, <2>5 DEF Cons
  <2> QED
    BY <2>1, <2>3, <2>7, <2>8
<1> QED
  BY <1>2, <1>6, <1>7

LEMMA DoStep ==
  ASSUME Planned, NEW code, NEW c, NEW o, NEW lp, AtDo(code, c, o, lp)
  PROVE  RunState(Lift(Head(code).arms[1]) \o <<Again(Head(code))>> \o Tail(code), c, o, lp)
<1>1. InputOK
  BY DEF Planned
<1>2. PICK l \in Rotated, rest \in Continuations :
        /\ code = Cons(DoLoop(Spliced, l), WayOut(Spliced, l) \o rest)
        /\ Ready(l.header, c, o, lp)
  BY DEF AtDo
<1> DEFINE more == WayOut(Spliced, l) \o rest
           do == DoLoop(Spliced, l)
           arm == Lift(LoopArm(Spliced, l))
           again == <<WhileStmt(l)>>
<1>3. /\ more \in Continuations /\ do \in RunStmts /\ do.arms[1] = LoopArm(Spliced, l)
      /\ again \in Continuations
  <2>1. WhileStmt(l) \in RunStmts /\ do \in RunStmts /\ do.arms[1] = LoopArm(Spliced, l)
    BY <1>1, WhileType
  <2> QED
    BY <1>1, <2>1, AfterLatchType DEF Continuations
<1>4. arm \in Continuations
  BY <1>1, LoopArmParts, LiftType, StmtsRun
<1>5. code = Cons(do, more)
  BY <1>2
<1>6. RunState(arm \o AtEnd(l, rest), c, o, lp)
  BY <1>2, ArmState
<1>7. AtEnd(l, rest) = again \o more
  BY DEF AtEnd, Cons
<1>8. Again(do) = WhileStmt(l)
  BY DEF WhileStmt
<1> HIDE DEF more, do, again
<1>9. Head(code) = do /\ Tail(code) = more
  BY <1>3, <1>5, ConsFacts
<1>10. Lift(do.arms[1]) = arm /\ <<Again(do)>> = again
  BY <1>3, <1>8 DEF again
<1> HIDE DEF arm
<1>11. (arm \o again) \o more = arm \o (again \o more)
  BY <1>3, <1>4, ConcatAssoc
<1> QED
  BY <1>6, <1>7, <1>9, <1>10, <1>11

LEMMA WhileStep ==
  ASSUME Planned, NEW code, NEW c, NEW o, NEW lp, AtWhile(code, c, o, lp)
  PROVE  /\ Head(code).at = c
         /\ (o = 1) # Head(code).neg => RunState(Lift(Head(code).arms[1]) \o code, c, o, lp)
         /\ ~((o = 1) # Head(code).neg) => RunState(Tail(code), c, o, lp)
<1>1. InputOK
  BY DEF Planned
<1>2. PICK l \in Rotated, rest \in Continuations :
        /\ code = AtEnd(l, rest)
        /\ c = l.latch /\ o \in {1, 2}
        /\ g.succ[c][o] = l.header => PhiOK(l.header, c, lp)
  BY DEF AtWhile
<1> DEFINE more == WayOut(Spliced, l) \o rest
<1>3. /\ more \in Continuations /\ WhileStmt(l) \in RunStmts /\ WhileStmt(l).at = l.latch
      /\ WhileStmt(l).neg = Negated(l) /\ WhileStmt(l).arms[1] = LoopArm(Spliced, l)
  BY <1>1, AfterLatchType, WhileType
<1>4. code = Cons(WhileStmt(l), more)
  BY <1>2 DEF AtEnd
<1> HIDE DEF more
<1>5. Head(code) = WhileStmt(l) /\ Tail(code) = more
  BY <1>3, <1>4, ConsFacts
<1>6. /\ l.latch \in Blocks /\ l.header \in Blocks /\ DOMAIN g.succ[l.latch] = {1, 2}
      /\ AfterDoWhile(l) \in Blocks
      /\ \/ /\ g.succ[l.latch][1] = l.header /\ g.succ[l.latch][2] = AfterDoWhile(l)
            /\ Negated(l) = FALSE
         \/ /\ g.succ[l.latch][2] = l.header /\ g.succ[l.latch][1] = AfterDoWhile(l)
            /\ Negated(l) = TRUE
  BY <1>1, RotatedFacts
<1>7. IF (o = 1) # Negated(l) THEN g.succ[c][o] = l.header ELSE g.succ[c][o] = AfterDoWhile(l)
  BY <1>2, <1>6
<1>8. ASSUME (o = 1) # Negated(l)
      PROVE  RunState(Lift(LoopArm(Spliced, l)) \o code, c, o, lp)
  <2>1. Ready(l.header, c, o, lp)
    BY <1>2, <1>6, <1>7, <1>8 DEF Ready, Enters, NoBlock, Blocks
  <2> QED
    BY <1>2, <2>1, ArmState
<1>9. ASSUME ~((o = 1) # Negated(l))
      PROVE  RunState(more, c, o, lp)
  <2> DEFINE t == AfterDoWhile(l)
  <2>1. t = g.succ[c][o] /\ o \in DOMAIN g.succ[c] /\ c \in Blocks /\ t \in Blocks
    BY <1>2, <1>6, <1>7, <1>9
  <2>2. t \in Spliced => Follows(t, rest)
    BY ExitFollows
  <2>3. more = Lift(EdgeCode(Spliced, c, t)) \o rest
    BY <1>2 DEF more, WayOut
  <2> HIDE DEF t
  <2> QED
    BY <2>1, <2>2, <2>3, EdgeState
<1> QED
  BY <1>2, <1>3, <1>5, <1>8, <1>9

-----------------------------------------------------------------------------
(* The translated code does not change while the C program runs.            *)

LEMMA PartsUnchanged ==
  ASSUME g' = g, loops' = loops, doInline' = doInline
  PROVE  /\ Spliced' = Spliced /\ Rotated' = Rotated
         /\ RotatedLatches' = RotatedLatches /\ RotatedPreheaders' = RotatedPreheaders
         /\ NoSwitchPhis' = NoSwitchPhis
         /\ \A t : TermCode(Spliced, t)' = TermCode(Spliced, t)
         /\ \A c : /\ IfCode(Spliced, c)' = IfCode(Spliced, c)
                   /\ SwitchCode(Spliced, c)' = SwitchCode(Spliced, c)
         /\ \A l : /\ DoLoop(Spliced, l)' = DoLoop(Spliced, l)
                   /\ WayOut(Spliced, l)' = WayOut(Spliced, l)
                   /\ Negated(l)' = Negated(l) /\ HeaderGotoLatch(l)' = HeaderGotoLatch(l)
<1>1. /\ Rotated' = Rotated /\ RotatedLatches' = RotatedLatches
      /\ \A t : LatchStaysInline(t)' = LatchStaysInline(t)
  BY CodeUnchanged
<1>2. Spliced' = Spliced
  BY <1>1 DEF Spliced
<1>3. RotatedPreheaders' = RotatedPreheaders
  BY <1>1 DEF RotatedPreheaders
<1>4. NoSwitchPhis' = NoSwitchPhis
  BY DEF NoSwitchPhis, Succs
<1> PICK D : D = Spliced
  OBVIOUS
<1>5. \A from, to, isLoop, isNegated :
        GeneratePhiAssignments(from, to, isLoop, isNegated)'
          = GeneratePhiAssignments(from, to, isLoop, isNegated)
  BY DEF GeneratePhiAssignments
<1>6. \A from, to : EdgeCode(D, from, to)' = EdgeCode(D, from, to)
  BY <1>5 DEF EdgeCode
<1>7. \A l : /\ Negated(l)' = Negated(l) /\ HeaderGotoLatch(l)' = HeaderGotoLatch(l)
             /\ AfterDoWhile(l)' = AfterDoWhile(l)
  BY DEF Negated, HeaderGotoLatch, AfterDoWhile
<1>8. \A l : LoopArm(D, l)' = LoopArm(D, l)
  BY <1>5, <1>7 DEF LoopArm
<1>9. \A l : DoLoop(D, l)' = DoLoop(D, l) /\ WayOut(D, l)' = WayOut(D, l)
  BY <1>6, <1>7, <1>8 DEF DoLoop, WayOut
<1>10. \A l : LoopCode(D, l)' = LoopCode(D, l)
  BY <1>5, <1>9 DEF LoopCode
<1>11. \A b : IfCode(D, b)' = IfCode(D, b) /\ SwitchCode(D, b)' = SwitchCode(D, b)
  BY <1>6 DEF IfCode, SwitchCode
<1>12. \A b : LoopAt(b)' = LoopAt(b)
  BY <1>1 DEF LoopAt
<1>13. \A b : TermCode(D, b)' = TermCode(D, b)
  BY <1>1, <1>3, <1>6, <1>10, <1>11, <1>12 DEF TermCode
<1>14. \A b : TermCode(Spliced, b)' = TermCode(Spliced, b)
  BY <1>2, <1>13
<1>15. \A b : /\ IfCode(Spliced, b)' = IfCode(Spliced, b)
              /\ SwitchCode(Spliced, b)' = SwitchCode(Spliced, b)
  BY <1>2, <1>11
<1>16. \A l : DoLoop(Spliced, l)' = DoLoop(Spliced, l) /\ WayOut(Spliced, l)' = WayOut(Spliced, l)
  BY <1>2, <1>9
<1> QED
  BY <1>1, <1>2, <1>3, <1>4, <1>7, <1>14, <1>15, <1>16

LEMMA RunStateUnchanged ==
  ASSUME g' = g, loops' = loops, doInline' = doInline,
         NEW code, NEW c, NEW o, NEW lp, RunState(code, c, o, lp)
  PROVE  RunState(code, c, o, lp)'
<1>1. /\ Spliced' = Spliced /\ Rotated' = Rotated
      /\ RotatedLatches' = RotatedLatches /\ RotatedPreheaders' = RotatedPreheaders
      /\ NoSwitchPhis' = NoSwitchPhis
  BY PartsUnchanged
<1>2. \A t : TermCode(Spliced, t)' = TermCode(Spliced, t)
  BY PartsUnchanged
<1>3. \A l : /\ DoLoop(Spliced, l)' = DoLoop(Spliced, l)
             /\ WayOut(Spliced, l)' = WayOut(Spliced, l)
             /\ Negated(l)' = Negated(l) /\ HeaderGotoLatch(l)' = HeaderGotoLatch(l)
  BY PartsUnchanged
<1>4. \A l : WhileStmt(l)' = WhileStmt(l)
  BY <1>3 DEF WhileStmt, Again
<1>5. \A l, rest : AtEnd(l, rest)' = AtEnd(l, rest)
  BY <1>3, <1>4 DEF AtEnd, Cons
<1>6. \A l : SelectStmt(l)' = SelectStmt(l) /\ LatchPhi(l)' = LatchPhi(l)
  BY <1>3 DEF SelectStmt, LatchPhi
<1>7. \A t : JumpStmt(t)' = JumpStmt(t)
  BY <1>1 DEF JumpStmt, JumpTo
<1>8. \A l, rest : AfterLatch(l, rest)' = AfterLatch(l, rest)
  BY <1>5, <1>6 DEF AfterLatch, Cons
<1>9. \A l, rest : AfterHeader(l, rest)' = AfterHeader(l, rest)
  BY <1>3, <1>8 DEF AfterHeader, Cons
<1>10. \A t, rest : Follows(t, rest)' = Follows(t, rest)
  BY <1>1, <1>3, <1>8 DEF Follows
<1>11. \A t : /\ Enters(t, c, o)' = Enters(t, c, o) /\ PhiOK(t, c, lp)' = PhiOK(t, c, lp)
              /\ Ready(t, c, o, lp)' = Ready(t, c, o, lp)
  BY <1>1 DEF Enters, PhiOK, Ready
<1>12. CASE AtBody(code, c, o, lp)
  <2>1. AtBody(code, c, o, lp)'
    BY <1>2, <1>10, <1>11, <1>12 DEF AtBody, Cons
  <2> QED
    BY <2>1 DEF RunState
<1>13. CASE AtBranch(code, c, o)
  <2>1. \A b : /\ IfCode(Spliced, b)' = IfCode(Spliced, b)
               /\ SwitchCode(Spliced, b)' = SwitchCode(Spliced, b)
    BY PartsUnchanged
  <2>2. AtBranch(code, c, o)'
    BY <1>1, <1>10, <1>13, <2>1 DEF AtBranch, Cons
  <2> QED
    BY <2>2 DEF RunState
<1>14. CASE AtRet(code, c)
  <2>1. AtRet(code, c)'
    BY <1>14 DEF AtRet
  <2> QED
    BY <2>1 DEF RunState
<1>15. CASE AtEdgePhi(code, c, o)
  <2>1. AtEdgePhi(code, c, o)'
    BY <1>1, <1>7, <1>10, <1>11, <1>15 DEF AtEdgePhi, Cons
  <2> QED
    BY <2>1 DEF RunState
<1>16. CASE AtJump(code, c, o, lp)
  <2>1. AtJump(code, c, o, lp)'
    BY <1>1, <1>7, <1>10, <1>11, <1>16 DEF AtJump, Cons
  <2> QED
    BY <2>1 DEF RunState
<1>17. CASE AtPreheaderPhi(code, c, o)
  <2>1. AtPreheaderPhi(code, c, o)'
    BY <1>1, <1>3, <1>11, <1>17 DEF AtPreheaderPhi, Cons
  <2> QED
    BY <2>1 DEF RunState
<1>18. CASE AtDo(code, c, o, lp)
  <2>1. AtDo(code, c, o, lp)'
    BY <1>1, <1>3, <1>11, <1>18 DEF AtDo, Cons
  <2> QED
    BY <2>1 DEF RunState
<1>19. CASE AtLatchPhi(code, c, o, lp)
  <2>1. AtLatchPhi(code, c, o, lp)'
    BY <1>1, <1>6, <1>7, <1>9, <1>11, <1>19 DEF AtLatchPhi, Cons
  <2> QED
    BY <2>1 DEF RunState
<1>20. CASE AtSelect(code, c, o)
  <2>1. AtSelect(code, c, o)'
    BY <1>1, <1>5, <1>6, <1>20 DEF AtSelect, Cons
  <2> QED
    BY <2>1 DEF RunState
<1>21. CASE AtWhile(code, c, o, lp)
  <2>1. AtWhile(code, c, o, lp)'
    BY <1>1, <1>5, <1>11, <1>21 DEF AtWhile
  <2> QED
    BY <2>1 DEF RunState
<1>22. CASE c \in Blocks /\ g.term[c] = "unreachable"
  BY <1>22 DEF RunState
<1> QED
  BY <1>12, <1>13, <1>14, <1>15, <1>16, <1>17, <1>18, <1>19, <1>20, <1>21, <1>22 DEF RunState

-----------------------------------------------------------------------------
(* The inductive invariant of the composition. *)

NotCalled == phase \in {"translating", "printing"}

\* Before the call nothing has run.  From then on what is left to execute is
\* one of the situations above.
ProgramInv ==
  /\ {cur, prev, src} \subseteq Blocks \cup {NoBlock}
  /\ lastPhi \in LastPhis
  /\ phase \in {"translating", "printing", "running", "returned"}
  /\ phase # "translating" => pass = "write"
  /\ NotCalled => /\ cur = NoBlock /\ prev = NoBlock /\ src = NoBlock
                  /\ lastPhi = [b \in Blocks |-> NoBlock]
  /\ phase = "running" => RunState(k, cur, out, lastPhi)
  /\ NoSwitchPhis => PhisFromPredecessor

EmInv == TranslationInv /\ ProgramInv

LEMMA EmInvInit == EmInit => EmInv
<1> SUFFICES ASSUME EmInit PROVE EmInv
  OBVIOUS
<1>1. TranslationInv
  BY TranslationInit DEF EmInit
<1>2. NoBlock \notin g.phis
  BY DEF EmInit, CFInit, IsFunction, NoBlock, Blocks
<1>3. ProgramInv
  BY <1>2 DEF EmInit, ProgramInv, NotCalled, LastPhis, PhisFromPredecessor
<1> QED
  BY <1>1, <1>3 DEF EmInv

LEMMA PlannedWhenWritten ==
  ASSUME TranslationInv, pass = "write"
  PROVE  Planned
BY DEF TranslationInv, ParseInv, HandledInv, TypeInv, Planned

\* The statement that is executed next.
LEMMA Running ==
  ASSUME EmInv, NEW op, Executes(op)
  PROVE  /\ Planned /\ phase = "running" /\ pass = "write" /\ lastPhi \in LastPhis
         /\ Head(k).op = op
         /\ Kinds(k, cur, out, lastPhi)
<1>1. /\ phase = "running" /\ pass = "write" /\ TranslationInv
      /\ RunState(k, cur, out, lastPhi) /\ lastPhi \in LastPhis
      /\ {cur, prev, src} \subseteq Blocks \cup {NoBlock}
  BY DEF EmInv, ProgramInv, Executes
<1>2. Planned
  BY <1>1, PlannedWhenWritten
<1>3. ~(cur \in Blocks /\ g.term[cur] = "unreachable")
  BY DEF Executes, AtUnreachable, NoBlock, Blocks
<1>4. Kinds(k, cur, out, lastPhi)
  BY <1>1, <1>2, <1>3, HeadKinds
<1> QED
  BY <1>1, <1>2, <1>4 DEF Executes

\* A statement of the C program changes nothing that is planned.
LEMMA RunsOn ==
  ASSUME EmInv, UNCHANGED cfVars, phase = "running", phase' = phase,
         NEW code, NEW c, NEW o, NEW lp \in LastPhis, RunState(code, c, o, lp),
         k' = code, cur' = c, out' = o, lastPhi' = lp,
         {cur', prev', src'} \subseteq Blocks \cup {NoBlock},
         NoSwitchPhis /\ cur' \in g.phis => src' = prev'
  PROVE  EmInv'
<1>1. TranslationInv'
  BY TranslationStep DEF EmInv
<1>2. g' = g /\ loops' = loops /\ doInline' = doInline /\ pass' = pass
  BY DEF cfVars, inputVars, codeVars
<1>3. RunState(code, c, o, lp)'
  BY <1>2, RunStateUnchanged
<1>4. RunState(k, cur, out, lastPhi)'
  BY <1>3
<1>5. NoSwitchPhis' = NoSwitchPhis
  BY <1>2, PartsUnchanged
<1>6. ProgramInv'
  BY <1>2, <1>4, <1>5 DEF EmInv, ProgramInv, NotCalled, LastPhis, PhisFromPredecessor
<1> QED
  BY <1>1, <1>6 DEF EmInv

LEMMA StepTranslation ==
  ASSUME EmInv, CFNext, UNCHANGED <<textVars, runVars>>
  PROVE  EmInv'
<1>1. TranslationInv'
  BY TranslationStep DEF EmInv
<1>2. pass # "write"
  BY DEF CFNext, ParseLoop, ParseRemainingBlocks, IdentifyInlinableBlocks, DoNotInlineLatches,
         Inlining, VisitContainer, InlineGoto, FinishTarget, FinishContainer,
         MarkLatchBlockAsInlined
<1>3. phase = "translating"
  BY <1>2 DEF EmInv, ProgramInv
<1>4. ProgramInv'
  BY <1>3 DEF EmInv, ProgramInv, NotCalled, LastPhis, PhisFromPredecessor, runVars, progVars
<1> QED
  BY <1>1, <1>4 DEF EmInv

LEMMA StepWriter ==
  ASSUME EmInv, StartWriter \/ \E b \in Blocks : WriteCopy(b)
  PROVE  EmInv'
<1>1. UNCHANGED <<cfVars, progVars>> /\ NotCalled /\ phase' = "printing" /\ pass = "write"
  BY DEF StartWriter, WriteCopy, runVars, NotCalled, EmInv, ProgramInv
<1>2. TranslationInv'
  BY <1>1, TranslationStep DEF EmInv
<1>3. ProgramInv'
  BY <1>1 DEF EmInv, ProgramInv, NotCalled, LastPhis, PhisFromPredecessor, progVars, cfVars
<1> QED
  BY <1>2, <1>3 DEF EmInv

LEMMA StepCall ==
  ASSUME EmInv, CallFunction
  PROVE  EmInv'
<1>1. /\ NotCalled /\ pass = "write" /\ TranslationInv /\ phase' = "running"
      /\ cur = NoBlock /\ prev = NoBlock /\ src = NoBlock
      /\ lastPhi = [b \in Blocks |-> NoBlock]
      /\ UNCHANGED <<cfVars, cur, prev, src, lastPhi, out>>
      /\ k' = exprs[Entry] \o <<EndOf(Entry)>>
  BY DEF CallFunction, NotCalled, EmInv, ProgramInv
<1>2. Planned
  BY <1>1, PlannedWhenWritten
<1>3. Entry \in Blocks /\ OwnBlock(Entry)
  BY NAssumption DEF Entry, Blocks, OwnBlock
<1>4. k' = FromLabel(Entry)
  BY <1>1, <1>3 DEF FromLabel
<1>5. Entry \notin Spliced
  BY <1>2, <1>3, NotSplicedFollows
<1>6. PICK rest \in Continuations :
        /\ FromLabel(Entry) = Cons(Body(Entry), TermCode(Spliced, Entry) \o rest)
        /\ Follows(Entry, rest)
  BY <1>2, <1>3, <1>5, LabelForm
<1> PICK code : code = FromLabel(Entry)
  OBVIOUS
<1> PICK c : c = cur
  OBVIOUS
<1> PICK o : o = out
  OBVIOUS
<1> PICK lp : lp = lastPhi
  OBVIOUS
<1>7. Ready(Entry, c, o, lp)
  BY <1>1, <1>3 DEF Ready, Enters, PhiOK
<1>8. RunState(code, c, o, lp)
  BY <1>3, <1>6, <1>7 DEF RunState, AtBody
<1>9. g' = g /\ loops' = loops /\ doInline' = doInline /\ pass' = pass
  BY <1>1 DEF cfVars, inputVars, codeVars
<1>10. RunState(code, c, o, lp)'
  BY <1>8, <1>9, RunStateUnchanged
<1>11. RunState(k, cur, out, lastPhi)'
  BY <1>1, <1>4, <1>10
<1>12. TranslationInv'
  BY <1>1, TranslationStep
<1>13. ProgramInv'
  BY <1>1, <1>9, <1>11 DEF ProgramInv, NotCalled, LastPhis, PhisFromPredecessor, NoBlock
<1> QED
  BY <1>12, <1>13 DEF EmInv

\* A block that runs is one the block before it leads to, and its phi
\* variables are those of that edge.
LEMMA StepBody ==
  ASSUME EmInv, RunBody
  PROVE  /\ EmInv'
         /\ cur' \in Blocks
         /\ Enters(cur', cur, out)
         /\ out' \in Outcomes(cur')
         /\ NoSwitchPhis /\ cur' \in g.phis => src' = cur
<1>1. /\ Executes("body") /\ UNCHANGED <<cfVars, textVars, lastPhi, phase>>
      /\ cur' = Head(k).at /\ prev' = cur /\ k' = Tail(k)
      /\ src' = IF cur' \in g.phis THEN lastPhi[cur'] ELSE NoBlock
      /\ out' \in Outcomes(cur')
  BY DEF RunBody
<1>2. /\ Planned /\ phase = "running" /\ lastPhi \in LastPhis /\ Head(k).op = "body"
      /\ Kinds(k, cur, out, lastPhi)
  BY <1>1, Running
<1>3. AtBody(k, cur, out, lastPhi)
  BY <1>2 DEF Kinds
<1>4. /\ Head(k).at \in Blocks
      /\ Ready(Head(k).at, cur, out, lastPhi)
      /\ \A o2 \in Outcomes(Head(k).at) : RunState(Tail(k), Head(k).at, o2, lastPhi)
  BY <1>2, <1>3, BodyStep
<1>5. cur' \in Blocks /\ Ready(cur', cur, out, lastPhi)
  BY <1>1, <1>4
<1>6. NoSwitchPhis /\ cur' \in g.phis => src' = cur
  BY <1>1, <1>5 DEF Ready, PhiOK
<1> PICK code : code = k'
  OBVIOUS
<1> PICK c : c = cur'
  OBVIOUS
<1> PICK o : o = out'
  OBVIOUS
<1> PICK lp : lp = lastPhi
  OBVIOUS
<1>7. RunState(code, c, o, lp)
  BY <1>1, <1>4
<1>8. {cur', prev', src'} \subseteq Blocks \cup {NoBlock}
  BY <1>1, <1>2, <1>5 DEF EmInv, ProgramInv, LastPhis
<1>9. EmInv'
  BY <1>1, <1>2, <1>6, <1>7, <1>8, RunsOn
<1> QED
  BY <1>1, <1>5, <1>6, <1>9 DEF Ready

\* A statement after which the same block's outcome still decides.
LEMMA RunsOnInBlock ==
  ASSUME EmInv, UNCHANGED <<cfVars, cur, prev, src, out, phase>>, phase = "running",
         NEW code, NEW lp \in LastPhis, RunState(code, cur, out, lp),
         k' = code, lastPhi' = lp
  PROVE  EmInv'
<1> PICK c : c = cur
  OBVIOUS
<1> PICK o : o = out
  OBVIOUS
<1>1. /\ {cur', prev', src'} \subseteq Blocks \cup {NoBlock}
      /\ NoSwitchPhis /\ cur' \in g.phis => src' = prev'
  BY DEF EmInv, ProgramInv, PhisFromPredecessor
<1>2. RunState(code, c, o, lp)
  OBVIOUS
<1> QED
  BY <1>1, <1>2, RunsOn

LEMMA StepAssign ==
  ASSUME EmInv, AssignPhis
  PROVE  EmInv'
<1>1. /\ UNCHANGED <<cfVars, cur, prev, src, out, phase>> /\ k' = Tail(k)
      /\ lastPhi' = IF Head(k).op = "phi" \/ GoesOn(Head(k))
                    THEN [lastPhi EXCEPT ![Head(k).to] = Head(k).at] ELSE lastPhi
      /\ Executes("phi") \/ Executes("select")
  BY DEF AssignPhis
<1> PICK code, c, o, lp : code = k /\ c = cur /\ o = out /\ lp = lastPhi
  OBVIOUS
<1> PICK lp2 : lp2 = lastPhi'
  OBVIOUS
<1>2. CASE Executes("phi")
  <2>1. /\ Planned /\ phase = "running" /\ lp \in LastPhis /\ Head(code).op = "phi"
        /\ Kinds(code, c, o, lp)
    BY <1>2, Running
  <2>2. /\ Head(code).at \in Blocks /\ Head(code).to \in Blocks
        /\ RunState(Tail(code), c, o, [lp EXCEPT ![Head(code).to] = Head(code).at])
    BY <2>1, PhiStep
  <2>3. lp2 = [lp EXCEPT ![Head(code).to] = Head(code).at]
    BY <1>1, <2>1
  <2>4. lp2 \in LastPhis
    BY <2>1, <2>2, <2>3 DEF LastPhis
  <2>5. RunState(Tail(k), cur, out, lp2)
    BY <2>2, <2>3
  <2> QED
    BY <1>1, <2>1, <2>4, <2>5, RunsOnInBlock
<1>3. CASE Executes("select")
  <2>1. /\ Planned /\ phase = "running" /\ lp \in LastPhis /\ Head(code).op = "select"
        /\ Kinds(code, c, o, lp)
    BY <1>3, Running
  <2>2. AtSelect(code, c, o)
    BY <2>1 DEF Kinds
  <2>3. /\ Head(code).at = c /\ c \in Blocks /\ Head(code).to \in Blocks
        /\ RunState(Tail(code), c, o,
                    IF (o = 1) # Head(code).neg THEN [lp EXCEPT ![Head(code).to] = Head(code).at]
                    ELSE lp)
    BY <2>1, <2>2, SelectStep
  <2>4. lp2 = IF (o = 1) # Head(code).neg THEN [lp EXCEPT ![Head(code).to] = Head(code).at]
              ELSE lp
    BY <1>1, <2>1 DEF GoesOn
  <2>5. lp2 \in LastPhis
    BY <2>1, <2>3, <2>4 DEF LastPhis
  <2>6. RunState(Tail(k), cur, out, lp2)
    BY <2>3, <2>4
  <2> QED
    BY <1>1, <2>1, <2>5, <2>6, RunsOnInBlock
<1> QED
  BY <1>1, <1>2, <1>3

LEMMA StepJump ==
  ASSUME EmInv, Jump
  PROVE  EmInv'
<1>1. /\ UNCHANGED <<cfVars, cur, prev, src, out, phase, lastPhi>>
      /\ k' = FromLabel(Head(k).to)
      /\ Executes("goto") /\ (OwnBlock(Head(k).to) \/ Wraps(Head(k).to) # {})
  BY DEF Jump
<1> PICK code, c, o, lp : code = k /\ c = cur /\ o = out /\ lp = lastPhi
  OBVIOUS
<1> PICK next : next = FromLabel(Head(k).to)
  OBVIOUS
<1>2. /\ Planned /\ phase = "running" /\ lp \in LastPhis /\ Head(code).op = "goto"
      /\ Kinds(code, c, o, lp)
  BY <1>1, Running
<1>3. AtJump(code, c, o, lp)
  BY <1>2 DEF Kinds
<1>4. RunState(FromLabel(Head(code).to), c, o, lp)
  BY <1>1, <1>2, <1>3, JumpStep
<1>5. RunState(next, cur, out, lp)
  BY <1>4
<1> QED
  BY <1>1, <1>2, <1>5, RunsOnInBlock

LEMMA StepInPlace ==
  ASSUME EmInv, RunInPlace
  PROVE  EmInv'
<1>1. /\ UNCHANGED <<cfVars, cur, prev, src, out, phase, lastPhi>>
      /\ k' = exprs[Head(k).to] \o Tail(k)
      /\ Executes("splice") \/ Executes("latch")
  BY DEF RunInPlace
<1> PICK code, c, o, lp : code = k /\ c = cur /\ o = out /\ lp = lastPhi
  OBVIOUS
<1> PICK next : next = exprs[Head(k).to] \o Tail(k)
  OBVIOUS
<1>2. ~Executes("latch")
  BY Running DEF Kinds
<1>3. /\ Planned /\ phase = "running" /\ lp \in LastPhis /\ Head(code).op = "splice"
      /\ Kinds(code, c, o, lp)
  BY <1>1, <1>2, Running
<1>4. AtJump(code, c, o, lp)
  BY <1>3 DEF Kinds
<1>5. RunState(exprs[Head(code).to] \o Tail(code), c, o, lp)
  BY <1>3, <1>4, JumpStep
<1>6. RunState(next, cur, out, lp)
  BY <1>5
<1> QED
  BY <1>1, <1>3, <1>6, RunsOnInBlock

LEMMA StepIf ==
  ASSUME EmInv, RunIf
  PROVE  EmInv'
<1>1. /\ UNCHANGED <<cfVars, cur, prev, src, out, phase, lastPhi>>
      /\ k' = Lift(Head(k).arms[out]) \o Tail(k)
      /\ Executes("if") \/ Executes("switch")
  BY DEF RunIf
<1> PICK code, c, o, lp : code = k /\ c = cur /\ o = out /\ lp = lastPhi
  OBVIOUS
<1> PICK next : next = Lift(Head(k).arms[out]) \o Tail(k)
  OBVIOUS
<1>2. /\ Planned /\ phase = "running" /\ lp \in LastPhis /\ Head(code).op \in {"if", "switch"}
      /\ Kinds(code, c, o, lp)
  BY <1>1, Running
<1>3. AtBranch(code, c, o)
  BY <1>2 DEF Kinds
<1>4. RunState(Lift(Head(code).arms[o]) \o Tail(code), c, o, lp)
  BY <1>2, <1>3, BranchStep
<1>5. RunState(next, cur, out, lp)
  BY <1>4
<1> QED
  BY <1>1, <1>2, <1>5, RunsOnInBlock

LEMMA StepDo ==
  ASSUME EmInv, RunDo
  PROVE  EmInv'
<1>1. /\ UNCHANGED <<cfVars, cur, prev, src, out, phase, lastPhi>>
      /\ k' = Lift(Head(k).arms[1]) \o <<Again(Head(k))>> \o Tail(k)
      /\ Executes("do")
  BY DEF RunDo
<1> PICK code, c, o, lp : code = k /\ c = cur /\ o = out /\ lp = lastPhi
  OBVIOUS
<1> PICK next : next = Lift(Head(k).arms[1]) \o <<Again(Head(k))>> \o Tail(k)
  OBVIOUS
<1>2. /\ Planned /\ phase = "running" /\ lp \in LastPhis /\ Head(code).op = "do"
      /\ Kinds(code, c, o, lp)
  BY <1>1, Running
<1>3. AtDo(code, c, o, lp)
  BY <1>2 DEF Kinds
<1>4. RunState(Lift(Head(code).arms[1]) \o <<Again(Head(code))>> \o Tail(code), c, o, lp)
  BY <1>2, <1>3, DoStep
<1>5. RunState(next, cur, out, lp)
  BY <1>4
<1> QED
  BY <1>1, <1>2, <1>5, RunsOnInBlock

LEMMA StepWhile ==
  ASSUME EmInv, RunWhile
  PROVE  EmInv'
<1>1. /\ UNCHANGED <<cfVars, cur, prev, src, out, phase, lastPhi>>
      /\ k' = IF GoesOn(Head(k)) THEN Lift(Head(k).arms[1]) \o k ELSE Tail(k)
      /\ Executes("while")
  BY DEF RunWhile
<1> PICK code, c, o, lp : code = k /\ c = cur /\ o = out /\ lp = lastPhi
  OBVIOUS
<1> PICK next : next = k'
  OBVIOUS
<1>2. /\ Planned /\ phase = "running" /\ lp \in LastPhis /\ Head(code).op = "while"
      /\ Kinds(code, c, o, lp)
  BY <1>1, Running
<1>3. AtWhile(code, c, o, lp)
  BY <1>2 DEF Kinds
<1>4. /\ (o = 1) # Head(code).neg => RunState(Lift(Head(code).arms[1]) \o code, c, o, lp)
      /\ ~((o = 1) # Head(code).neg) => RunState(Tail(code), c, o, lp)
  BY <1>2, <1>3, WhileStep
<1>5. next = IF (o = 1) # Head(code).neg THEN Lift(Head(code).arms[1]) \o code ELSE Tail(code)
  BY <1>1 DEF GoesOn
<1>6. RunState(next, cur, out, lp)
  BY <1>4, <1>5
<1> QED
  BY <1>1, <1>2, <1>6, RunsOnInBlock

LEMMA StepRet ==
  ASSUME EmInv, RunRet
  PROVE  /\ EmInv'
         /\ cur \in Blocks /\ g.term[cur] = "ret"
<1>1. /\ UNCHANGED <<cfVars, cur, prev, src, lastPhi, out>> /\ phase' = "returned"
      /\ Executes("ret")
  BY DEF RunRet
<1>2. Kinds(k, cur, out, lastPhi) /\ Head(k).op = "ret" /\ pass = "write"
  BY <1>1, Running
<1>3. cur \in Blocks /\ g.term[cur] = "ret"
  BY <1>2 DEF Kinds, AtRet
<1>4. TranslationInv'
  BY <1>1, TranslationStep DEF EmInv
<1>5. g' = g /\ loops' = loops /\ doInline' = doInline /\ pass' = pass
  BY <1>1 DEF cfVars, inputVars, codeVars
<1>6. NoSwitchPhis' = NoSwitchPhis
  BY <1>5, PartsUnchanged
<1>7. ProgramInv'
  BY <1>1, <1>2, <1>5, <1>6 DEF EmInv, ProgramInv, NotCalled, LastPhis, PhisFromPredecessor
<1> QED
  BY <1>3, <1>4, <1>7 DEF EmInv

LEMMA StepNothing ==
  ASSUME EmInv, UNCHANGED emVars
  PROVE  EmInv'
<1>1. UNCHANGED <<cfVars, runVars, progVars>>
  BY DEF emVars, runVars
<1>2. TranslationInv'
  BY <1>1, TranslationStep DEF EmInv
<1>3. g' = g /\ loops' = loops /\ doInline' = doInline /\ pass' = pass
  BY <1>1 DEF cfVars, inputVars, codeVars
<1>4. NoSwitchPhis' = NoSwitchPhis
  BY <1>3, PartsUnchanged
<1> PICK code, c, o, lp : code = k /\ c = cur /\ o = out /\ lp = lastPhi
  OBVIOUS
<1>5. k' = code /\ cur' = c /\ out' = o /\ lastPhi' = lp /\ phase' = phase
      /\ prev' = prev /\ src' = src
  BY <1>1 DEF runVars, progVars
<1>6. RunState(code, c, o, lp) => RunState(code, c, o, lp)'
  BY <1>3, RunStateUnchanged
<1>7. phase' = "running" => RunState(k, cur, out, lastPhi)'
  <2>1. phase = "running" => RunState(code, c, o, lp)
    BY DEF EmInv, ProgramInv
  <2>2. RunState(code, c, o, lp)' => RunState(k, cur, out, lastPhi)'
    BY <1>5
  <2> QED
    BY <1>5, <1>6, <2>1, <2>2
<1>8. ProgramInv'
  BY <1>3, <1>4, <1>5, <1>7 DEF EmInv, ProgramInv, NotCalled, LastPhis, PhisFromPredecessor
<1> QED
  BY <1>2, <1>8 DEF EmInv

LEMMA EmInvStep == EmInv /\ [EmNext]_emVars => EmInv'
<1> SUFFICES ASSUME EmInv, [EmNext]_emVars PROVE EmInv'
  OBVIOUS
<1> QED
  BY StepTranslation, StepWriter, StepCall, StepBody, StepAssign, StepJump, StepInPlace, StepIf,
     StepDo, StepWhile, StepRet, StepNothing DEF EmNext, Translate, RunC, Stutter

-----------------------------------------------------------------------------
(* The theorems. *)

\* The passes do in the composition what they do on their own, and the writer
\* and the C program leave their results alone: every property of the
\* translation holds of a function that is printed and called.
THEOREM TranslationWithinComposition == EmSpec => CFSpec
<1>1. EmInit => CFInit
  BY DEF EmInit
<1>2. [EmNext]_emVars => [CFNext]_cfVars
  BY DEF EmNext, Translate, StartWriter, WriteCopy, RunC, CallFunction, RunBody, AssignPhis, Jump,
         RunInPlace, RunIf, RunDo, RunWhile, RunRet, Stutter, emVars
<1> QED
  BY <1>1, <1>2, PTL DEF EmSpec, CFSpec

LEMMA EmInvariant == EmSpec => []EmInv
<1>1. EmInit => EmInv
  BY EmInvInit
<1>2. EmInv /\ [EmNext]_emVars => EmInv'
  BY EmInvStep
<1> QED
  BY <1>1, <1>2, PTL DEF EmSpec

\* For every function: control never runs from the end of a block's text into
\* what Writer::functionDefinitions prints behind it.
THEOREM TextNeverLeft == EmSpec => []NeverFallsOff
<1>1. EmInv => NeverFallsOff
  BY Running DEF NeverFallsOff, Kinds
<1> QED
  BY <1>1, EmInvariant, PTL

\* For every function: the condition an if, a switch, a while or a select in
\* front of it tests is the one of the block whose code ran last, wherever
\* parseBreaks and inlineBlocks have put the two.
THEOREM ConditionsAreOwn == EmSpec => []TestsOwnCondition
<1>1. EmInv => TestsOwnCondition
  <2> SUFFICES ASSUME EmInv, NEW op \in {"if", "switch", "while", "select"}, Executes(op)
               PROVE  Head(k).at = cur
    BY DEF TestsOwnCondition
  <2> PICK code, c, o, lp : code = k /\ c = cur /\ o = out /\ lp = lastPhi
    OBVIOUS
  <2>1. Planned /\ lp \in LastPhis /\ Head(code).op = op /\ Kinds(code, c, o, lp)
    BY Running
  <2>2. CASE op \in {"if", "switch"}
    BY <2>1, <2>2, BranchStep DEF Kinds
  <2>3. CASE op = "select"
    BY <2>1, <2>3, SelectStep DEF Kinds
  <2>4. CASE op = "while"
    BY <2>1, <2>4, WhileStep DEF Kinds
  <2> QED
    BY <2>2, <2>3, <2>4
<1> QED
  BY <1>1, EmInvariant, PTL

\* For every function whose switches lead to no phi nodes: when a block with
\* phi nodes runs, its phi variables were last assigned for the edge it was
\* entered by.  (The gotos of a switch have no assignments in front of them.)
THEOREM PhisOfTheEdge == EmSpec => [](NoSwitchPhis => PhisFromPredecessor)
<1>1. EmInv => (NoSwitchPhis => PhisFromPredecessor)
  BY DEF EmInv, ProgramInv
<1> QED
  BY <1>1, EmInvariant, PTL

LEMMA WalkStep ==
  ASSUME EmInv, NoSwitchPhis, [EmNext]_emVars
  PROVE  [Walk!Next]_(Walk!walkVars)
<1>1. CASE CFNext /\ UNCHANGED <<textVars, runVars>>
  <2>1. UNCHANGED <<g, cur, src, out, phase>>
    BY <1>1 DEF CFNext, ParseLoop, ParseRemainingBlocks, IdentifyInlinableBlocks,
                DoNotInlineLatches, Inlining, VisitContainer, InlineGoto, FinishTarget,
                FinishContainer, MarkLatchBlockAsInlined, runVars, progVars, inputVars
  <2> QED
    BY <2>1 DEF Walk!walkVars
<1>2. CASE StartWriter \/ (\E b \in Blocks : WriteCopy(b)) \/ CallFunction
  <2>1. UNCHANGED <<g, cur, src, out>> /\ phase # "returned" /\ phase' # "returned"
    BY <1>2 DEF StartWriter, WriteCopy, CallFunction, runVars, progVars, cfVars, inputVars
  <2> QED
    BY <2>1 DEF Walk!walkVars
<1>3. CASE RunBody
  <2> DEFINE b == cur'
  <2>1. b \in Blocks /\ Enters(b, cur, out) /\ out' \in Outcomes(b)
    BY <1>3, StepBody
  <2>2. src' = IF b \in g.phis THEN cur ELSE NoBlock
    BY <1>3, StepBody DEF RunBody
  <2>3. phase = "running" /\ phase' = phase /\ g' = g
    BY <1>3 DEF RunBody, Executes, cfVars, inputVars
  <2>4. b \in DOMAIN g.succ
    BY <2>1 DEF EmInv, TranslationInv, ParseInv, HandledInv, TypeInv, InputOK, IsFunction
  <2>5. Walk!EntersFrom(b)
    BY <2>1 DEF Enters, Walk!EntersFrom
  <2>6. IF g.succ[b] = <<>> THEN out' = 0 ELSE out' \in DOMAIN g.succ[b]
    BY <2>1 DEF Outcomes
  <2>7. Walk!Enter(b)
    BY <2>2, <2>3, <2>5, <2>6 DEF Walk!Enter
  <2> QED
    BY <2>4, <2>7 DEF Walk!Next
<1>4. CASE AssignPhis \/ Jump \/ RunInPlace \/ RunIf \/ RunDo \/ RunWhile \/ Stutter
            \/ UNCHANGED emVars
  <2>1. UNCHANGED <<g, cur, src, out, phase>>
    BY <1>4 DEF AssignPhis, Jump, RunInPlace, RunIf, RunDo, RunWhile, Stutter, emVars, runVars,
                progVars, cfVars, inputVars
  <2> QED
    BY <2>1 DEF Walk!walkVars
<1>5. CASE RunRet
  <2>1. cur \in Blocks /\ g.term[cur] = "ret"
    BY <1>5, StepRet
  <2>2. phase = "running" /\ phase' = "returned" /\ UNCHANGED <<g, cur, src, out>>
    BY <1>5 DEF RunRet, Executes, cfVars, inputVars
  <2>3. cur # NoBlock
    BY <2>1 DEF Blocks, NoBlock
  <2>4. Walk!Return
    BY <2>1, <2>2, <2>3 DEF Walk!Return
  <2> QED
    BY <2>4 DEF Walk!Next
<1> QED
  BY <1>1, <1>2, <1>3, <1>4, <1>5 DEF EmNext, Translate, RunC

\* For every function whose switches lead to no phi nodes, the C function does
\* what the LLVM function does: the blocks run in an order the terminators
\* allow, each for the outcome of the one before it, phi nodes take the values
\* of the edge, and the function returns where LLVM returns.
THEOREM PrintedFunctionImplementsLlvm == EmSpec /\ NoSwitchPhis => ImplementsLlvm
<1>1. EmInit => Walk!Init
  BY DEF EmInit, Walk!Init
<1>2. EmInit => EmInv
  BY EmInvInit
<1>3. EmInv /\ [EmNext]_emVars => EmInv'
  BY EmInvStep
<1>4. EmInv /\ NoSwitchPhis /\ [EmNext]_emVars => NoSwitchPhis'
  <2> SUFFICES ASSUME EmInv, NoSwitchPhis, [EmNext]_emVars PROVE NoSwitchPhis'
    OBVIOUS
  <2>1. g' = g
    BY DEF EmNext, Translate, CFNext, ParseLoop, ParseRemainingBlocks, IdentifyInlinableBlocks,
           DoNotInlineLatches, Inlining, VisitContainer, InlineGoto, FinishTarget,
           FinishContainer, MarkLatchBlockAsInlined, StartWriter, WriteCopy, RunC, CallFunction,
           RunBody, AssignPhis, Jump, RunInPlace, RunIf, RunDo, RunWhile, RunRet, Stutter,
           emVars, cfVars, inputVars
  <2> QED
    BY <2>1 DEF NoSwitchPhis, Succs
<1>5. EmInv /\ NoSwitchPhis /\ [EmNext]_emVars => [Walk!Next]_(Walk!walkVars)
  BY WalkStep
<1> QED
  BY <1>1, <1>2, <1>3, <1>4, <1>5, PTL DEF EmSpec, ImplementsLlvm, Walk!Spec

\* InliningVisitor never visits a block it is in the middle of visiting, in a
\* function all of whose blocks can be reached from its entry: following the
\* gotos that are inlined from block to block always comes to an end.
THEOREM InliningNeverReenters ==
  EmSpec => [](Reachable(g) = Blocks => NoReentrantInlining)
<1>1. InliningInv /\ ReenteredUnreachable => (Reachable(g) = Blocks => NoReentrantInlining)
  <2> SUFFICES ASSUME InliningInv, ReenteredUnreachable, Reachable(g) = Blocks,
                      NEW i \in DOMAIN stack, NEW j \in DOMAIN stack, i # j
               PROVE  stack[i].block # stack[j].block
    BY DEF NoReentrantInlining
  <2>1. stack[i].block \in Blocks
    BY DEF InliningInv, StackInv
  <2> QED
    BY <2>1 DEF ReenteredUnreachable
<1> QED
  BY <1>1, InliningInvariant, ReentryInDeadCodeOnly, TranslationWithinComposition, PTL

-----------------------------------------------------------------------------
(* The text. *)



\* The statements that name a block, and those that do not.
Jumps == {"goto", "splice", "latch"}
QuietSimple == {s \in SimpleStmts : s.op \notin Jumps}
QuietStmts == {s \in Stmts : s.op \notin Jumps /\ s.arms = <<>>}

\* The places of c that name a block, in no order, are those of w.
Naming(c, w) ==
  \E P : /\ \A i \in DOMAIN w : /\ P[i] \in Places(c)
                                /\ At(c, P[i]).op = w[i].op /\ At(c, P[i]).to = w[i].to
         /\ \A i, j \in DOMAIN w : P[i] = P[j] => i = j
         /\ \A q \in Places(c) : At(c, q).op \in Jumps => \E i \in DOMAIN w : q = P[i]

-----------------------------------------------------------------------------
(* Places in a list that is put together. *)

Mid(a, x, r) == a \o <<x>> \o r
AllOf(s, T) == \A i \in DOMAIN s : s[i] \in T
\* x is in s, and one more y, with nothing but members of T beside them.
OneOf(s, x, T) == \E d \in DOMAIN s : s[d] = x /\ \A i \in DOMAIN s : i # d => s[i] \in T
TwoOf(s, x, y, T) ==
  \E d, e \in DOMAIN s : /\ s[d] = x /\ s[e] = y /\ d # e
                         /\ \A i \in DOMAIN s : i # d /\ i # e => s[i] \in T

\* What stands where.
MidAt(a, x, r, i) ==
  IF i <= Len(a) THEN a[i] ELSE IF i = Len(a) + 1 THEN x ELSE r[i - Len(a) - 1]

LEMMA Positions ==
  ASSUME NEW S, NEW a \in Seq(S), NEW x \in S, NEW r \in Seq(S)
  PROVE  /\ Mid(a, x, r) \in Seq(S)
         /\ DOMAIN Mid(a, x, r) = 1..(Len(a) + 1 + Len(r))
         /\ DOMAIN a = 1..Len(a) /\ DOMAIN r = 1..Len(r)
         /\ Len(a) \in Nat /\ Len(r) \in Nat
         /\ \A i \in 1..(Len(a) + 1 + Len(r)) : Mid(a, x, r)[i] = MidAt(a, x, r, i)
BY DEF Mid, MidAt

LEMMA OnePlace ==
  ASSUME NEW S, NEW T, NEW a \in Seq(S), NEW x \in S, NEW r \in Seq(S),
         AllOf(a, T), AllOf(r, T)
  PROVE  OneOf(Mid(a, x, r), x, T)
<1> DEFINE s == Mid(a, x, r)
           p == Len(a)
           q == Len(r)
<1>1. /\ DOMAIN s = 1..(p + 1 + q) /\ p \in Nat /\ q \in Nat
      /\ DOMAIN a = 1..p /\ DOMAIN r = 1..q
      /\ \A i \in 1..(p + 1 + q) : s[i] = IF i <= p THEN a[i]
                                          ELSE IF i = p + 1 THEN x ELSE r[i - p - 1]
  <2>1. /\ DOMAIN Mid(a, x, r) = 1..(Len(a) + 1 + Len(r)) /\ Len(a) \in Nat /\ Len(r) \in Nat
        /\ DOMAIN a = 1..Len(a) /\ DOMAIN r = 1..Len(r)
    BY Positions
  <2>2. \A i \in 1..(Len(a) + 1 + Len(r)) : Mid(a, x, r)[i] = MidAt(a, x, r, i)
    BY Positions
  <2> QED
    BY <2>1, <2>2 DEF MidAt
<1>0. (\A i \in DOMAIN a : a[i] \in T) /\ (\A i \in DOMAIN r : r[i] \in T)
  BY DEF AllOf
<1> HIDE DEF s, p, q
<1>2. p + 1 \in DOMAIN s /\ s[p + 1] = x
  BY <1>1
<1>3. ASSUME NEW i \in DOMAIN s, i # p + 1 PROVE s[i] \in T
  <2>1. CASE i <= p
    BY <1>0, <1>1, <2>1
  <2>2. CASE i > p + 1
    <3>1. i - p - 1 \in 1..q /\ s[i] = r[i - p - 1]
      BY <1>1, <2>2
    <3> QED
      BY <1>0, <1>1, <3>1
  <2> QED
    BY <1>1, <1>3, <2>1, <2>2
<1> QED
  BY <1>2, <1>3, Zenon DEF s, OneOf

LEMMA TwoPlaces ==
  ASSUME NEW S, NEW T, NEW a \in Seq(S), NEW x \in S, NEW r \in Seq(S),
         NEW y, AllOf(a, T), OneOf(r, y, T)
  PROVE  TwoOf(Mid(a, x, r), x, y, T)
<1>0. (\A i \in DOMAIN a : a[i] \in T)
  BY DEF AllOf
<1>9. PICK m \in DOMAIN r : r[m] = y /\ \A i \in DOMAIN r : i # m => r[i] \in T
  BY DEF OneOf
<1> DEFINE s == Mid(a, x, r)
           p == Len(a)
           q == Len(r)
           e == p + 1 + m
<1>1. /\ DOMAIN s = 1..(p + 1 + q) /\ p \in Nat /\ q \in Nat
      /\ DOMAIN a = 1..p /\ DOMAIN r = 1..q
      /\ \A i \in 1..(p + 1 + q) : s[i] = IF i <= p THEN a[i]
                                          ELSE IF i = p + 1 THEN x ELSE r[i - p - 1]
  <2>1. /\ DOMAIN Mid(a, x, r) = 1..(Len(a) + 1 + Len(r)) /\ Len(a) \in Nat /\ Len(r) \in Nat
        /\ DOMAIN a = 1..Len(a) /\ DOMAIN r = 1..Len(r)
    BY Positions
  <2>2. \A i \in 1..(Len(a) + 1 + Len(r)) : Mid(a, x, r)[i] = MidAt(a, x, r, i)
    BY Positions
  <2> QED
    BY <2>1, <2>2 DEF MidAt
<1> HIDE DEF s, p, q
<1>2. p + 1 \in DOMAIN s /\ s[p + 1] = x
  BY <1>1
<1>3. e \in DOMAIN s /\ s[e] = y /\ e # p + 1
  <2>1. m \in 1..q
    BY <1>1
  <2>2. e \in 1..(p + 1 + q) /\ ~(e <= p) /\ e # p + 1 /\ e - p - 1 = m
    BY <1>1, <2>1
  <2> HIDE DEF e
  <2> QED
    BY <1>1, <1>9, <2>2
<1>4. ASSUME NEW i \in DOMAIN s, i # p + 1, i # e PROVE s[i] \in T
  <2>1. CASE i <= p
    BY <1>0, <1>1, <2>1
  <2>2. CASE i > p + 1
    <3>1. i - p - 1 \in 1..q /\ i - p - 1 # m
      <4>1. m \in 1..q /\ i \in 1..(p + 1 + q)
        BY <1>1
      <4> QED
        BY <1>1, <1>4, <2>2, <4>1
    <3>2. s[i] = r[i - p - 1]
      BY <1>1, <2>2
    <3> QED
      BY <1>1, <1>9, <3>1, <3>2
  <2>3. i \in 1..(p + 1 + q) /\ i # p + 1
    BY <1>1, <1>4
  <2> HIDE DEF e
  <2> QED
    BY <1>1, <2>1, <2>2, <2>3
<1> HIDE DEF e
<1> QED
  BY <1>2, <1>3, <1>4, Zenon DEF s, TwoOf

-----------------------------------------------------------------------------
(* The places in the code of an edge and of a loop's body. *)

LEMMA PhisQuiet ==
  ASSUME NEW from \in Blocks, NEW to \in Blocks, NEW isLoop \in BOOLEAN,
         NEW isNegated \in BOOLEAN, NEW phis,
         phis = GeneratePhiAssignments(from, to, isLoop, isNegated)
  PROVE  phis \in Seq(SimpleStmts) /\ AllOf(phis, QuietSimple)
<1>1. phis \in Seq(SimpleStmts)
  BY PhiAssignmentsType
<1>2. \A i \in DOMAIN phis : phis[i].op \notin Jumps
  BY DEF GeneratePhiAssignments, Simple, Jumps
<1>3. \A i \in DOMAIN phis : phis[i] \in SimpleStmts
  BY <1>1
<1> QED
  BY <1>1, <1>2, <1>3 DEF QuietSimple, AllOf

LEMMA EmptyBehind ==
  ASSUME NEW S, NEW a \in Seq(S), NEW x \in S
  PROVE  a \o <<x>> = Mid(a, x, <<>>) /\ <<>> \in Seq(S) /\ DOMAIN <<>> = {}
BY DEF Mid

LEMMA EdgePlace ==
  ASSUME NEW D, NEW from \in Blocks, NEW to \in Blocks
  PROVE  OneOf(EdgeCode(D, from, to), JumpTo(D, to), QuietSimple)
<1> DEFINE phis == GeneratePhiAssignments(from, to, FALSE, FALSE)
           jump == JumpTo(D, to)
           none == <<>>
<1>1. phis \in Seq(SimpleStmts) /\ AllOf(phis, QuietSimple)
  <2>1. FALSE \in BOOLEAN
    OBVIOUS
  <2> QED
    BY <2>1, PhisQuiet, Zenon
<1>2. jump \in SimpleStmts
  BY JumpToType
<1>3. EdgeCode(D, from, to) = phis \o <<jump>>
  BY DEF EdgeCode
<1>4. none \in Seq(SimpleStmts) /\ DOMAIN none = {}
  OBVIOUS
<1> HIDE DEF phis, jump, none
<1>5. EdgeCode(D, from, to) = Mid(phis, jump, none)
  BY <1>1, <1>2, <1>3, EmptyBehind DEF none
<1>6. AllOf(none, QuietSimple)
  BY <1>4 DEF AllOf
<1>7. OneOf(Mid(phis, jump, none), jump, QuietSimple)
  BY <1>1, <1>2, <1>4, <1>6, OnePlace
<1> QED
  BY <1>5, <1>7 DEF jump

LEMMA LiftPlaces ==
  ASSUME NEW code \in Seq(SimpleStmts)
  PROVE  /\ Lift(code) \in Seq(Stmts)
         /\ DOMAIN Lift(code) = DOMAIN code
         /\ \A i \in DOMAIN code :
              /\ Lift(code)[i] = Plain(code[i])
              /\ code[i] \in QuietSimple => Lift(code)[i] \in QuietStmts
<1>1. Lift(code) \in Seq(Stmts)
  BY LiftType
<1>2. DOMAIN Lift(code) = DOMAIN code /\ \A i \in DOMAIN code : Lift(code)[i] = Plain(code[i])
  BY DEF Lift
<1>3. ASSUME NEW s \in QuietSimple PROVE Plain(s) \in QuietStmts
  <2>1. s \in SimpleStmts /\ s.op \notin Jumps
    BY DEF QuietSimple
  <2>2. Plain(s) \in Stmts
    BY <2>1, PlainType
  <2>3. Plain(s).op = s.op /\ Plain(s).arms = <<>>
    BY DEF Plain, Nested
  <2> QED
    BY <2>1, <2>2, <2>3 DEF QuietStmts
<1> QED
  BY <1>1, <1>2, <1>3, Zenon

\* The latch has a place of its own in the loop's body.
Wrapped(l) == l.header # l.latch /\ ~HeaderGotoLatch(l)

LEMMA ArmPlaces ==
  ASSUME InputOK, NEW l \in Rotated, NEW D, NEW arm, arm = LoopArm(D, l)
  PROVE  IF Wrapped(l) THEN TwoOf(arm, JumpTo(D, l.header), LatchExpr(l.latch), QuietSimple)
         ELSE OneOf(arm, JumpTo(D, l.header), QuietSimple)
<1> DEFINE first == GeneratePhiAssignments(l.header, l.latch, FALSE, Negated(l))
           none == <<>>
           phis == IF l.header = l.latch THEN none ELSE first
           jump == JumpTo(D, l.header)
           latch == LatchExpr(l.latch)
           selects == GeneratePhiAssignments(l.latch, l.header, TRUE, Negated(l))
<1>1. l.header \in Blocks /\ l.latch \in Blocks /\ Negated(l) \in BOOLEAN
  BY RotatedFacts DEF Negated
<1>2. /\ first \in Seq(SimpleStmts) /\ AllOf(first, QuietSimple)
      /\ selects \in Seq(SimpleStmts) /\ AllOf(selects, QuietSimple)
  <2>1. FALSE \in BOOLEAN /\ TRUE \in BOOLEAN
    OBVIOUS
  <2> QED
    BY <1>1, <2>1, PhisQuiet, Zenon
<1>3. none \in Seq(SimpleStmts) /\ DOMAIN none = {}
  OBVIOUS
<1>4. jump \in SimpleStmts /\ latch \in SimpleStmts
  BY <1>1, JumpToType, GotoType
<1>5. Wrapped(l) => arm = phis \o <<jump>> \o <<latch>> \o selects
  BY DEF LoopArm, Wrapped
<1>6. ~Wrapped(l) => arm = phis \o <<jump>> \o none \o selects
  BY DEF LoopArm, Wrapped
<1> HIDE DEF first, none, jump, latch, selects
<1>7. AllOf(none, QuietSimple)
  BY <1>3 DEF AllOf
<1>8. phis \in Seq(SimpleStmts) /\ AllOf(phis, QuietSimple)
  BY <1>2, <1>3, <1>7, Zenon
<1> HIDE DEF phis
<1>9. CASE Wrapped(l)
  <2> DEFINE r == Mid(none, latch, selects)
  <2>1. r \in Seq(SimpleStmts)
    BY <1>2, <1>3, <1>4, Positions
  <2>2. OneOf(r, latch, QuietSimple)
    BY <1>2, <1>3, <1>4, <1>7, OnePlace
  <2>3. arm = Mid(phis, jump, r)
    <3>1. phis \o <<jump>> \o <<latch>> \o selects = phis \o <<jump>> \o (<<>> \o <<latch>> \o selects)
      BY <1>2, <1>4, <1>8
    <3> QED
      BY <1>5, <1>9, <3>1 DEF Mid, none
  <2> HIDE DEF r
  <2>4. TwoOf(Mid(phis, jump, r), jump, latch, QuietSimple)
    BY <1>4, <1>8, <2>1, <2>2, TwoPlaces
  <2> QED
    BY <1>9, <2>3, <2>4 DEF jump, latch
<1>10. CASE ~Wrapped(l)
  <2>1. arm = Mid(phis, jump, selects)
    <3>1. phis \o <<jump>> \o <<>> \o selects = phis \o <<jump>> \o selects
      BY <1>2, <1>4, <1>8
    <3> QED
      BY <1>6, <1>10, <3>1 DEF Mid, none
  <2>2. OneOf(Mid(phis, jump, selects), jump, QuietSimple)
    BY <1>2, <1>4, <1>8, OnePlace
  <2> QED
    BY <1>10, <2>1, <2>2 DEF jump
<1> QED
  BY <1>9, <1>10

-----------------------------------------------------------------------------
(* The places of a block's code. *)

LEMMA PlacesAre ==
  ASSUME NEW c \in Seq(Stmts)
  PROVE  /\ \A i \in DOMAIN c : <<i, 0, 0>> \in Places(c) /\ At(c, <<i, 0, 0>>) = c[i]
         /\ \A i \in DOMAIN c : \A a \in DOMAIN c[i].arms : \A j \in DOMAIN c[i].arms[a] :
              <<i, a, j>> \in Places(c) /\ At(c, <<i, a, j>>) = c[i].arms[a][j]
         /\ \A q \in Places(c) :
              \/ \E i \in DOMAIN c : q = <<i, 0, 0>>
              \/ \E i \in DOMAIN c : \E a \in DOMAIN c[i].arms :
                   \E j \in DOMAIN c[i].arms[a] : q = <<i, a, j>>
<1>1. \A i \in DOMAIN c : <<i, 0, 0>> \in Places(c) /\ At(c, <<i, 0, 0>>) = c[i]
  BY DEF Places, At
<1>2. ASSUME NEW i \in DOMAIN c, NEW a \in DOMAIN c[i].arms, NEW j \in DOMAIN c[i].arms[a]
      PROVE  <<i, a, j>> \in Places(c) /\ At(c, <<i, a, j>>) = c[i].arms[a][j]
  <2>1. c[i] \in Stmts
    OBVIOUS
  <2>2. c[i].arms \in Seq(Seq(SimpleStmts))
    BY <2>1 DEF Stmts
  <2>3. a # 0
    BY <2>2
  <2>4. At(c, <<i, a, j>>) = c[i].arms[a][j]
    BY <2>3 DEF At
  <2> QED
    BY <2>4 DEF Places
<1>3. ASSUME NEW q \in Places(c)
      PROVE  \/ \E i \in DOMAIN c : q = <<i, 0, 0>>
             \/ \E i \in DOMAIN c : \E a \in DOMAIN c[i].arms :
                   \E j \in DOMAIN c[i].arms[a] : q = <<i, a, j>>
  <2> DEFINE Arm(i, a) == {<<i, a, j>> : j \in DOMAIN c[i].arms[a]}
             Nest(i) == UNION {Arm(i, a) : a \in DOMAIN c[i].arms}
  <2>1. (\E i \in DOMAIN c : q = <<i, 0, 0>>) \/ q \in UNION {Nest(i) : i \in DOMAIN c}
    BY DEF Places
  <2>2. ASSUME NEW i, q \in Nest(i)
        PROVE  \E a \in DOMAIN c[i].arms : \E j \in DOMAIN c[i].arms[a] : q = <<i, a, j>>
    <3>1. PICK a \in DOMAIN c[i].arms : q \in Arm(i, a)
      BY <2>2
    <3> QED
      BY <3>1
  <2> HIDE DEF Nest
  <2> QED
    BY <2>1, <2>2
<1> QED
  BY <1>1, <1>2, <1>3

\* Without nested statements and jumps no place names a block.
LEMMA QuietPlaces ==
  ASSUME NEW c \in Seq(Stmts), NEW q \in Places(c), At(c, q).op \in Jumps
  PROVE  \/ \E i \in DOMAIN c : q = <<i, 0, 0>> /\ c[i].op \in Jumps
         \/ \E i \in DOMAIN c : \E a \in DOMAIN c[i].arms : \E j \in DOMAIN c[i].arms[a] :
              /\ q = <<i, a, j>> /\ c[i].arms[a][j].op \in Jumps
              /\ c[i] \notin QuietStmts /\ c[i].arms[a][j] \notin QuietSimple
<1>1. CASE \E i \in DOMAIN c : q = <<i, 0, 0>>
  BY <1>1, PlacesAre
<1>2. CASE \E i \in DOMAIN c : \E a \in DOMAIN c[i].arms :
                   \E j \in DOMAIN c[i].arms[a] : q = <<i, a, j>>
  <2>5. PICK i \in DOMAIN c : \E a \in DOMAIN c[i].arms : \E j \in DOMAIN c[i].arms[a] : q = <<i, a, j>>
    BY <1>2
  <2>6. PICK a \in DOMAIN c[i].arms : \E j \in DOMAIN c[i].arms[a] : q = <<i, a, j>>
    BY <2>5
  <2>1. PICK j \in DOMAIN c[i].arms[a] : q = <<i, a, j>>
    BY <2>6
  <2>2. c[i].arms[a][j].op \in Jumps
    BY <2>1, PlacesAre
  <2>3. c[i] \notin QuietStmts
    BY DEF QuietStmts
  <2>4. c[i].arms[a][j] \notin QuietSimple
    BY <2>2 DEF QuietSimple
  <2> QED
    BY <2>1, <2>2, <2>3, <2>4
<1> QED
  BY <1>1, <1>2, PlacesAre

LEMMA NamingBy ==
  ASSUME NEW c, NEW w, NEW P,
         \A i \in DOMAIN w : P[i] \in Places(c) /\ At(c, P[i]).op = w[i].op /\ At(c, P[i]).to = w[i].to,
         \A i, j \in DOMAIN w : P[i] = P[j] => i = j,
         \A q \in Places(c) : At(c, q).op \in Jumps => \E i \in DOMAIN w : q = P[i]
  PROVE  Naming(c, w)
BY DEF Naming

LEMMA NamingNone ==
  ASSUME NEW c \in Seq(Stmts), AllOf(c, QuietStmts)
  PROVE  Naming(c, <<>>)
<1>1. ASSUME NEW q \in Places(c), At(c, q).op \in Jumps PROVE FALSE
  BY <1>1, QuietPlaces DEF AllOf, QuietStmts
<1> QED
  BY <1>1 DEF Naming

LEMMA NamingFlat ==
  ASSUME NEW c \in Seq(Stmts), NEW s \in SimpleStmts, OneOf(c, Plain(s), QuietStmts)
  PROVE  Naming(c, <<s>>)
<1>1. PICK d \in DOMAIN c : c[d] = Plain(s) /\ \A i \in DOMAIN c : i # d => c[i] \in QuietStmts
  BY DEF OneOf
<1>2. c[d].op = s.op /\ c[d].to = s.to /\ c[d].arms = <<>>
  BY <1>1 DEF Plain, Nested
<1> DEFINE P == [n \in {1} |-> <<d, 0, 0>>]
<1>3. P[1] \in Places(c) /\ At(c, P[1]) = c[d]
  BY PlacesAre
<1>4. ASSUME NEW q \in Places(c), At(c, q).op \in Jumps PROVE q = P[1]
  <2>1. ASSUME NEW i \in DOMAIN c, NEW a \in DOMAIN c[i].arms PROVE c[i] \in QuietStmts
    BY <1>1, <1>2
  <2>2. \E i \in DOMAIN c : q = <<i, 0, 0>> /\ c[i].op \in Jumps
    BY <1>4, <2>1, QuietPlaces
  <2> QED
    BY <1>1, <2>2 DEF QuietStmts
<1> HIDE DEF P
<1> QED
  BY <1>2, <1>3, <1>4 DEF Naming

LEMMA NamingNested ==
  ASSUME NEW c \in Seq(Stmts), NEW x, OneOf(c, x, QuietStmts), x.op \notin Jumps,
         NEW w, DOMAIN w = DOMAIN x.arms,
         \A a \in DOMAIN w : OneOf(x.arms[a], w[a], QuietSimple)
  PROVE  Naming(c, w)
<1>1. PICK d \in DOMAIN c : c[d] = x /\ \A i \in DOMAIN c : i # d => c[i] \in QuietStmts
  BY DEF OneOf
<1> DEFINE Is(a, j) == /\ j \in DOMAIN x.arms[a] /\ x.arms[a][j] = w[a]
                       /\ \A i \in DOMAIN x.arms[a] : i # j => x.arms[a][i] \in QuietSimple
           J == [a \in DOMAIN w |-> CHOOSE j : Is(a, j)]
           P == [a \in DOMAIN w |-> <<d, a, J[a]>>]
<1>2. ASSUME NEW a \in DOMAIN w PROVE Is(a, J[a])
  <2>1. \E j : Is(a, j)
    BY DEF OneOf
  <2> QED
    BY <2>1
<1> HIDE DEF J
<1>3. ASSUME NEW a \in DOMAIN w PROVE P[a] \in Places(c) /\ At(c, P[a]) = w[a]
  <2>1. d \in DOMAIN c /\ a \in DOMAIN c[d].arms /\ J[a] \in DOMAIN c[d].arms[a]
    BY <1>1, <1>2
  <2>2. <<d, a, J[a]>> \in Places(c) /\ At(c, <<d, a, J[a]>>) = c[d].arms[a][J[a]]
    BY <2>1, PlacesAre
  <2> QED
    BY <1>1, <1>2, <2>2
<1>4. ASSUME NEW a \in DOMAIN w, NEW b \in DOMAIN w, P[a] = P[b] PROVE a = b
  BY <1>4
<1>5. ASSUME NEW q \in Places(c), At(c, q).op \in Jumps PROVE \E a \in DOMAIN w : q = P[a]
  <2>1. CASE \E i \in DOMAIN c : q = <<i, 0, 0>> /\ c[i].op \in Jumps
    BY <1>1, <2>1 DEF QuietStmts
  <2>2. CASE \E i \in DOMAIN c : \E a \in DOMAIN c[i].arms : \E j \in DOMAIN c[i].arms[a] :
              /\ q = <<i, a, j>> /\ c[i].arms[a][j].op \in Jumps
              /\ c[i] \notin QuietStmts /\ c[i].arms[a][j] \notin QuietSimple
    <3>4. PICK i \in DOMAIN c : \E a \in DOMAIN c[i].arms : \E j \in DOMAIN c[i].arms[a] :
            /\ q = <<i, a, j>> /\ c[i] \notin QuietStmts /\ c[i].arms[a][j] \notin QuietSimple
      BY <2>2
    <3>5. PICK a \in DOMAIN c[i].arms : \E j \in DOMAIN c[i].arms[a] :
            /\ q = <<i, a, j>> /\ c[i] \notin QuietStmts /\ c[i].arms[a][j] \notin QuietSimple
      BY <3>4
    <3>1. PICK j \in DOMAIN c[i].arms[a] :
            /\ q = <<i, a, j>> /\ c[i] \notin QuietStmts /\ c[i].arms[a][j] \notin QuietSimple
      BY <3>5
    <3>2. i = d /\ a \in DOMAIN w
      BY <1>1, <3>1
    <3>3. j = J[a]
      BY <1>1, <1>2, <3>1, <3>2
    <3> QED
      BY <3>1, <3>2, <3>3
  <2>3. \/ \E i \in DOMAIN c : q = <<i, 0, 0>> /\ c[i].op \in Jumps
        \/ \E i \in DOMAIN c : \E a \in DOMAIN c[i].arms : \E j \in DOMAIN c[i].arms[a] :
              /\ q = <<i, a, j>> /\ c[i].arms[a][j].op \in Jumps
              /\ c[i] \notin QuietStmts /\ c[i].arms[a][j] \notin QuietSimple
    BY <1>5, QuietPlaces
  <2> HIDE DEF P
  <2> QED
    BY <2>1, <2>2, <2>3, Zenon
<1> HIDE DEF P
<1> QED
  BY <1>3, <1>4, <1>5 DEF Naming

\* A do-while whose body has one such place, or two, and a jump behind it.
LEMMA NamingLoop ==
  ASSUME NEW c \in Seq(Stmts), NEW x, NEW s \in SimpleStmts, TwoOf(c, x, Plain(s), QuietStmts),
         x.op \notin Jumps, NEW arm, x.arms = <<arm>>, NEW h, OneOf(arm, h, QuietSimple)
  PROVE  Naming(c, <<h, s>>)
<1>1. PICK d \in DOMAIN c, e \in DOMAIN c :
        /\ c[d] = x /\ c[e] = Plain(s) /\ d # e
        /\ \A i \in DOMAIN c : i # d /\ i # e => c[i] \in QuietStmts
  BY DEF TwoOf
<1>2. c[e].op = s.op /\ c[e].to = s.to /\ c[e].arms = <<>>
  BY <1>1 DEF Plain, Nested
<1>3. PICK j \in DOMAIN arm : arm[j] = h /\ \A i \in DOMAIN arm : i # j => arm[i] \in QuietSimple
  BY DEF OneOf
<1> DEFINE p1 == <<d, 1, j>>
           p2 == <<e, 0, 0>>
           P == <<p1, p2>>
<1>4. p1 \in Places(c) /\ At(c, p1) = h
  <2>1. d \in DOMAIN c /\ 1 \in DOMAIN c[d].arms /\ j \in DOMAIN c[d].arms[1]
    BY <1>1, <1>3
  <2>2. p1 \in Places(c) /\ At(c, p1) = c[d].arms[1][j]
    BY <2>1, PlacesAre
  <2> QED
    BY <1>1, <1>3, <2>2
<1>5. p2 \in Places(c) /\ At(c, p2) = c[e]
  BY PlacesAre
<1>6. p1 # p2
  OBVIOUS
<1>7. ASSUME NEW q \in Places(c), At(c, q).op \in Jumps PROVE q = p1 \/ q = p2
  <2>1. CASE \E i \in DOMAIN c : q = <<i, 0, 0>> /\ c[i].op \in Jumps
    BY <1>1, <2>1 DEF QuietStmts
  <2>2. CASE \E i \in DOMAIN c : \E a \in DOMAIN c[i].arms : \E m \in DOMAIN c[i].arms[a] :
              /\ q = <<i, a, m>> /\ c[i].arms[a][m].op \in Jumps
              /\ c[i] \notin QuietStmts /\ c[i].arms[a][m] \notin QuietSimple
    <3>1. PICK i \in DOMAIN c : \E a \in DOMAIN c[i].arms : \E m \in DOMAIN c[i].arms[a] :
            /\ q = <<i, a, m>> /\ c[i] \notin QuietStmts /\ c[i].arms[a][m] \notin QuietSimple
      BY <2>2
    <3>2. PICK a \in DOMAIN c[i].arms : \E m \in DOMAIN c[i].arms[a] :
            /\ q = <<i, a, m>> /\ c[i] \notin QuietStmts /\ c[i].arms[a][m] \notin QuietSimple
      BY <3>1
    <3>3. PICK m \in DOMAIN c[i].arms[a] :
            /\ q = <<i, a, m>> /\ c[i] \notin QuietStmts /\ c[i].arms[a][m] \notin QuietSimple
      BY <3>2
    <3>4. i = d
      BY <1>1, <1>2, <3>3
    <3>5. a = 1 /\ c[i].arms[a] = arm
      BY <1>1, <3>4
    <3>6. m = j
      BY <1>3, <3>3, <3>5
    <3> QED
      BY <3>3, <3>4, <3>5, <3>6
  <2> QED
    BY <1>7, <2>1, <2>2, QuietPlaces
<1> HIDE DEF p1, p2
<1>8. /\ \A i \in {1, 2} : /\ P[i] \in Places(c)
                           /\ At(c, P[i]).op = <<h, s>>[i].op /\ At(c, P[i]).to = <<h, s>>[i].to
      /\ \A i, n \in {1, 2} : P[i] = P[n] => i = n
  BY <1>2, <1>4, <1>5, <1>6
<1>9. DOMAIN <<h, s>> = {1, 2} /\ P[1] = p1 /\ P[2] = p2
  OBVIOUS
<1> HIDE DEF P
<1> QED
  BY <1>7, <1>8, <1>9 DEF Naming

LEMMA NamingLoopTwo ==
  ASSUME NEW c \in Seq(Stmts), NEW x, NEW s \in SimpleStmts, TwoOf(c, x, Plain(s), QuietStmts),
         x.op \notin Jumps, NEW arm, x.arms = <<arm>>, NEW h, NEW t, TwoOf(arm, h, t, QuietSimple)
  PROVE  Naming(c, <<h, s, t>>)
<1>1. PICK d \in DOMAIN c, e \in DOMAIN c :
        /\ c[d] = x /\ c[e] = Plain(s) /\ d # e
        /\ \A i \in DOMAIN c : i # d /\ i # e => c[i] \in QuietStmts
  BY DEF TwoOf
<1>2. c[e].op = s.op /\ c[e].to = s.to /\ c[e].arms = <<>>
  BY <1>1 DEF Plain, Nested
<1>3. PICK j \in DOMAIN arm, n \in DOMAIN arm :
        /\ arm[j] = h /\ arm[n] = t /\ j # n
        /\ \A i \in DOMAIN arm : i # j /\ i # n => arm[i] \in QuietSimple
  BY DEF TwoOf
<1> DEFINE p1 == <<d, 1, j>>
           p2 == <<e, 0, 0>>
           p3 == <<d, 1, n>>
           P == <<p1, p2, p3>>
<1>4. p1 \in Places(c) /\ At(c, p1) = h /\ p3 \in Places(c) /\ At(c, p3) = t
  <2>1. /\ d \in DOMAIN c /\ 1 \in DOMAIN c[d].arms
        /\ j \in DOMAIN c[d].arms[1] /\ n \in DOMAIN c[d].arms[1]
    BY <1>1, <1>3
  <2>2. /\ p1 \in Places(c) /\ At(c, p1) = c[d].arms[1][j]
        /\ p3 \in Places(c) /\ At(c, p3) = c[d].arms[1][n]
    BY <2>1, PlacesAre
  <2> QED
    BY <1>1, <1>3, <2>2
<1>5. p2 \in Places(c) /\ At(c, p2) = c[e]
  BY PlacesAre
<1>6. p1 # p2 /\ p3 # p2 /\ p1 # p3
  BY <1>3
<1>7. ASSUME NEW q \in Places(c), At(c, q).op \in Jumps PROVE q = p1 \/ q = p2 \/ q = p3
  <2>1. CASE \E i \in DOMAIN c : q = <<i, 0, 0>> /\ c[i].op \in Jumps
    BY <1>1, <2>1 DEF QuietStmts
  <2>2. CASE \E i \in DOMAIN c : \E a \in DOMAIN c[i].arms : \E m \in DOMAIN c[i].arms[a] :
              /\ q = <<i, a, m>> /\ c[i].arms[a][m].op \in Jumps
              /\ c[i] \notin QuietStmts /\ c[i].arms[a][m] \notin QuietSimple
    <3>1. PICK i \in DOMAIN c : \E a \in DOMAIN c[i].arms : \E m \in DOMAIN c[i].arms[a] :
            /\ q = <<i, a, m>> /\ c[i] \notin QuietStmts /\ c[i].arms[a][m] \notin QuietSimple
      BY <2>2
    <3>2. PICK a \in DOMAIN c[i].arms : \E m \in DOMAIN c[i].arms[a] :
            /\ q = <<i, a, m>> /\ c[i] \notin QuietStmts /\ c[i].arms[a][m] \notin QuietSimple
      BY <3>1
    <3>3. PICK m \in DOMAIN c[i].arms[a] :
            /\ q = <<i, a, m>> /\ c[i] \notin QuietStmts /\ c[i].arms[a][m] \notin QuietSimple
      BY <3>2
    <3>4. i = d
      BY <1>1, <1>2, <3>3
    <3>5. a = 1 /\ c[i].arms[a] = arm
      BY <1>1, <3>4
    <3>6. m = j \/ m = n
      BY <1>3, <3>3, <3>5
    <3> QED
      BY <3>3, <3>4, <3>5, <3>6
  <2> QED
    BY <1>7, <2>1, <2>2, QuietPlaces
<1> HIDE DEF p1, p2, p3
<1>8. /\ \A i \in {1, 2, 3} : /\ P[i] \in Places(c)
                              /\ At(c, P[i]).op = <<h, s, t>>[i].op
                              /\ At(c, P[i]).to = <<h, s, t>>[i].to
      /\ \A i, m \in {1, 2, 3} : P[i] = P[m] => i = m
  BY <1>2, <1>4, <1>5, <1>6
<1>9. DOMAIN <<h, s, t>> = {1, 2, 3} /\ P[1] = p1 /\ P[2] = p2 /\ P[3] = p3
  OBVIOUS
<1> HIDE DEF P
<1> DEFINE w == <<h, s, t>>
<1>10. \A i \in DOMAIN w : P[i] \in Places(c) /\ At(c, P[i]).op = w[i].op /\ At(c, P[i]).to = w[i].to
  BY <1>8, <1>9
<1>11. \A i, m \in DOMAIN w : P[i] = P[m] => i = m
  BY <1>8, <1>9
<1>12. \A q \in Places(c) : At(c, q).op \in Jumps => \E i \in DOMAIN w : q = P[i]
  <2>1. 1 \in DOMAIN w /\ 2 \in DOMAIN w /\ 3 \in DOMAIN w
    BY <1>9
  <2> HIDE DEF w
  <2> QED
    BY <1>7, <1>9, <2>1
<1> HIDE DEF w
<1>13. Naming(c, w)
  BY <1>10, <1>11, <1>12, NamingBy
<1> QED
  BY <1>13 DEF w

-----------------------------------------------------------------------------
(* The blocks that a block's code names. *)

LoopLeaving(D, l) ==
  IF Wrapped(l) THEN <<JumpTo(D, l.header), JumpTo(D, AfterDoWhile(l)), LatchExpr(l.latch)>>
  ELSE <<JumpTo(D, l.header), JumpTo(D, AfterDoWhile(l))>>

Leaving(D, p) ==
  IF p \in RotatedLatches THEN <<>>
  ELSE IF p \in RotatedPreheaders THEN LoopLeaving(D, LoopAt(p))
  ELSE [i \in DOMAIN g.succ[p] |-> JumpTo(D, g.succ[p][i])]

LEMMA BodyQuiet ==
  ASSUME NEW b \in Blocks
  PROVE  Body(b) \in QuietStmts /\ Body(b) \in Stmts
<1>1. Simple("body", b, b) \in SimpleStmts
  BY SimpleType DEF StmtOps
<1>2. Body(b) \in Stmts
  BY <1>1, PlainType DEF Body
<1>3. Body(b).op = "body" /\ Body(b).arms = <<>>
  BY DEF Body, Plain, Nested, Simple
<1> QED
  BY <1>2, <1>3 DEF QuietStmts, Jumps

\* A block's own code is its body and one statement more, or an edge's.
LEMMA BehindBody ==
  ASSUME NEW b \in Blocks, NEW c \in Seq(Stmts), NEW x, OneOf(c, x, QuietStmts)
  PROVE  OneOf(<<Body(b)>> \o c, x, QuietStmts)
<1> DEFINE body == Body(b)
           s == <<body>> \o c
<1>1. body \in QuietStmts /\ body \in Stmts
  BY BodyQuiet
<1>2. PICK d \in DOMAIN c : c[d] = x /\ \A i \in DOMAIN c : i # d => c[i] \in QuietStmts
  BY DEF OneOf
<1> HIDE DEF body
<1>3. /\ DOMAIN s = 1..(Len(c) + 1) /\ s[1] = body /\ DOMAIN c = 1..Len(c) /\ Len(c) \in Nat
      /\ \A i \in 2..(Len(c) + 1) : s[i] = c[i - 1]
  BY <1>1
<1> HIDE DEF s
<1>4. d + 1 \in DOMAIN s /\ s[d + 1] = x
  <2>1. d + 1 \in 2..(Len(c) + 1) /\ (d + 1) - 1 = d
    BY <1>3
  <2> QED
    BY <1>2, <1>3, <2>1
<1>5. ASSUME NEW i \in DOMAIN s, i # d + 1 PROVE s[i] \in QuietStmts
  <2>1. CASE i = 1
    BY <1>1, <1>3, <2>1
  <2>2. CASE i # 1
    <3>1. i \in 2..(Len(c) + 1) /\ i - 1 \in 1..Len(c) /\ i - 1 # d
      BY <1>3, <1>5, <2>2
    <3> QED
      BY <1>2, <1>3, <3>1
  <2> QED
    BY <2>1, <2>2
<1> QED
  BY <1>4, <1>5, Zenon DEF OneOf, s, body

LEMMA LiftOneOf ==
  ASSUME NEW code \in Seq(SimpleStmts), NEW s, OneOf(code, s, QuietSimple)
  PROVE  OneOf(Lift(code), Plain(s), QuietStmts)
<1>1. PICK d \in DOMAIN code : code[d] = s /\ \A i \in DOMAIN code : i # d => code[i] \in QuietSimple
  BY DEF OneOf
<1>2. /\ DOMAIN Lift(code) = DOMAIN code
      /\ \A i \in DOMAIN code : /\ Lift(code)[i] = Plain(code[i])
                                /\ code[i] \in QuietSimple => Lift(code)[i] \in QuietStmts
  BY LiftPlaces
<1> QED
  BY <1>1, <1>2, Zenon DEF OneOf

LEMMA NestedNames ==
  ASSUME NEW b \in Blocks, NEW x \in Stmts, x.op \notin Jumps,
         NEW w, DOMAIN w = DOMAIN x.arms,
         \A a \in DOMAIN w : OneOf(x.arms[a], w[a], QuietSimple)
  PROVE  Naming(<<Body(b)>> \o <<x>>, w)
<1> DEFINE one == <<x>>
           body == <<Body(b)>>
<1>1. one \in Seq(Stmts) /\ body \in Seq(Stmts)
  BY BodyQuiet
<1>2. OneOf(one, x, QuietStmts)
  BY DEF OneOf
<1>3. OneOf(body \o one, x, QuietStmts)
  BY <1>1, <1>2, BehindBody
<1> HIDE DEF one, body
<1>4. body \o one \in Seq(Stmts)
  BY <1>1, ConcatType
<1>5. Naming(body \o one, w)
  BY <1>3, <1>4, NamingNested
<1> QED
  BY <1>5 DEF one, body

LEMMA OwnNames ==
  ASSUME InputOK, NEW p \in Blocks, p \notin RotatedLatches, p \notin RotatedPreheaders, NEW D
  PROVE  Naming(CodeOf(D, p), [i \in DOMAIN g.succ[p] |-> JumpTo(D, g.succ[p][i])])
<1> DEFINE w == [i \in DOMAIN g.succ[p] |-> JumpTo(D, g.succ[p][i])]
           term == TermCode(D, p)
           body == <<Body(p)>>
<1>1. CodeOf(D, p) = body \o term /\ term \in Seq(Stmts) /\ body \in Seq(Stmts)
  BY TermCodeType, BodyQuiet DEF CodeOf
<1>2. CodeOf(D, p) \in Seq(Stmts)
  BY TermCodeType
<1>3. /\ g.term[p] \in TermKinds /\ g.succ[p] \in Seq(Blocks)
      /\ g.term[p] = "br" => Len(g.succ[p]) = 1
      /\ g.term[p] = "cond" => Len(g.succ[p]) = 2
      /\ g.term[p] \in {"ret", "unreachable"} => g.succ[p] = <<>>
  BY DEF InputOK, IsFunction, TerminatorsOK, TermKinds
<1>4. CASE g.term[p] = "br"
  <2> DEFINE to == g.succ[p][1]
             edge == EdgeCode(D, p, to)
             jump == JumpTo(D, to)
  <2>1. to \in Blocks
    BY <1>4, SuccType
  <2>2. term = Lift(edge)
    BY <1>4 DEF TermCode
  <2>3. edge \in Seq(SimpleStmts) /\ jump \in SimpleStmts
    BY <2>1, EdgeCodeType, JumpToType
  <2>4. OneOf(edge, jump, QuietSimple)
    BY <2>1, EdgePlace
  <2> HIDE DEF edge
  <2>5. OneOf(term, Plain(jump), QuietStmts)
    BY <2>2, <2>3, <2>4, LiftOneOf
  <2>6. OneOf(body \o term, Plain(jump), QuietStmts)
    BY <1>1, <2>5, BehindBody
  <2>7. Naming(CodeOf(D, p), <<jump>>)
    BY <1>1, <1>2, <2>3, <2>6, NamingFlat
  <2>8. w = <<jump>>
    BY <1>3, <1>4
  <2> QED
    BY <2>7, <2>8
<1>5. CASE g.term[p] = "cond"
  <2> DEFINE x == IfCode(D, p)
  <2>1. x \in Stmts /\ x.op = "if" /\ x.arms = [i \in 1..2 |-> EdgeCode(D, p, g.succ[p][i])]
    <3>1. g.succ[p][1] \in Blocks /\ g.succ[p][2] \in Blocks
      BY <1>5, SuccType
    <3>2. \A i \in 1..2 : EdgeCode(D, p, g.succ[p][i]) \in Seq(SimpleStmts)
      BY <3>1, EdgeCodeType
    <3>3. [i \in 1..2 |-> EdgeCode(D, p, g.succ[p][i])] \in Seq(Seq(SimpleStmts))
      BY <3>2
    <3> QED
      BY <3>3 DEF IfCode, Nested, Stmts, StmtOps
  <2>2. DOMAIN g.succ[p] = 1..2 /\ \A i \in 1..2 : g.succ[p][i] \in Blocks
    BY <1>3, <1>5
  <2>3. ASSUME NEW a \in DOMAIN w PROVE OneOf(x.arms[a], w[a], QuietSimple)
    <3>1. x.arms[a] = EdgeCode(D, p, g.succ[p][a]) /\ w[a] = JumpTo(D, g.succ[p][a])
      BY <2>1, <2>2
    <3>2. g.succ[p][a] \in Blocks
      BY <2>2
    <3> QED
      BY <3>1, <3>2, EdgePlace
  <2>4. DOMAIN w = DOMAIN x.arms /\ x.op \notin Jumps
    BY <2>1, <2>2 DEF Jumps
  <2>5. CodeOf(D, p) = <<Body(p)>> \o <<x>>
    BY <1>5 DEF TermCode, CodeOf
  <2> HIDE DEF w, x
  <2>6. Naming(<<Body(p)>> \o <<x>>, w)
    BY <2>1, <2>3, <2>4, NestedNames
  <2> QED
    BY <2>5, <2>6 DEF w
<1>6. CASE g.term[p] = "switch"
  <2> DEFINE x == SwitchCode(D, p)
  <2>1. x \in Stmts /\ x.op = "switch" /\ x.arms = [i \in 1..Len(g.succ[p]) |-> <<JumpTo(D, g.succ[p][i])>>]
    <3>1. \A i \in 1..Len(g.succ[p]) : <<JumpTo(D, g.succ[p][i])>> \in Seq(SimpleStmts)
      BY <1>3, JumpToType
    <3>2. [i \in 1..Len(g.succ[p]) |-> <<JumpTo(D, g.succ[p][i])>>] \in Seq(Seq(SimpleStmts))
      BY <1>3, <3>1
    <3> QED
      BY <3>2 DEF SwitchCode, Nested, Stmts, StmtOps
  <2>2. DOMAIN g.succ[p] = 1..Len(g.succ[p])
    BY <1>3
  <2>3. ASSUME NEW a \in DOMAIN w PROVE OneOf(x.arms[a], w[a], QuietSimple)
    <3>1. x.arms[a] = <<w[a]>>
      BY <2>1, <2>2
    <3> HIDE DEF w, x
    <3> QED
      BY <3>1 DEF OneOf
  <2>4. DOMAIN w = DOMAIN x.arms /\ x.op \notin Jumps
    BY <2>1, <2>2 DEF Jumps
  <2>5. CodeOf(D, p) = <<Body(p)>> \o <<x>>
    BY <1>6 DEF TermCode, CodeOf
  <2> HIDE DEF w, x
  <2>6. Naming(<<Body(p)>> \o <<x>>, w)
    BY <2>1, <2>3, <2>4, NestedNames
  <2> QED
    BY <2>5, <2>6 DEF w
<1>7. CASE g.term[p] \in {"ret", "unreachable"}
  <2>1. AllOf(term, QuietStmts)
    <3>1. CASE g.term[p] = "ret"
      <4>1. Simple("ret", p, p) \in SimpleStmts
        BY SimpleType DEF StmtOps
      <4>2. ParseRETURN(p) \in Stmts
        BY <4>1, PlainType DEF ParseRETURN
      <4>3. ParseRETURN(p).op = "ret" /\ ParseRETURN(p).arms = <<>>
        BY DEF ParseRETURN, Plain, Nested, Simple
      <4>4. ParseRETURN(p) \in QuietStmts
        BY <4>2, <4>3 DEF QuietStmts, Jumps
      <4>5. term = <<ParseRETURN(p)>>
        BY <3>1 DEF TermCode
      <4> QED
        BY <4>4, <4>5 DEF AllOf
    <3>2. CASE g.term[p] = "unreachable"
      BY <3>2 DEF TermCode, AllOf
    <3> QED
      BY <1>7, <3>1, <3>2
  <2>2. AllOf(body, QuietStmts)
    BY BodyQuiet DEF AllOf
  <2> HIDE DEF term, body
  <2>3. AllOf(body \o term, QuietStmts)
    BY <1>1, <2>1, <2>2 DEF AllOf
  <2>4. Naming(CodeOf(D, p), <<>>)
    BY <1>1, <1>2, <2>3, NamingNone
  <2>5. w = <<>>
    BY <1>3, <1>7
  <2> QED
    BY <2>4, <2>5
<1> QED
  BY <1>3, <1>4, <1>5, <1>6, <1>7 DEF TermKinds

LEMMA LatchNames ==
  ASSUME NEW p \in Blocks, p \in RotatedLatches, NEW D
  PROVE  Naming(CodeOf(D, p), <<>>)
<1> DEFINE body == <<Body(p)>>
<1>1. body \in Seq(Stmts) /\ AllOf(body, QuietStmts)
  BY BodyQuiet DEF AllOf
<1>2. CodeOf(D, p) = body \o <<>>
  BY DEF CodeOf, TermCode
<1> HIDE DEF body
<1>3. CodeOf(D, p) = body
  BY <1>1, <1>2
<1> QED
  BY <1>1, <1>3, NamingNone

LEMMA PreheaderNames ==
  ASSUME InputOK, NEW l \in Rotated, NEW D
  PROVE  Naming(CodeOf(D, l.preheader), LoopLeaving(D, l))
<1> DEFINE p == l.preheader
           body == <<Body(p)>>
           phis == GeneratePhiAssignments(p, l.header, FALSE, FALSE)
           do == DoLoop(D, l)
           to == AfterDoWhile(l)
           edge == EdgeCode(D, l.latch, to)
           way == Lift(edge)
           jump == JumpTo(D, to)
           front == body \o Lift(phis)
           arm == LoopArm(D, l)
           head == JumpTo(D, l.header)
           latch == LatchExpr(l.latch)
           c == CodeOf(D, p)
<1>1. /\ p \in Blocks /\ l.header \in Blocks /\ l.latch \in Blocks /\ to \in Blocks
  BY RotatedFacts
<1>2. body \in Seq(Stmts) /\ AllOf(body, QuietStmts)
  BY <1>1, BodyQuiet DEF AllOf
<1>3. phis \in Seq(SimpleStmts) /\ AllOf(phis, QuietSimple)
  <2>1. FALSE \in BOOLEAN
    OBVIOUS
  <2> QED
    BY <1>1, <2>1, PhisQuiet, Zenon
<1>4. edge \in Seq(SimpleStmts) /\ jump \in SimpleStmts /\ OneOf(edge, jump, QuietSimple)
  BY <1>1, EdgeCodeType, JumpToType, EdgePlace
<1>5. do \in Stmts /\ do.op = "do" /\ do.arms = <<arm>>
  BY DoLoopType DEF DoLoop, Nested
<1>6. IF Wrapped(l) THEN TwoOf(arm, head, latch, QuietSimple) ELSE OneOf(arm, head, QuietSimple)
  BY ArmPlaces
<1>7. c = body \o (Lift(phis) \o <<do>> \o way)
  <2>1. LoopAt(p) = l /\ p \notin RotatedLatches
    BY LoopAtIs
  <2>2. p \in RotatedPreheaders
    BY DEF RotatedPreheaders
  <2> QED
    BY <2>1, <2>2 DEF CodeOf, TermCode, LoopCode, WayOut
<1>8. c \in Seq(Stmts)
  BY <1>1, TermCodeType
<1> HIDE DEF p, body, phis, do, edge, jump, arm, head, latch, c, to
<1>9. Lift(phis) \in Seq(Stmts) /\ AllOf(Lift(phis), QuietStmts)
  BY <1>3, LiftPlaces DEF AllOf
<1>10. way \in Seq(Stmts) /\ OneOf(way, Plain(jump), QuietStmts)
  BY <1>4, LiftPlaces, LiftOneOf
<1> HIDE DEF way
<1>11. c = Mid(front, do, way)
  <2> DEFINE a == Lift(phis)
  <2>1. a \in Seq(Stmts)
    BY <1>9
  <2>2. c = body \o (a \o <<do>> \o way)
    BY <1>7
  <2> HIDE DEF a
  <2>3. body \o (a \o <<do>> \o way) = (body \o a) \o <<do>> \o way
    BY <1>2, <1>5, <1>10, <2>1
  <2> QED
    BY <2>2, <2>3 DEF Mid, a
<1>12. front \in Seq(Stmts) /\ AllOf(front, QuietStmts)
  <2> DEFINE a == Lift(phis)
  <2>1. a \in Seq(Stmts) /\ AllOf(a, QuietStmts)
    BY <1>9
  <2> HIDE DEF a
  <2>2. body \o a \in Seq(Stmts) /\ AllOf(body \o a, QuietStmts)
    BY <1>2, <2>1 DEF AllOf
  <2> QED
    BY <2>2 DEF a
<1> HIDE DEF front
<1>13. TwoOf(c, do, Plain(jump), QuietStmts)
  BY <1>5, <1>10, <1>11, <1>12, TwoPlaces
<1>14. do.op \notin Jumps
  BY <1>5 DEF Jumps
<1>15. CASE Wrapped(l)
  <2>1. TwoOf(arm, head, latch, QuietSimple)
    BY <1>6, <1>15
  <2>2. Naming(c, <<head, jump, latch>>)
    BY <1>4, <1>5, <1>8, <1>13, <1>14, <2>1, NamingLoopTwo
  <2> QED
    BY <1>15, <2>2 DEF LoopLeaving, head, jump, latch, c, p, to
<1>16. CASE ~Wrapped(l)
  <2>1. OneOf(arm, head, QuietSimple)
    BY <1>6, <1>16
  <2>2. Naming(c, <<head, jump>>)
    BY <1>4, <1>5, <1>8, <1>13, <1>14, <2>1, NamingLoop
  <2> QED
    BY <1>16, <2>2 DEF LoopLeaving, head, jump, c, p, to
<1> QED
  BY <1>15, <1>16

LEMMA CodeNames ==
  ASSUME InputOK, NEW p \in Blocks, NEW D
  PROVE  Naming(CodeOf(D, p), Leaving(D, p))
<1>1. CASE p \in RotatedLatches
  BY <1>1, LatchNames DEF Leaving
<1>2. CASE p \notin RotatedLatches /\ p \in RotatedPreheaders
  <2>1. PICK l \in Rotated : p = l.preheader
    BY <1>2 DEF RotatedPreheaders
  <2>2. LoopAt(p) = l
    BY <2>1, LoopAtIs
  <2> QED
    BY <1>2, <2>1, <2>2, PreheaderNames DEF Leaving
<1>3. CASE p \notin RotatedLatches /\ p \notin RotatedPreheaders
  BY <1>3, OwnNames DEF Leaving
<1> QED
  BY <1>1, <1>2, <1>3

-----------------------------------------------------------------------------
(* How often a block's code names another one. *)

LEMMA LeavingFinite ==
  ASSUME InputOK, NEW p \in Blocks, NEW D
  PROVE  IsFiniteSet(DOMAIN Leaving(D, p))
<1>1. CASE p \in RotatedLatches
  BY <1>1, FS_EmptySet DEF Leaving
<1>2. CASE p \notin RotatedLatches /\ p \in RotatedPreheaders
  <2> DEFINE w == LoopLeaving(D, LoopAt(p))
  <2>1. Leaving(D, p) = w
    BY <1>2 DEF Leaving
  <2>2. DOMAIN w = 1..2 \/ DOMAIN w = 1..3
    BY DEF LoopLeaving
  <2>3. IsFiniteSet(1..2) /\ IsFiniteSet(1..3)
    <3>1. 1 \in Int /\ 2 \in Int /\ 3 \in Int
      OBVIOUS
    <3> QED
      BY <3>1, FS_Interval, Zenon
  <2> QED
    BY <2>1, <2>2, <2>3
<1>3. CASE p \notin RotatedLatches /\ p \notin RotatedPreheaders
  <2>1. g.succ[p] \in Seq(Blocks)
    BY SuccType
  <2>2. DOMAIN Leaving(D, p) = 1..Len(g.succ[p]) /\ Len(g.succ[p]) \in Nat
    BY <1>3, <2>1 DEF Leaving
  <2> QED
    BY <2>2, FS_Interval
<1> QED
  BY <1>1, <1>2, <1>3

LEMMA SitesNamed ==
  ASSUME NEW c, NEW w, IsFiniteSet(DOMAIN w), Naming(c, w), NEW op \in Jumps, NEW t
  PROVE  /\ Mentions(c, op, t) \in Nat
         /\ (\A i \in DOMAIN w : ~(w[i].op = op /\ w[i].to = t)) => Sites(c, op, t) = {} /\ Mentions(c, op, t) = 0
         /\ (\E i \in DOMAIN w : w[i].op = op /\ w[i].to = t) => Sites(c, op, t) # {} /\ Mentions(c, op, t) > 0
         /\ (\A i, j \in DOMAIN w : (w[i].op = op /\ w[i].to = t
                                     /\ w[j].op = op /\ w[j].to = t) => i = j) => Mentions(c, op, t) <= 1
<1>1. PICK P : /\ \A i \in DOMAIN w : /\ P[i] \in Places(c)
                                      /\ At(c, P[i]).op = w[i].op /\ At(c, P[i]).to = w[i].to
               /\ \A i, j \in DOMAIN w : P[i] = P[j] => i = j
               /\ \A q \in Places(c) : At(c, q).op \in Jumps => \E i \in DOMAIN w : q = P[i]
  BY DEF Naming
<1> DEFINE I == {i \in DOMAIN w : w[i].op = op /\ w[i].to = t}
           sites == Sites(c, op, t)
<1>2. sites = {P[i] : i \in I}
  <2>1. ASSUME NEW q \in sites PROVE \E i \in I : q = P[i]
    <3>1. q \in Places(c) /\ At(c, q).op = op /\ At(c, q).to = t
      BY DEF Sites
    <3> QED
      BY <1>1, <3>1
  <2>2. ASSUME NEW i \in I PROVE P[i] \in sites
    BY <1>1 DEF Sites
  <2> HIDE DEF sites
  <2> QED
    BY <2>1, <2>2
<1>3. IsFiniteSet(I)
  BY FS_Subset
<1>4. IsFiniteSet(sites)
  <2> DEFINE f == [i \in I |-> P[i]]
  <2>1. f \in Surjection(I, sites)
    BY <1>2 DEF Surjection
  <2> HIDE DEF f, I, sites
  <2> QED
    BY <1>3, <2>1, FS_Surjection
<1>5. Cardinality(sites) \in Nat /\ (Cardinality(sites) = 0 <=> sites = {})
  BY <1>4, FS_CardinalityType, FS_EmptySet
<1>6. Mentions(c, op, t) = Cardinality(sites)
  BY DEF Mentions
<1>7. sites = {} <=> I = {}
  BY <1>2
<1>8. ASSUME \A i, j \in I : i = j PROVE Cardinality(sites) <= 1
  <2>1. CASE sites = {}
    BY <1>5, <2>1
  <2>2. CASE sites # {}
    <3>1. PICK q : q \in sites
      BY <2>2
    <3>2. sites = {q}
      BY <1>2, <1>8, <3>1
    <3>3. Cardinality(sites) = 1
      BY <3>2, FS_Singleton
    <3> QED
      BY <3>3
  <2> QED
    BY <2>1, <2>2
<1> HIDE DEF sites
<1>9. (\A i \in DOMAIN w : ~(w[i].op = op /\ w[i].to = t)) => sites = {}
  BY <1>7
<1>10. (\E i \in DOMAIN w : w[i].op = op /\ w[i].to = t) => sites # {}
  BY <1>7
<1>11. (\A i, j \in DOMAIN w : (w[i].op = op /\ w[i].to = t
                                /\ w[j].op = op /\ w[j].to = t) => i = j) => Cardinality(sites) <= 1
  BY <1>8
<1> QED
  BY <1>5, <1>6, <1>9, <1>10, <1>11 DEF sites

Named(p, op, t) ==
  \E i \in DOMAIN Leaving(Spliced, p) :
    Leaving(Spliced, p)[i].op = op /\ Leaving(Spliced, p)[i].to = t

NamedOnce(p, op, t) ==
  \A i, j \in DOMAIN Leaving(Spliced, p) :
    (/\ Leaving(Spliced, p)[i].op = op /\ Leaving(Spliced, p)[i].to = t
     /\ Leaving(Spliced, p)[j].op = op /\ Leaving(Spliced, p)[j].to = t) => i = j

LEMMA MentionsAre ==
  ASSUME Planned, NEW p \in Blocks, NEW op \in Jumps, NEW t
  PROVE  /\ Mentions(exprs[p], op, t) \in Nat
         /\ ~Named(p, op, t) => Mentions(exprs[p], op, t) = 0 /\ Sites(exprs[p], op, t) = {}
         /\ Named(p, op, t) => Mentions(exprs[p], op, t) > 0
         /\ NamedOnce(p, op, t) => Mentions(exprs[p], op, t) <= 1
<1> DEFINE w == Leaving(Spliced, p)
           c == exprs[p]
<1>1. c = CodeOf(Spliced, p) /\ InputOK
  BY DEF Planned
<1>2. Naming(c, w) /\ IsFiniteSet(DOMAIN w)
  BY <1>1, CodeNames, LeavingFinite
<1> HIDE DEF w, c
<1>3. /\ Mentions(c, op, t) \in Nat
      /\ (\A i \in DOMAIN w : ~(w[i].op = op /\ w[i].to = t))
            => Sites(c, op, t) = {} /\ Mentions(c, op, t) = 0
      /\ (\E i \in DOMAIN w : w[i].op = op /\ w[i].to = t) => Mentions(c, op, t) > 0
      /\ (\A i, j \in DOMAIN w : (w[i].op = op /\ w[i].to = t
                                  /\ w[j].op = op /\ w[j].to = t) => i = j) => Mentions(c, op, t) <= 1
  BY <1>2, SitesNamed
<1>4. Named(p, op, t) <=> \E i \in DOMAIN w : w[i].op = op /\ w[i].to = t
  BY DEF Named, w
<1>5. NamedOnce(p, op, t) <=>
        \A i, j \in DOMAIN w : (w[i].op = op /\ w[i].to = t
                                /\ w[j].op = op /\ w[j].to = t) => i = j
  BY DEF NamedOnce, w
<1> QED
  BY <1>3, <1>4, <1>5 DEF c

LEMMA JumpNames ==
  ASSUME NEW D, NEW t
  PROVE  /\ JumpTo(D, t).to = t
         /\ JumpTo(D, t).op = IF t \in D THEN "splice" ELSE "goto"
         /\ LatchExpr(t).op = "latch" /\ LatchExpr(t).to = t
BY DEF JumpTo, LatchExpr, Simple

\* What a block's code names: the targets of its gotos, and the latch.
LEMMA NamedAre ==
  ASSUME InputOK, NEW p \in Blocks, NEW t \in Blocks
  PROVE  /\ Named(p, "splice", t) <=> t \in Spliced /\ GotoSource(p, t)
         /\ Named(p, "goto", t) <=> t \notin Spliced /\ GotoSource(p, t)
         /\ Named(p, "latch", t) <=> \E l \in Rotated : /\ p = l.preheader /\ t = l.latch
                                                        /\ Wrapped(l)
         /\ NamedOnce(p, "latch", t)
<1> DEFINE w == Leaving(Spliced, p)
<1>4. \A op : Named(p, op, t) <=> \E i \in DOMAIN w : w[i].op = op /\ w[i].to = t
  BY DEF Named
<1>5. (\A i, j \in DOMAIN w : w[i].op = "latch" /\ w[j].op = "latch" => i = j)
        => NamedOnce(p, "latch", t)
  BY DEF NamedOnce
<1>6. \A u : /\ JumpTo(Spliced, u).to = u
             /\ JumpTo(Spliced, u).op = IF u \in Spliced THEN "splice" ELSE "goto"
             /\ LatchExpr(u).op = "latch" /\ LatchExpr(u).to = u
  BY JumpNames
<1>1. CASE p \in RotatedLatches
  <2>1. DOMAIN w = {}
    BY <1>1 DEF Leaving
  <2>2. ~GotoSource(p, t)
    BY <1>1 DEF GotoSource
  <2>3. \A l \in Rotated : p # l.preheader
    BY <1>1, LoopAtIs
  <2> QED
    BY <1>4, <1>5, <2>1, <2>2, <2>3
<1>2. CASE p \notin RotatedLatches /\ p \in RotatedPreheaders
  <2>1. PICK l \in Rotated : p = l.preheader
    BY <1>2 DEF RotatedPreheaders
  <2>2. LoopAt(p) = l
    BY <2>1, LoopAtIs
  <2>3. w = LoopLeaving(Spliced, l)
    BY <1>2, <2>2 DEF Leaving
  <2>4. \A m \in Rotated : p = m.preheader => m = l
    BY <2>1, <2>2, LoopAtIs
  <2>5. GotoSource(p, t) <=> t = l.header \/ t = AfterDoWhile(l)
    BY <1>2, <2>1, <2>4 DEF GotoSource
  <2>6. (\E m \in Rotated : p = m.preheader /\ t = m.latch /\ Wrapped(m))
          <=> t = l.latch /\ Wrapped(l)
    BY <2>1, <2>4
  <2>7. CASE Wrapped(l)
    <3>1. w = <<JumpTo(Spliced, l.header), JumpTo(Spliced, AfterDoWhile(l)), LatchExpr(l.latch)>>
      BY <2>3, <2>7 DEF LoopLeaving
    <3> HIDE DEF w
    <3>2. /\ DOMAIN w = {1, 2, 3} /\ w[1] = JumpTo(Spliced, l.header)
          /\ w[2] = JumpTo(Spliced, AfterDoWhile(l)) /\ w[3] = LatchExpr(l.latch)
      BY <3>1
    <3>3. \A op : (\E i \in DOMAIN w : w[i].op = op /\ w[i].to = t) <=>
                    \/ w[1].op = op /\ w[1].to = t
                    \/ w[2].op = op /\ w[2].to = t
                    \/ w[3].op = op /\ w[3].to = t
      BY <3>2
    <3>4. /\ w[1].to = l.header /\ w[2].to = AfterDoWhile(l)
          /\ w[3].op = "latch" /\ w[3].to = l.latch
          /\ w[1].op = IF l.header \in Spliced THEN "splice" ELSE "goto"
          /\ w[2].op = IF AfterDoWhile(l) \in Spliced THEN "splice" ELSE "goto"
      BY <1>6, <3>2
    <3>5. /\ Named(p, "splice", t) <=> t \in Spliced /\ (t = l.header \/ t = AfterDoWhile(l))
          /\ Named(p, "goto", t) <=> t \notin Spliced /\ (t = l.header \/ t = AfterDoWhile(l))
          /\ Named(p, "latch", t) <=> t = l.latch
      BY <1>4, <3>3, <3>4
    <3>6. NamedOnce(p, "latch", t)
      <4>1. \A i \in DOMAIN w : w[i].op = "latch" => i = 3
        BY <3>2, <3>4
      <4> QED
        BY <1>5, <4>1
    <3> QED
      BY <2>5, <2>6, <2>7, <3>5, <3>6
  <2>8. CASE ~Wrapped(l)
    <3>1. w = <<JumpTo(Spliced, l.header), JumpTo(Spliced, AfterDoWhile(l))>>
      BY <2>3, <2>8 DEF LoopLeaving
    <3> HIDE DEF w
    <3>2. /\ DOMAIN w = {1, 2} /\ w[1] = JumpTo(Spliced, l.header)
          /\ w[2] = JumpTo(Spliced, AfterDoWhile(l))
      BY <3>1
    <3>3. \A op : (\E i \in DOMAIN w : w[i].op = op /\ w[i].to = t) <=>
                    \/ w[1].op = op /\ w[1].to = t
                    \/ w[2].op = op /\ w[2].to = t
      BY <3>2
    <3>4. /\ w[1].to = l.header /\ w[2].to = AfterDoWhile(l)
          /\ w[1].op = IF l.header \in Spliced THEN "splice" ELSE "goto"
          /\ w[2].op = IF AfterDoWhile(l) \in Spliced THEN "splice" ELSE "goto"
      BY <1>6, <3>2
    <3>5. /\ Named(p, "splice", t) <=> t \in Spliced /\ (t = l.header \/ t = AfterDoWhile(l))
          /\ Named(p, "goto", t) <=> t \notin Spliced /\ (t = l.header \/ t = AfterDoWhile(l))
          /\ ~Named(p, "latch", t)
      BY <1>4, <3>3, <3>4
    <3>6. NamedOnce(p, "latch", t)
      <4>1. \A i \in DOMAIN w : w[i].op # "latch"
        BY <3>2, <3>4
      <4> QED
        BY <1>5, <4>1
    <3> QED
      BY <2>5, <2>6, <2>8, <3>5, <3>6
  <2> QED
    BY <2>7, <2>8
<1>3. CASE p \notin RotatedLatches /\ p \notin RotatedPreheaders
  <2>1. w = [i \in DOMAIN g.succ[p] |-> JumpTo(Spliced, g.succ[p][i])]
    BY <1>3 DEF Leaving
  <2> HIDE DEF w
  <2>2. DOMAIN w = DOMAIN g.succ[p]
    BY <2>1
  <2>3. \A i \in DOMAIN w : /\ w[i].to = g.succ[p][i]
                            /\ w[i].op = IF g.succ[p][i] \in Spliced THEN "splice" ELSE "goto"
    BY <1>6, <2>1
  <2>4. GotoSource(p, t) <=> \E i \in DOMAIN w : g.succ[p][i] = t
    <3>1. GotoSource(p, t) <=> p \in Preds(g, t)
      BY <1>3 DEF GotoSource, RotatedPreheaders
    <3> QED
      BY <2>2, <3>1 DEF Preds, Succs
  <2>5. \A l \in Rotated : p # l.preheader
    BY <1>3 DEF RotatedPreheaders
  <2>6. \A i \in DOMAIN w : w[i].op # "latch"
    BY <2>3
  <2>7. ~Named(p, "latch", t) /\ NamedOnce(p, "latch", t)
    BY <1>4, <1>5, <2>6
  <2>8. Named(p, "splice", t) <=> t \in Spliced /\ \E i \in DOMAIN w : g.succ[p][i] = t
    BY <1>4, <2>3
  <2>9. Named(p, "goto", t) <=> t \notin Spliced /\ \E i \in DOMAIN w : g.succ[p][i] = t
    BY <1>4, <2>3
  <2> QED
    BY <2>4, <2>5, <2>7, <2>8, <2>9
<1> QED
  BY <1>1, <1>2, <1>3

\* A block's code names a block to be spliced in at one place, unless two of
\* its edges lead there.
LEMMA SpliceOnce ==
  ASSUME InputOK, NEW p \in Blocks, NEW t \in Blocks,
         p \notin RotatedPreheaders =>
           \A i, j \in DOMAIN g.succ[p] : g.succ[p][i] = t /\ g.succ[p][j] = t => i = j
  PROVE  NamedOnce(p, "splice", t)
<1> DEFINE w == Leaving(Spliced, p)
<1>1. (\A i, j \in DOMAIN w : (w[i].op = "splice" /\ w[i].to = t
                               /\ w[j].op = "splice" /\ w[j].to = t) => i = j)
        => NamedOnce(p, "splice", t)
  BY DEF NamedOnce
<1>2. \A u : /\ JumpTo(Spliced, u).to = u
             /\ LatchExpr(u).op = "latch"
  BY JumpNames
<1>3. CASE p \in RotatedLatches
  <2>1. DOMAIN w = {}
    BY <1>3 DEF Leaving
  <2> QED
    BY <1>1, <2>1
<1>4. CASE p \notin RotatedLatches /\ p \in RotatedPreheaders
  <2>1. PICK l \in Rotated : p = l.preheader
    BY <1>4 DEF RotatedPreheaders
  <2>2. w = LoopLeaving(Spliced, l)
    <3>1. LoopAt(p) = l
      BY <2>1, LoopAtIs
    <3> QED
      BY <1>4, <3>1 DEF Leaving
  <2>3. l.header # AfterDoWhile(l)
    BY RotatedFacts
  <2>4. /\ DOMAIN w = {1, 2} \/ DOMAIN w = {1, 2, 3}
        /\ w[1] = JumpTo(Spliced, l.header) /\ w[2] = JumpTo(Spliced, AfterDoWhile(l))
        /\ 3 \in DOMAIN w => w[3] = LatchExpr(l.latch)
    BY <2>2 DEF LoopLeaving
  <2> HIDE DEF w
  <2>5. /\ w[1].to = l.header /\ w[2].to = AfterDoWhile(l)
        /\ 3 \in DOMAIN w => w[3].op = "latch"
    BY <1>2, <2>4
  <2> QED
    BY <1>1, <2>3, <2>4, <2>5
<1>5. CASE p \notin RotatedLatches /\ p \notin RotatedPreheaders
  <2>1. w = [i \in DOMAIN g.succ[p] |-> JumpTo(Spliced, g.succ[p][i])]
    BY <1>5 DEF Leaving
  <2> HIDE DEF w
  <2>2. DOMAIN w = DOMAIN g.succ[p] /\ \A i \in DOMAIN w : w[i].to = g.succ[p][i]
    BY <1>2, <2>1
  <2> QED
    BY <1>1, <1>5, <2>2
<1> QED
  BY <1>3, <1>4, <1>5

-----------------------------------------------------------------------------
(* The one block whose text contains that of a block without a label. *)

\* Copies of t's text in the one of p.
Copies(p, t) == Mentions(exprs[p], "splice", t) + Mentions(exprs[p], "latch", t)

Feeds(p, t) ==
  \/ t \in Spliced /\ GotoSource(p, t)
  \/ \E l \in Rotated : p = l.preheader /\ t = l.latch /\ Wrapped(l)

\* A loop's latch is spliced in or wrapped.
LEMMA WrappedIs ==
  ASSUME Planned, NEW l \in Rotated
  PROVE  Wrapped(l) <=> l.latch \notin Spliced
<1>1. InputOK /\ l.latch \in Blocks /\ l.latch \in RotatedLatches /\ doInline[l.latch]
  BY RotatedFacts DEF Planned, RotatedLatches, Rotated
<1>2. l.latch \in Spliced <=> LatchStaysInline(l.latch)
  BY <1>1 DEF Spliced
<1>3. \A m \in Rotated : m.latch = l.latch => m = l
  BY <1>1, OneLoopPerLatch
<1>4. LatchStaysInline(l.latch) <=> l.header = l.latch \/ HeaderGotoLatch(l)
  BY <1>1, <1>3 DEF LatchStaysInline, Rotated
<1> QED
  BY <1>2, <1>4 DEF Wrapped

LEMMA CopiesAre ==
  ASSUME Planned, NEW p \in Blocks, NEW t \in Blocks
  PROVE  /\ Mentions(exprs[p], "splice", t) \in Nat /\ Mentions(exprs[p], "latch", t) \in Nat
         /\ Copies(p, t) \in Nat
         /\ Copies(p, t) > 0 <=> Feeds(p, t)
         /\ Feeds(p, t) /\ NamedOnce(p, "splice", t) => Copies(p, t) = 1
         /\ t \in Spliced => Mentions(exprs[p], "latch", t) = 0
<1> DEFINE x == Mentions(exprs[p], "splice", t)
           y == Mentions(exprs[p], "latch", t)
<1>0. InputOK /\ "splice" \in Jumps /\ "latch" \in Jumps
  BY DEF Planned, Jumps
<1>1. /\ x \in Nat /\ (~Named(p, "splice", t) => x = 0) /\ (Named(p, "splice", t) => x > 0)
      /\ NamedOnce(p, "splice", t) => x <= 1
  BY <1>0, MentionsAre
<1>2. /\ y \in Nat /\ (~Named(p, "latch", t) => y = 0) /\ (Named(p, "latch", t) => y > 0)
      /\ NamedOnce(p, "latch", t) => y <= 1
  BY <1>0, MentionsAre
<1>3. /\ Named(p, "splice", t) <=> t \in Spliced /\ GotoSource(p, t)
      /\ Named(p, "latch", t) <=> \E l \in Rotated : p = l.preheader /\ t = l.latch /\ Wrapped(l)
      /\ NamedOnce(p, "latch", t)
  BY <1>0, NamedAre
<1>4. t \in Spliced => ~Named(p, "latch", t)
  BY <1>3, WrappedIs
<1>5. Feeds(p, t) <=> Named(p, "splice", t) \/ Named(p, "latch", t)
  BY <1>3 DEF Feeds
<1>6. ~(Named(p, "splice", t) /\ Named(p, "latch", t))
  BY <1>3, <1>4
<1> HIDE DEF x, y
<1>7. Copies(p, t) = x + y
  BY DEF Copies, x, y
<1>8. x \in Nat /\ y \in Nat /\ Copies(p, t) \in Nat
  BY <1>1, <1>2, <1>7
<1>9. Copies(p, t) > 0 <=> Feeds(p, t)
  BY <1>1, <1>2, <1>5, <1>7
<1>10. Feeds(p, t) /\ NamedOnce(p, "splice", t) => Copies(p, t) = 1
  BY <1>1, <1>2, <1>3, <1>5, <1>6, <1>7
<1>11. t \in Spliced => y = 0
  BY <1>2, <1>4
<1> QED
  BY <1>8, <1>9, <1>10, <1>11 DEF x, y

LEMMA SingleEdge ==
  ASSUME IsFunction(g), NEW t, HasSinglePredecessor(g, t)
  PROVE  \E p \in Preds(g, t) :
           /\ \A q \in Preds(g, t) : q = p
           /\ \A i, j \in DOMAIN g.succ[p] : g.succ[p][i] = t /\ g.succ[p][j] = t => i = j
<1>1. IsFiniteSet(PredEdges(g, t)) /\ Cardinality(PredEdges(g, t)) = 1
  BY SuccessorPlacesFinite DEF HasSinglePredecessor
<1>2. PICK e : PredEdges(g, t) = {e}
  BY <1>1, FS_Singleton
<1>3. \A p \in Blocks : \A i \in DOMAIN g.succ[p] : g.succ[p][i] = t => <<p, i>> = e
  <2>1. ASSUME NEW p \in Blocks, NEW i \in DOMAIN g.succ[p], g.succ[p][i] = t
        PROVE  <<p, i>> \in PredEdges(g, t)
    BY <2>1 DEF PredEdges
  <2> QED
    BY <1>2, <2>1
<1>4. \E p \in Preds(g, t) : TRUE
  <2>1. PICK p \in Blocks : e \in {p} \X {i \in DOMAIN g.succ[p] : g.succ[p][i] = t}
    BY <1>2 DEF PredEdges
  <2>2. \E i \in DOMAIN g.succ[p] : g.succ[p][i] = t
    BY <2>1
  <2> QED
    BY <2>2 DEF Preds, Succs
<1>5. PICK p : p \in Preds(g, t)
  BY <1>4
<1>6. p \in Blocks
  BY <1>5 DEF Preds
<1>7. \A q \in Preds(g, t) : q = p
  BY <1>5, OnePredecessor
<1>8. \A i, j \in DOMAIN g.succ[p] : g.succ[p][i] = t /\ g.succ[p][j] = t => i = j
  <2>1. ASSUME NEW i \in DOMAIN g.succ[p], NEW j \in DOMAIN g.succ[p],
               g.succ[p][i] = t, g.succ[p][j] = t
        PROVE  i = j
    <3>1. <<p, i>> = e /\ <<p, j>> = e
      BY <1>3, <1>6, <2>1
    <3> QED
      BY <3>1
  <2> QED
    BY <2>1
<1> QED
  BY <1>5, <1>7, <1>8

\* The way out of a rotated loop is an edge of the loop's latch.
LEMMA OutOfLatch ==
  ASSUME InputOK, NEW l \in Rotated, NEW t, t = AfterDoWhile(l)
  PROVE  l.latch \in Preds(g, t) /\ t \notin l.blocks
<1>1. t \in Succs(g, l.latch)
  BY LatchWays
<1> QED
  BY <1>1, RotatedFacts DEF Preds

LEMMA PreheaderNoLatch ==
  ASSUME InputOK, NEW m \in Rotated, NEW l \in Rotated
  PROVE  m.latch # l.preheader
<1>1. m \in loops /\ l \in loops /\ m.rotated
  BY RotatedFacts
<1>2. CASE m = l
  BY <1>2, RotatedFacts
<1>3. CASE m # l
  BY <1>1, <1>3, PreheaderOfOneLoop
<1> QED
  BY <1>2, <1>3

\* The header of a rotated loop is named by the preheader alone.
LEMMA HeaderSource ==
  ASSUME InputOK, NEW l \in Rotated
  PROVE  /\ GotoSource(l.preheader, l.header)
         /\ \A q \in Blocks : GotoSource(q, l.header) => q = l.preheader
<1>0. l \in loops
  BY RotatedFacts
<1>1. Preds(g, l.header) = {l.latch, l.preheader}
  BY <1>0, LoopFacts
<1>2. l.preheader \notin RotatedLatches /\ l.latch \in RotatedLatches
  BY PreheaderNoLatch DEF RotatedLatches, Rotated
<1>3. GotoSource(l.preheader, l.header)
  BY <1>2 DEF GotoSource
<1>4. ASSUME NEW q \in Blocks, GotoSource(q, l.header)
      PROVE  q = l.preheader
  <2>1. q \notin RotatedLatches
    BY <1>4 DEF GotoSource
  <2>2. CASE q \in Preds(g, l.header)
    BY <1>1, <1>2, <2>1, <2>2
  <2>3. CASE \E m \in Rotated : q = m.preheader /\ (l.header = m.header \/ l.header = AfterDoWhile(m))
    <3>1. PICK m \in Rotated : q = m.preheader /\ (l.header = m.header \/ l.header = AfterDoWhile(m))
      BY <2>3
    <3>2. m \in loops
      BY RotatedFacts
    <3>3. CASE l.header = m.header
      BY <1>0, <3>1, <3>2, <3>3 DEF InputOK, LoopContract
    <3>4. CASE l.header = AfterDoWhile(m)
      <4>1. m.latch \in Preds(g, l.header) /\ l.header \notin m.blocks
        BY <3>4, OutOfLatch
      <4>2. m.latch = l.latch
        BY <1>1, <4>1, PreheaderNoLatch
      <4>3. m = l
        BY <4>2, OneLoopPerLatch
      <4> QED
        BY <4>1, <4>3, RotatedFacts
    <3> QED
      BY <3>1, <3>3, <3>4
  <2> QED
    BY <1>4, <2>2, <2>3 DEF GotoSource
<1> QED
  BY <1>3, <1>4

\* A latch the header goes straight to is named by the header alone.
LEMMA LatchSource ==
  ASSUME InputOK, NEW l \in Rotated, HeaderGotoLatch(l), l.header # l.latch
  PROVE  /\ GotoSource(l.header, l.latch)
         /\ \A q \in Blocks : GotoSource(q, l.latch) => q = l.header
         /\ \A i, j \in DOMAIN g.succ[l.header] : i = j
<1>0. l \in loops /\ l.rotated /\ l.header \in Blocks
  BY RotatedFacts
<1>1. Preds(g, l.latch) = {l.header}
  BY <1>0 DEF InputOK, LoopContract, HeaderGotoLatch
<1>2. \A m \in loops : m.header # l.latch
  BY HeaderIsNoLatch
<1>3. \A m \in Rotated : m.latch # l.header
  BY <1>0, HeaderIsNoLatch
<1>4. l.header \notin RotatedLatches
  BY <1>3 DEF RotatedLatches, Rotated
<1>5. l.header \notin RotatedPreheaders
  <2> SUFFICES ASSUME NEW m \in Rotated, l.header = m.preheader PROVE FALSE
    BY DEF RotatedPreheaders
  <2>1. m \in loops
    BY RotatedFacts
  <2>2. m.preheader \in Preds(g, m.header)
    BY <2>1, LoopFacts
  <2>3. m.header \in Succs(g, l.header)
    BY <2>2 DEF Preds
  <2>4. m.header = l.latch
    BY <2>3 DEF HeaderGotoLatch, Succs
  <2> QED
    BY <1>2, <2>1, <2>4
<1>6. GotoSource(l.header, l.latch)
  BY <1>1, <1>4, <1>5 DEF GotoSource
<1>7. ASSUME NEW q \in Blocks, GotoSource(q, l.latch)
      PROVE  q = l.header
  <2>1. CASE q \in Preds(g, l.latch)
    BY <1>1, <2>1
  <2>2. CASE \E m \in Rotated : q = m.preheader /\ (l.latch = m.header \/ l.latch = AfterDoWhile(m))
    <3>1. PICK m \in Rotated : l.latch = m.header \/ l.latch = AfterDoWhile(m)
      BY <2>2
    <3>2. l.latch # m.header
      BY <1>2, RotatedFacts
    <3>3. m.latch \in Preds(g, l.latch)
      BY <3>1, <3>2, OutOfLatch
    <3> QED
      BY <1>1, <1>3, <3>3
  <2> QED
    BY <1>7, <2>1, <2>2 DEF GotoSource
<1>8. \A i, j \in DOMAIN g.succ[l.header] : i = j
  BY DEF HeaderGotoLatch
<1> QED
  BY <1>6, <1>7, <1>8

\* Any other block with one edge into it is named by the block the edge comes
\* from, or by the preheader of the loop the edge leaves.
LEMMA EdgeSource ==
  ASSUME InputOK, NEW t \in Blocks, HasSinglePredecessor(g, t), t \notin Headers
  PROVE  \E p \in Blocks :
           /\ GotoSource(p, t)
           /\ \A q \in Blocks : GotoSource(q, t) => q = p
           /\ p \notin RotatedPreheaders =>
                \A i, j \in DOMAIN g.succ[p] : g.succ[p][i] = t /\ g.succ[p][j] = t => i = j
<1>1. PICK e \in Preds(g, t) :
        /\ \A q \in Preds(g, t) : q = e
        /\ \A i, j \in DOMAIN g.succ[e] : g.succ[e][i] = t /\ g.succ[e][j] = t => i = j
  BY SingleEdge DEF InputOK
<1>2. e \in Blocks /\ t \in Succs(g, e)
  BY DEF Preds
<1>3. \A m \in Rotated : t # m.header
  BY DEF Headers
<1>4. CASE e \in RotatedLatches
  <2>1. PICK l \in Rotated : e = l.latch
    BY <1>4 DEF RotatedLatches, Rotated
  <2>2. t = AfterDoWhile(l)
    BY <1>2, <1>3, <2>1, LatchWays
  <2> DEFINE p == l.preheader
  <2>3. p \in Blocks /\ p \in RotatedPreheaders
    BY RotatedFacts DEF RotatedPreheaders
  <2>4. p \notin RotatedLatches
    BY PreheaderNoLatch DEF RotatedLatches, Rotated
  <2>5. GotoSource(p, t)
    BY <2>2, <2>4 DEF GotoSource
  <2>6. ASSUME NEW q \in Blocks, GotoSource(q, t)
        PROVE  q = p
    <3>1. q \notin RotatedLatches
      BY <2>6 DEF GotoSource
    <3>2. q \notin Preds(g, t)
      BY <1>1, <1>4, <3>1
    <3>3. PICK m \in Rotated : q = m.preheader /\ t = AfterDoWhile(m)
      BY <1>3, <2>6, <3>2 DEF GotoSource
    <3>4. m.latch = l.latch
      BY <1>1, <2>1, <3>3, OutOfLatch
    <3>5. m = l
      BY <3>4, OneLoopPerLatch
    <3> QED
      BY <3>3, <3>5
  <2> QED
    BY <2>3, <2>5, <2>6
<1>5. CASE e \notin RotatedLatches
  <2>1. e \notin RotatedPreheaders
    <3> SUFFICES ASSUME NEW m \in Rotated, e = m.preheader PROVE FALSE
      BY DEF RotatedPreheaders
    <3>1. Len(g.succ[e]) = 1 /\ g.succ[e] \in Seq(Blocks) /\ g.succ[e][1] = m.header
      BY RotatedFacts
    <3>2. t = m.header
      BY <1>2, <3>1 DEF Succs
    <3> QED
      BY <1>3, <3>2
  <2>2. GotoSource(e, t)
    BY <1>5, <2>1 DEF GotoSource
  <2>3. ASSUME NEW q \in Blocks, GotoSource(q, t)
        PROVE  q = e
    <3>1. CASE q \in Preds(g, t)
      BY <1>1, <3>1
    <3>2. CASE \E m \in Rotated : q = m.preheader /\ (t = m.header \/ t = AfterDoWhile(m))
      <4>1. PICK m \in Rotated : t = AfterDoWhile(m)
        BY <1>3, <3>2
      <4>2. m.latch = e
        BY <1>1, <4>1, OutOfLatch
      <4> QED
        BY <1>5, <4>2 DEF RotatedLatches, Rotated
    <3> QED
      BY <2>3, <3>1, <3>2 DEF GotoSource
  <2> QED
    BY <1>1, <1>2, <2>2, <2>3
<1> QED
  BY <1>4, <1>5

\* Nothing but p's text contains t's, and once.
OnlyParent(p, t) == Copies(p, t) = 1 /\ \A q \in Blocks \ {p} : Copies(q, t) = 0

LEMMA SoleCopy ==
  ASSUME Planned, NEW t \in Blocks, ~OwnBlock(t),
         t \in Headers \/ HasSinglePredecessor(g, t) \/ t \in RotatedLatches
  PROVE  \E p \in Blocks : OnlyParent(p, t)
<1>0. InputOK
  BY DEF Planned
<1>1. \A q \in Blocks : Copies(q, t) \in Nat /\ (Copies(q, t) > 0 <=> Feeds(q, t))
  BY CopiesAre
<1>2. ASSUME NEW p \in Blocks, Feeds(p, t), NamedOnce(p, "splice", t),
             \A q \in Blocks : Feeds(q, t) => q = p
      PROVE  OnlyParent(p, t)
  <2>1. Copies(p, t) = 1
    BY <1>2, CopiesAre
  <2>2. ASSUME NEW q \in Blocks \ {p} PROVE Copies(q, t) = 0
    <3>1. Copies(q, t) \in Nat /\ ~(Copies(q, t) > 0)
      BY <1>1, <1>2
    <3> QED
      BY <3>1
  <2> QED
    BY <2>1, <2>2 DEF OnlyParent
<1>3. CASE t \notin Spliced
  <2>1. t \in RotatedLatches
    BY <1>3 DEF OwnBlock, Spliced
  <2>2. PICK l \in Rotated : t = l.latch
    BY <2>1 DEF RotatedLatches, Rotated
  <2>3. l.preheader \in Blocks /\ l.preheader \in RotatedPreheaders
    BY <1>0, RotatedFacts DEF RotatedPreheaders
  <2>4. Feeds(l.preheader, t)
    BY <1>3, <2>2, WrappedIs DEF Feeds
  <2>5. NamedOnce(l.preheader, "splice", t)
    BY <1>0, <2>3, SpliceOnce
  <2>6. \A q \in Blocks : Feeds(q, t) => q = l.preheader
    BY <1>0, <1>3, <2>2, OneLoopPerLatch DEF Feeds
  <2> QED
    BY <1>2, <2>3, <2>4, <2>5, <2>6
<1>4. CASE t \in Spliced
  <2>1. \A q \in Blocks : Feeds(q, t) <=> GotoSource(q, t)
    BY <1>4, WrappedIs DEF Feeds
  <2>2. CASE t \in Headers
    <3>1. PICK l \in Rotated : t = l.header
      BY <2>2 DEF Headers
    <3>2. l.preheader \in Blocks /\ l.preheader \in RotatedPreheaders
      BY <1>0, RotatedFacts DEF RotatedPreheaders
    <3>3. NamedOnce(l.preheader, "splice", t)
      BY <1>0, <3>2, SpliceOnce
    <3>4. GotoSource(l.preheader, t) /\ \A q \in Blocks : GotoSource(q, t) => q = l.preheader
      BY <1>0, <3>1, HeaderSource
    <3> QED
      BY <1>2, <2>1, <3>2, <3>3, <3>4
  <2>3. CASE t \in RotatedLatches /\ t \notin Headers
    <3>1. PICK l \in Rotated : t = l.latch
      BY <2>3 DEF RotatedLatches, Rotated
    <3>2. l.header # l.latch /\ HeaderGotoLatch(l) /\ l.header \in Blocks
      BY <1>0, <1>4, <2>3, <3>1, WrappedIs, RotatedFacts DEF Wrapped, Headers
    <3>3. /\ GotoSource(l.header, t) /\ \A q \in Blocks : GotoSource(q, t) => q = l.header
          /\ \A i, j \in DOMAIN g.succ[l.header] : i = j
      BY <1>0, <3>1, <3>2, LatchSource
    <3>4. NamedOnce(l.header, "splice", t)
      BY <1>0, <3>2, <3>3, SpliceOnce
    <3> QED
      BY <1>2, <2>1, <3>2, <3>3, <3>4
  <2>4. CASE t \notin RotatedLatches /\ t \notin Headers
    <3>1. PICK p \in Blocks :
            /\ GotoSource(p, t)
            /\ \A q \in Blocks : GotoSource(q, t) => q = p
            /\ p \notin RotatedPreheaders =>
                 \A i, j \in DOMAIN g.succ[p] : g.succ[p][i] = t /\ g.succ[p][j] = t => i = j
      BY <1>0, <2>4, EdgeSource
    <3>2. NamedOnce(p, "splice", t)
      BY <1>0, <3>1, SpliceOnce
    <3> QED
      BY <1>2, <2>1, <3>1, <3>2
  <2> QED
    BY <2>2, <2>3, <2>4
<1> QED
  BY <1>3, <1>4

\* The text of a block that is spliced in is in the one of every block before
\* it; for a rotated loop's latch, in the one of the loop's preheader.
LEMMA EdgeFed ==
  ASSUME Planned, NEW t \in Spliced, NEW a \in Preds(g, t)
  PROVE  \E p \in Blocks : /\ Copies(p, t) > 0
                           /\ p = a \/ \E l \in Rotated : a = l.latch /\ p = l.preheader
<1>0. InputOK /\ t \in Blocks /\ a \in Blocks /\ t \in Succs(g, a)
  BY DEF Planned, Spliced, Preds
<1>1. ASSUME NEW p \in Blocks, GotoSource(p, t) PROVE Copies(p, t) > 0
  <2>1. Feeds(p, t)
    BY <1>1 DEF Feeds
  <2> QED
    BY <1>0, <2>1, CopiesAre
<1>2. CASE a \in RotatedLatches
  <2>1. PICK l \in Rotated : a = l.latch
    BY <1>2 DEF RotatedLatches, Rotated
  <2>2. t = l.header \/ t = AfterDoWhile(l)
    BY <1>0, <2>1, LatchWays
  <2>3. l.preheader \in Blocks /\ l.preheader \notin RotatedLatches
    BY <1>0, RotatedFacts, PreheaderNoLatch DEF RotatedLatches, Rotated
  <2>4. GotoSource(l.preheader, t)
    BY <2>2, <2>3 DEF GotoSource
  <2> QED
    BY <1>1, <2>1, <2>3, <2>4
<1>3. CASE a \notin RotatedLatches /\ a \in RotatedPreheaders
  <2>1. PICK l \in Rotated : a = l.preheader
    BY <1>3 DEF RotatedPreheaders
  <2>2. Len(g.succ[a]) = 1 /\ g.succ[a] \in Seq(Blocks) /\ g.succ[a][1] = l.header
    BY <1>0, <2>1, RotatedFacts
  <2>3. t = l.header
    BY <1>0, <2>2 DEF Succs
  <2>4. GotoSource(a, t)
    BY <1>3, <2>1, <2>3 DEF GotoSource
  <2> QED
    BY <1>0, <1>1, <2>4
<1>4. CASE a \notin RotatedLatches /\ a \notin RotatedPreheaders
  <2>1. GotoSource(a, t)
    BY <1>4 DEF GotoSource
  <2> QED
    BY <1>0, <1>1, <2>1
<1> QED
  BY <1>2, <1>3, <1>4

\* The label of a wrapped latch is in its loop's preheader, once.
LEMMA LabelCopies ==
  ASSUME Planned, NEW l \in Rotated, l.latch \notin Spliced, NEW p \in Blocks
  PROVE  Mentions(exprs[p], "latch", l.latch) = IF p = l.preheader THEN 1 ELSE 0
<1> DEFINE y == Mentions(exprs[p], "latch", l.latch)
<1>0. InputOK /\ l.latch \in Blocks /\ "latch" \in Jumps
  BY RotatedFacts DEF Planned, Jumps
<1>1. /\ y \in Nat /\ (~Named(p, "latch", l.latch) => y = 0) /\ (Named(p, "latch", l.latch) => y > 0)
      /\ NamedOnce(p, "latch", l.latch) => y <= 1
  BY <1>0, MentionsAre
<1>2. /\ Named(p, "latch", l.latch)
           <=> \E m \in Rotated : p = m.preheader /\ l.latch = m.latch /\ Wrapped(m)
      /\ NamedOnce(p, "latch", l.latch)
  BY <1>0, NamedAre
<1>3. Wrapped(l)
  BY WrappedIs
<1>4. Named(p, "latch", l.latch) <=> p = l.preheader
  BY <1>0, <1>2, <1>3, OneLoopPerLatch
<1> HIDE DEF y
<1>5. y = IF p = l.preheader THEN 1 ELSE 0
  BY <1>1, <1>2, <1>4
<1> QED
  BY <1>5 DEF y

\* No goto that is left names a block that is spliced in.
LEMMA GotosLeft ==
  ASSUME Planned, NEW p \in Blocks, NEW t \in Blocks, Sites(exprs[p], "goto", t) # {}
  PROVE  t \notin Spliced
<1>1. InputOK /\ "goto" \in Jumps
  BY DEF Planned, Jumps
<1>2. Named(p, "goto", t)
  BY <1>1, MentionsAre
<1> QED
  BY <1>1, <1>2, NamedAre

LEMMA NoCopyOfOwn ==
  ASSUME Planned, NEW t \in Blocks, OwnBlock(t), NEW p \in Blocks
  PROVE  Copies(p, t) = 0
<1>1. t \notin Spliced
  BY NotSplicedFollows
<1>2. t \notin RotatedLatches
  <2>1. \A l \in Rotated : doInline[l.latch] /\ l.latch # Entry
    BY RotatedFacts DEF Planned, RotatedLatches, Rotated
  <2> QED
    BY <2>1 DEF OwnBlock, RotatedLatches, Rotated
<1>3. ~Feeds(p, t)
  BY <1>1, <1>2 DEF Feeds, RotatedLatches, Rotated
<1> QED
  BY <1>3, CopiesAre

\* A return copies nothing.
LEMMA NoCopyInLone ==
  ASSUME Planned, NEW p \in Blocks, Lone(p), NEW t \in Blocks
  PROVE  Copies(p, t) = 0
<1>1. InputOK /\ g.term[p] = "ret"
  BY DEF Planned, Lone
<1>2. p \notin Preds(g, t)
  BY <1>1, LoneLeadsNowhere DEF NoSuccessors
<1>3. \A l \in Rotated : p # l.preheader
  BY <1>1, RotatedFacts
<1>4. ~Feeds(p, t)
  BY <1>2, <1>3 DEF Feeds, GotoSource
<1> QED
  BY <1>4, CopiesAre

-----------------------------------------------------------------------------
(* The writer's counts. *)

\* Every block that is inlined is a loop's header or latch, has one edge into
\* it or is nothing but a return.
AllSafe ==
  \A b \in Blocks : doInline[b] =>
    b \in Headers \/ HasSinglePredecessor(g, b) \/ Lone(b) \/ b \in RotatedLatches

Counts == [Blocks -> Nat]

\* A block that is printed has had the texts printed it contains, a block that
\* is contained in one text alone is printed with it, a latch has its label
\* where its loop's preheader is printed.
CopiesCounted(pe, pr) ==
  /\ \A b \in Blocks : OwnBlock(b) => pe[b] + pr[b] = 1
  /\ \A p, t \in Blocks : OnlyParent(p, t) => pe[t] + pr[t] = pr[p]
  /\ \A p, t \in Blocks : Copies(p, t) > 0 /\ pr[p] > 0 => pe[t] + pr[t] > 0
  /\ \A b \in Blocks : ~Lone(b) => pe[b] + pr[b] <= 1

LabelsCounted(pr, la) ==
  /\ \A b \in Blocks : OwnBlock(b) => la[b] = 1
  /\ \A t \in Spliced : la[t] = 0
  /\ \A l \in Rotated : l.latch \notin Spliced => la[l.latch] = pr[l.preheader]

LEMMA CountsStart ==
  ASSUME Planned, NEW pe \in Counts, NEW pr \in Counts,
         \A b \in Blocks : pr[b] = 0,
         \A b \in Blocks : pe[b] = IF OwnBlock(b) THEN 1 ELSE 0
  PROVE  CopiesCounted(pe, pr) /\ LabelsCounted(pr, pe)
<1>1. \A b \in Blocks : pe[b] + pr[b] = IF OwnBlock(b) THEN 1 ELSE 0
  BY DEF Counts
<1>2. ASSUME NEW p \in Blocks, NEW t \in Blocks, OnlyParent(p, t)
      PROVE  pe[t] + pr[t] = pr[p]
  <2>1. Copies(p, t) # 0
    BY <1>2 DEF OnlyParent
  <2>2. ~OwnBlock(t)
    BY <2>1, NoCopyOfOwn
  <2> QED
    BY <1>1, <2>2
<1>3. CopiesCounted(pe, pr)
  BY <1>1, <1>2 DEF CopiesCounted
<1>4. \A t \in Spliced : t \in Blocks /\ ~OwnBlock(t)
  BY NotSplicedFollows DEF Spliced
<1>5. ASSUME NEW l \in Rotated
      PROVE  l.latch \in Blocks /\ l.preheader \in Blocks /\ ~OwnBlock(l.latch)
  <2>1. l.latch \in Blocks /\ l.preheader \in Blocks /\ l.latch # Entry
    BY RotatedFacts DEF Planned
  <2>2. l.latch \in RotatedLatches
    BY DEF RotatedLatches, Rotated
  <2> QED
    BY <2>1, <2>2 DEF Planned, OwnBlock
<1>6. LabelsCounted(pr, pe)
  BY <1>4, <1>5 DEF LabelsCounted
<1> QED
  BY <1>3, <1>6

\* The counts when one more copy of b is printed, and what it contains is to
\* follow.
PendingAfter(pe, b) ==
  [c \in Blocks |-> pe[c] - (IF c = b THEN 1 ELSE 0)
                      + Mentions(exprs[b], "splice", c) + Mentions(exprs[b], "latch", c)]
PrintedAfter(pr, b) == [pr EXCEPT ![b] = @ + 1]
LabelsAfter(la, b) == [c \in Blocks |-> la[c] + Mentions(exprs[b], "latch", c)]

LEMMA CopiesStep ==
  ASSUME Planned, AllSafe, NEW pe \in Counts, NEW pr \in Counts, CopiesCounted(pe, pr),
         NEW b \in Blocks, pe[b] > 0, NEW pe2, NEW pr2,
         pe2 = PendingAfter(pe, b), pr2 = PrintedAfter(pr, b)
  PROVE  pe2 \in Counts /\ pr2 \in Counts /\ CopiesCounted(pe2, pr2)
<1> DEFINE one(c) == IF c = b THEN 1 ELSE 0
<1>1. ASSUME NEW c \in Blocks
      PROVE  /\ pe2[c] \in Nat /\ pr2[c] \in Nat
             /\ pr2[c] = pr[c] + one(c)
             /\ pe2[c] + pr2[c] = pe[c] + pr[c] + Copies(b, c)
             /\ pe[c] \in Nat /\ pr[c] \in Nat /\ Copies(b, c) \in Nat
  <2> DEFINE x == Mentions(exprs[b], "splice", c)
             y == Mentions(exprs[b], "latch", c)
  <2>1. x \in Nat /\ y \in Nat /\ Copies(b, c) = x + y
    BY CopiesAre DEF Copies
  <2>2. pe2[c] = pe[c] - one(c) + x + y
    BY DEF PendingAfter
  <2>3. pe[c] \in Nat /\ pr[c] \in Nat /\ (c = b => pe[c] > 0)
    BY DEF Counts
  <2>4. pr2[c] = pr[c] + one(c)
    BY DEF Counts, PrintedAfter
  <2>5. one(c) = 0 \/ (one(c) = 1 /\ pe[c] > 0)
    BY <2>3
  <2> HIDE DEF x, y, one
  <2>6. pe2[c] \in Nat /\ pr2[c] \in Nat
    BY <2>1, <2>2, <2>3, <2>4, <2>5
  <2>7. pe2[c] + pr2[c] = pe[c] + pr[c] + Copies(b, c)
    BY <2>1, <2>2, <2>3, <2>4, <2>5
  <2>8. Copies(b, c) \in Nat
    BY <2>1
  <2> QED
    BY <2>3, <2>4, <2>6, <2>7, <2>8
<1>2. pe2 \in Counts /\ pr2 \in Counts
  <2>1. \A c \in Blocks : pe2[c] \in Nat /\ pr2[c] \in Nat
    BY <1>1
  <2>2. pr2 = [c \in Blocks |-> pr2[c]]
    BY DEF Counts, PrintedAfter
  <2>3. pe2 = [c \in Blocks |-> pe2[c]]
    BY DEF PendingAfter
  <2> HIDE DEF Counts
  <2> QED
    BY <2>1, <2>2, <2>3, Zenon DEF Counts
<1> HIDE DEF one
<1>3. \A c \in Blocks : one(c) = IF c = b THEN 1 ELSE 0
  BY DEF one
<1>4. ASSUME NEW c \in Blocks, OwnBlock(c)
      PROVE  pe2[c] + pr2[c] = 1
  <2>1. Copies(b, c) = 0
    BY <1>4, NoCopyOfOwn
  <2>2. pe[c] + pr[c] = 1
    BY <1>4 DEF CopiesCounted
  <2> QED
    BY <1>1, <2>1, <2>2
<1>5. ASSUME NEW p \in Blocks, NEW t \in Blocks, OnlyParent(p, t)
      PROVE  pe2[t] + pr2[t] = pr2[p]
  <2>1. pe[t] + pr[t] = pr[p]
    BY <1>5 DEF CopiesCounted
  <2>2. Copies(b, t) = one(p)
    BY <1>3, <1>5 DEF OnlyParent
  <2> QED
    BY <1>1, <2>1, <2>2
<1>6. ASSUME NEW p \in Blocks, NEW t \in Blocks, Copies(p, t) > 0, pr2[p] > 0
      PROVE  pe2[t] + pr2[t] > 0
  <2>1. CASE p = b
    BY <1>1, <1>6, <2>1
  <2>2. CASE p # b
    <3>1. pr[p] > 0
      BY <1>1, <1>3, <1>6, <2>2
    <3>2. pe[t] + pr[t] > 0
      BY <1>6, <3>1 DEF CopiesCounted
    <3> QED
      BY <1>1, <3>2
  <2> QED
    BY <2>1, <2>2
<1>7. ASSUME NEW c \in Blocks, ~Lone(c)
      PROVE  pe2[c] + pr2[c] <= 1
  <2>1. CASE OwnBlock(c)
    BY <1>1, <1>4, <2>1
  <2>2. CASE ~OwnBlock(c)
    <3>1. c \in Headers \/ HasSinglePredecessor(g, c) \/ c \in RotatedLatches
      BY <1>7, <2>2 DEF AllSafe, OwnBlock
    <3>2. PICK p \in Blocks : OnlyParent(p, c)
      BY <2>2, <3>1, SoleCopy
    <3>3. ~Lone(p)
      BY <3>2, NoCopyInLone DEF OnlyParent
    <3>4. pe[p] + pr[p] <= 1
      BY <3>3 DEF CopiesCounted
    <3>5. pr2[p] <= 1
      BY <1>1, <1>3, <3>4
    <3> QED
      BY <1>1, <1>5, <3>2, <3>5
  <2> QED
    BY <2>1, <2>2
<1>8. CopiesCounted(pe2, pr2)
  BY <1>4, <1>5, <1>6, <1>7 DEF CopiesCounted
<1> QED
  BY <1>2, <1>8

LEMMA LabelsStep ==
  ASSUME Planned, NEW pr \in Counts, NEW la \in Counts, LabelsCounted(pr, la),
         NEW b \in Blocks, NEW la2, NEW pr2,
         la2 = LabelsAfter(la, b), pr2 = PrintedAfter(pr, b)
  PROVE  la2 \in Counts /\ LabelsCounted(pr2, la2)
<1>1. \A c \in Blocks : Mentions(exprs[b], "latch", c) \in Nat
  BY CopiesAre
<1>6. \A c \in Blocks : la2[c] = la[c] + Mentions(exprs[b], "latch", c)
  BY DEF LabelsAfter
<1>2. la2 \in Counts
  BY <1>1 DEF Counts, LabelsAfter
<1>3. ASSUME NEW c \in Blocks, OwnBlock(c)
      PROVE  la2[c] = 1
  <2>1. Copies(b, c) = 0 /\ Mentions(exprs[b], "splice", c) \in Nat
    BY <1>3, NoCopyOfOwn, CopiesAre
  <2>2. Mentions(exprs[b], "latch", c) = 0
    BY <1>1, <2>1 DEF Copies
  <2>3. la[c] = 1
    BY <1>3 DEF LabelsCounted
  <2> QED
    BY <1>6, <2>2, <2>3
<1>4. ASSUME NEW t \in Spliced
      PROVE  la2[t] = 0
  <2>1. t \in Blocks /\ la[t] = 0
    BY DEF LabelsCounted, Spliced
  <2>2. Mentions(exprs[b], "latch", t) = 0
    BY <2>1, CopiesAre
  <2> QED
    BY <1>6, <2>1, <2>2
<1>5. ASSUME NEW l \in Rotated, l.latch \notin Spliced
      PROVE  la2[l.latch] = pr2[l.preheader]
  <2>1. l.latch \in Blocks /\ l.preheader \in Blocks
    BY RotatedFacts DEF Planned
  <2>2. la[l.latch] = pr[l.preheader]
    BY <1>5 DEF LabelsCounted
  <2>3. Mentions(exprs[b], "latch", l.latch) = IF b = l.preheader THEN 1 ELSE 0
    BY <1>5, LabelCopies
  <2>4. pr[l.preheader] \in Nat /\ pr2[l.preheader] = pr[l.preheader] + IF b = l.preheader THEN 1 ELSE 0
    BY <2>1 DEF Counts, PrintedAfter
  <2> QED
    BY <1>6, <2>1, <2>2, <2>3, <2>4
<1> QED
  BY <1>2, <1>3, <1>4, <1>5 DEF LabelsCounted

-----------------------------------------------------------------------------
(* The inductive invariant of the writer. *)

LoopsReached == \A l \in loops : l.latch \in Reachable(g)

Counted(pe, pr, la, ju) ==
  /\ CopiesCounted(pe, pr)
  /\ LabelsCounted(pr, la)
  /\ \A t \in ju : t \notin Spliced

TextInv ==
  /\ pending \in Counts /\ printed \in Counts /\ labels \in Counts /\ jumps \subseteq Blocks
  /\ phase = "translating" => printed = [b \in Blocks |-> 0] /\ jumps = {}
  /\ phase # "translating" => Counted(pending, printed, labels, jumps)

WriterInv == EmInv /\ MarkedInv /\ LoopsReached /\ TextInv

LEMMA WriterInit == EmInit => WriterInv
<1> SUFFICES ASSUME EmInit PROVE WriterInv
  OBVIOUS
<1>1. EmInv /\ MarkedInv
  BY EmInvInit, MarkedInvInit DEF EmInit
<1>2. LoopsReached
  <2>1. loops = Loops(g)
    BY DEF EmInit, CFInit
  <2>2. ASSUME NEW h \in Blocks, Latches(g, h) # {}
        PROVE  LoopOf(g, h).latch \in Reachable(g)
    <3>1. LoopOf(g, h).latch \in Latches(g, h)
      BY <2>2 DEF LoopOf
    <3> QED
      BY <3>1, LatchesAre
  <2> QED
    BY <2>1, <2>2 DEF LoopsReached, Loops
<1>3. TextInv
  BY DEF EmInit, TextInv, Counts
<1> QED
  BY <1>1, <1>2, <1>3 DEF WriterInv

\* The counts mean the same while the translated code does not change.
LEMMA CountedUnchanged ==
  ASSUME UNCHANGED cfVars, NEW pe, NEW pr, NEW la, NEW ju, Counted(pe, pr, la, ju)
  PROVE  Counted(pe, pr, la, ju)'
<1>1. g' = g /\ loops' = loops /\ exprs' = exprs /\ doInline' = doInline
  BY DEF cfVars, inputVars, codeVars
<1>2. Spliced' = Spliced /\ Rotated' = Rotated
  BY <1>1, PartsUnchanged
<1>3. ASSUME NEW p, NEW t
      PROVE  /\ Copies(p, t)' = Copies(p, t)
             /\ OwnBlock(t)' = OwnBlock(t) /\ Lone(t)' = Lone(t)
  BY <1>1 DEF Copies, OwnBlock, Lone
<1>4. \A p, t : OnlyParent(p, t)' = OnlyParent(p, t)
  BY <1>3 DEF OnlyParent
<1>5. CopiesCounted(pe, pr)'
  BY <1>3, <1>4 DEF Counted, CopiesCounted
<1>6. LabelsCounted(pr, la)'
  BY <1>2, <1>3 DEF Counted, LabelsCounted
<1> QED
  BY <1>2, <1>5, <1>6 DEF Counted

LEMMA SafeWhenWritten ==
  ASSUME MarkedInv, pass = "write"
  PROVE  AllSafe
BY DEF MarkedInv, AllSafe

LEMMA WriterStartStep ==
  ASSUME WriterInv, StartWriter
  PROVE  TextInv'
<1>1. /\ phase = "translating" /\ phase' = "printing" /\ pass = "write"
      /\ pending' = [b \in Blocks |-> IF OwnBlock(b) THEN 1 ELSE 0]
      /\ labels' = pending' /\ printed' = printed /\ jumps' = jumps
      /\ UNCHANGED cfVars
  BY DEF StartWriter
<1>2. /\ Planned /\ printed \in Counts /\ printed = [b \in Blocks |-> 0] /\ jumps = {}
  BY <1>1, PlannedWhenWritten DEF WriterInv, EmInv, TextInv
<1>3. pending' \in Counts
  BY <1>1 DEF Counts
<1> DEFINE pe == pending'
<1>4. CopiesCounted(pe, printed) /\ LabelsCounted(printed, pe)
  <2>1. /\ \A b \in Blocks : printed[b] = 0
        /\ \A b \in Blocks : pe[b] = IF OwnBlock(b) THEN 1 ELSE 0
    BY <1>1, <1>2
  <2>2. pe \in Counts
    BY <1>3
  <2> HIDE DEF pe
  <2> QED
    BY <1>2, <2>1, <2>2, CountsStart
<1>5. Counted(pe, printed, pe, jumps)
  BY <1>2, <1>4 DEF Counted
<1>6. PICK a : a = pe
  OBVIOUS
<1>7. PICK r : r = printed
  OBVIOUS
<1>8. PICK j : j = jumps
  OBVIOUS
<1>9. Counted(a, r, a, j)'
  <2>1. Counted(a, r, a, j)
    BY <1>5, <1>6, <1>7, <1>8
  <2> QED
    BY <1>1, <2>1, CountedUnchanged
<1>10. Counted(pending, printed, labels, jumps)'
  BY <1>1, <1>6, <1>7, <1>8, <1>9
<1> QED
  BY <1>1, <1>2, <1>3, <1>10 DEF TextInv

LEMMA WriterCopyStep ==
  ASSUME WriterInv, NEW b \in Blocks, WriteCopy(b)
  PROVE  TextInv'
<1>1. /\ phase = "printing" /\ phase' = phase /\ pending[b] > 0
      /\ pending' = [c \in Blocks |->
                       pending[c] - (IF c = b THEN 1 ELSE 0)
                         + Mentions(exprs[b], "splice", c) + Mentions(exprs[b], "latch", c)]
      /\ labels' = [c \in Blocks |-> labels[c] + Mentions(exprs[b], "latch", c)]
      /\ printed' = [printed EXCEPT ![b] = @ + 1]
      /\ jumps' = jumps \cup {t \in Blocks : Sites(exprs[b], "goto", t) # {}}
      /\ UNCHANGED cfVars
  BY DEF WriteCopy, runVars
<1>2. /\ pending \in Counts /\ printed \in Counts /\ labels \in Counts /\ jumps \subseteq Blocks
      /\ CopiesCounted(pending, printed) /\ LabelsCounted(printed, labels)
      /\ \A t \in jumps : t \notin Spliced
      /\ pass = "write"
  BY <1>1 DEF WriterInv, EmInv, ProgramInv, TextInv, Counted
<1>3. Planned /\ AllSafe
  BY <1>2, PlannedWhenWritten, SafeWhenWritten DEF WriterInv, EmInv
<1>4. PICK pe : pe = pending'
  OBVIOUS
<1>5. PICK pr : pr = printed'
  OBVIOUS
<1>6. PICK la : la = labels'
  OBVIOUS
<1>7. PICK ju : ju = jumps'
  OBVIOUS
<1>14. /\ pe = PendingAfter(pending, b) /\ pr = PrintedAfter(printed, b)
       /\ la = LabelsAfter(labels, b)
  BY <1>1, <1>4, <1>5, <1>6 DEF PendingAfter, PrintedAfter, LabelsAfter
<1>8. pe \in Counts /\ pr \in Counts /\ CopiesCounted(pe, pr)
  <2>1. pending[b] > 0
    BY <1>1
  <2> QED
    BY <1>2, <1>3, <1>14, <2>1, CopiesStep
<1>9. la \in Counts /\ LabelsCounted(pr, la)
  BY <1>2, <1>3, <1>14, LabelsStep
<1>10. ju \subseteq Blocks /\ \A t \in ju : t \notin Spliced
  <2>1. \A t \in Blocks : Sites(exprs[b], "goto", t) # {} => t \notin Spliced
    BY <1>3, GotosLeft
  <2> QED
    BY <1>1, <1>2, <1>7, <2>1
<1>11. Counted(pe, pr, la, ju)
  BY <1>8, <1>9, <1>10 DEF Counted
<1>12. Counted(pe, pr, la, ju)'
  BY <1>1, <1>11, CountedUnchanged
<1>13. Counted(pending, printed, labels, jumps)'
  BY <1>4, <1>5, <1>6, <1>7, <1>12
<1> QED
  BY <1>1, <1>4, <1>5, <1>6, <1>7, <1>8, <1>9, <1>10, <1>13 DEF TextInv

\* Every other step leaves the text and the translated code alone, or is one
\* of the translation.
LEMMA TextKept ==
  ASSUME TextInv, UNCHANGED <<cfVars, textVars>>,
         phase' = phase \/ (phase # "translating" /\ phase' # "translating")
  PROVE  TextInv'
<1>1. /\ UNCHANGED cfVars /\ pending' = pending /\ printed' = printed
      /\ labels' = labels /\ jumps' = jumps
  BY DEF textVars
<1>2. ASSUME phase # "translating"
      PROVE  Counted(pending, printed, labels, jumps)'
  <2>1. PICK pe, pr, la, ju : pe = pending /\ pr = printed /\ la = labels /\ ju = jumps
    OBVIOUS
  <2>2. Counted(pe, pr, la, ju)
    BY <1>2, <2>1 DEF TextInv
  <2>3. Counted(pe, pr, la, ju)'
    BY <1>1, <2>2, CountedUnchanged
  <2> QED
    BY <1>1, <2>1, <2>3
<1> QED
  BY <1>1, <1>2 DEF TextInv

LEMMA WriterInvStep == WriterInv /\ [EmNext]_emVars => WriterInv'
<1> SUFFICES ASSUME WriterInv, [EmNext]_emVars PROVE WriterInv'
  OBVIOUS
<1>1. EmInv'
  BY EmInvStep DEF WriterInv
<1>2. [CFNext]_cfVars
  BY DEF EmNext, Translate, StartWriter, WriteCopy, RunC, CallFunction, RunBody, AssignPhis, Jump,
         RunInPlace, RunIf, RunDo, RunWhile, RunRet, Stutter, emVars
<1>3. MarkedInv'
  BY <1>2, MarkedInvStep DEF WriterInv, EmInv
<1>4. g' = g /\ loops' = loops
  BY <1>2 DEF CFNext, ParseLoop, ParseRemainingBlocks, IdentifyInlinableBlocks, DoNotInlineLatches,
              Inlining, VisitContainer, InlineGoto, FinishTarget, FinishContainer,
              MarkLatchBlockAsInlined, inputVars, cfVars
<1>5. LoopsReached'
  BY <1>4 DEF WriterInv, LoopsReached
<1>6. TextInv'
  <2>1. CASE CFNext /\ UNCHANGED <<textVars, runVars>>
    <3>1. pass # "write"
      BY <2>1 DEF CFNext, ParseLoop, ParseRemainingBlocks, IdentifyInlinableBlocks,
                  DoNotInlineLatches, Inlining, VisitContainer, InlineGoto, FinishTarget,
                  FinishContainer, MarkLatchBlockAsInlined
    <3>2. phase = "translating" /\ phase' = phase
      BY <2>1, <3>1 DEF WriterInv, EmInv, ProgramInv, runVars
    <3> QED
      BY <2>1, <3>2 DEF WriterInv, TextInv, textVars
  <2>2. CASE StartWriter
    BY <2>2, WriterStartStep
  <2>3. CASE \E b \in Blocks : WriteCopy(b)
    BY <2>3, WriterCopyStep
  <2>4. CASE RunC \/ Stutter \/ UNCHANGED emVars
    <3>1. /\ UNCHANGED <<cfVars, textVars>>
          /\ phase' = phase \/ (phase # "translating" /\ phase' # "translating")
      BY <2>4 DEF RunC, CallFunction, RunBody, AssignPhis, Jump, RunInPlace, RunIf, RunDo, RunWhile,
                  RunRet, Stutter, Executes, emVars, runVars
    <3> QED
      BY <3>1, TextKept DEF WriterInv
  <2> QED
    BY <2>1, <2>2, <2>3, <2>4 DEF EmNext, Translate
<1> QED
  BY <1>1, <1>3, <1>5, <1>6 DEF WriterInv

LEMMA WriterInvariant == EmSpec => []WriterInv
<1>1. EmInit => WriterInv
  BY WriterInit
<1>2. WriterInv /\ [EmNext]_emVars => WriterInv'
  BY WriterInvStep
<1> QED
  BY <1>1, <1>2, PTL DEF EmSpec

-----------------------------------------------------------------------------
(* When the writer is done. *)

\* The blocks whose text is missing, together with the loops whose preheader's
\* text is missing, are a part of the function nothing else leads into.
LEMMA MissingUnreachable ==
  ASSUME Planned, NEW pe \in Counts, NEW pr \in Counts, CopiesCounted(pe, pr),
         \A b \in Blocks : pe[b] = 0
  PROVE  /\ \A b \in Reachable(g) : b \in Blocks /\ pr[b] > 0
         /\ \A l \in Rotated : l.latch \in Reachable(g) => pr[l.preheader] > 0
<1> DEFINE Around == {l \in Rotated : pr[l.preheader] = 0}
           S == {b \in Blocks : pr[b] = 0} \cup UNION {l.blocks : l \in Around}
<1>0. InputOK
  BY DEF Planned
<1>1. \A b \in Blocks : pr[b] \in Nat /\ pe[b] + pr[b] = pr[b]
  BY DEF Counts
<1>2. \A b \in Blocks : OwnBlock(b) => pr[b] = 1
  BY <1>1 DEF CopiesCounted
<1>3. \A p, t \in Blocks : Copies(p, t) > 0 /\ pr[t] = 0 => pr[p] = 0
  <2> SUFFICES ASSUME NEW p \in Blocks, NEW t \in Blocks, Copies(p, t) > 0, pr[t] = 0
               PROVE  pr[p] = 0
    OBVIOUS
  <2>1. ~(pr[p] > 0)
    BY <1>1 DEF CopiesCounted
  <2> QED
    BY <1>1, <2>1
<1>4. ASSUME NEW l \in Rotated
      PROVE  /\ l \in loops /\ l.preheader \in Blocks /\ l.latch \in l.blocks
             /\ l.blocks \subseteq Blocks /\ Entry \notin l.blocks
             /\ Preds(g, l.header) = {l.latch, l.preheader}
             /\ \A b \in l.blocks : b # l.header => Preds(g, b) \subseteq l.blocks
  <2>1. l \in loops
    BY <1>0, RotatedFacts
  <2>2. Entry \notin l.blocks
    BY <2>1 DEF InputOK, LoopContract, Planned
  <2> QED
    BY <1>0, <2>1, <2>2, LoopFacts
<1>5. Entry \notin S
  <2>1. Entry \in Blocks /\ OwnBlock(Entry)
    BY NAssumption DEF Entry, Blocks, OwnBlock
  <2>2. pr[Entry] = 1
    BY <1>2, <2>1
  <2> QED
    BY <1>4, <2>2
<1>6. ASSUME NEW a \in Blocks \ S, NEW l \in Around, NEW b \in l.blocks, b \in Succs(g, a)
      PROVE  FALSE
  <2>1. l \in Rotated /\ pr[l.preheader] = 0
    OBVIOUS
  <2>2. a \notin l.blocks /\ a \in Preds(g, b)
    BY <1>6 DEF Preds
  <2>3. a = l.preheader
    BY <1>4, <2>1, <2>2
  <2> QED
    BY <1>6, <2>1, <2>3
<1>7. ASSUME NEW a \in Blocks \ S, NEW b \in Blocks, pr[b] = 0, b \in Succs(g, a)
      PROVE  FALSE
  <2>1. a \in Preds(g, b) /\ pr[a] # 0
    BY <1>7 DEF Preds
  <2>2. CASE b \in Spliced
    <3>1. PICK p \in Blocks : /\ Copies(p, b) > 0
                              /\ p = a \/ \E l \in Rotated : a = l.latch /\ p = l.preheader
      BY <2>1, <2>2, EdgeFed
    <3>2. pr[p] = 0
      BY <1>3, <1>7, <3>1
    <3>3. PICK l \in Rotated : a = l.latch /\ p = l.preheader
      BY <2>1, <3>1, <3>2
    <3>4. l \in Around
      BY <3>2, <3>3
    <3>5. a \in l.blocks
      BY <1>4, <3>3
    <3>6. a \in S
      BY <3>4, <3>5
    <3> QED
      BY <3>6
  <2>3. CASE b \notin Spliced
    <3>1. ~OwnBlock(b)
      BY <1>2, <1>7
    <3>2. b \in RotatedLatches
      BY <2>3, <3>1 DEF OwnBlock, Spliced
    <3>3. PICK l \in Rotated : b = l.latch
      BY <3>2 DEF RotatedLatches, Rotated
    <3>4. Feeds(l.preheader, b)
      BY <2>3, <3>3, WrappedIs DEF Feeds
    <3>5. Copies(l.preheader, b) > 0
      BY <1>4, <3>4, CopiesAre
    <3>6. l \in Around
      BY <1>3, <1>4, <1>7, <3>5
    <3>7. b \in l.blocks
      BY <1>4, <3>3
    <3> QED
      BY <1>6, <1>7, <3>6, <3>7
  <2> QED
    BY <2>2, <2>3
<1>8. \A a \in Blocks \ S : \A b \in S : b \notin Succs(g, a)
  <2> SUFFICES ASSUME NEW a \in Blocks \ S, NEW b \in S, b \in Succs(g, a) PROVE FALSE
    OBVIOUS
  <2>1. CASE b \in Blocks /\ pr[b] = 0
    BY <1>7, <2>1
  <2>2. CASE \E l \in Around : b \in l.blocks
    BY <1>6, <2>2
  <2> QED
    BY <2>1, <2>2
<1>9. \A b \in Reachable(g) : b \in Blocks \ S
  <2> HIDE DEF S
  <2> QED
    BY <1>5, <1>8, NoWayIn
<1>10. ASSUME NEW b \in Reachable(g)
       PROVE  b \in Blocks /\ pr[b] > 0
  <2>1. b \in Blocks /\ b \notin S
    BY <1>9
  <2>2. pr[b] # 0 /\ pr[b] \in Nat
    BY <1>1, <2>1
  <2> QED
    BY <2>1, <2>2
<1>11. ASSUME NEW l \in Rotated, l.latch \in Reachable(g)
       PROVE  pr[l.preheader] > 0
  <2>1. l.latch \notin S
    BY <1>9, <1>11
  <2>2. l \notin Around
    BY <1>4, <2>1
  <2>3. pr[l.preheader] # 0 /\ pr[l.preheader] \in Nat
    BY <1>1, <1>4, <2>2
  <2> QED
    BY <2>3
<1> QED
  BY <1>10, <1>11

LEMMA TextDone ==
  ASSUME WriterInv, WriterDone
  PROVE  /\ Planned /\ LoopsReached
         /\ pending \in Counts /\ printed \in Counts /\ labels \in Counts /\ jumps \subseteq Blocks
         /\ CopiesCounted(pending, printed) /\ LabelsCounted(printed, labels)
         /\ \A t \in jumps : t \notin Spliced
         /\ \A b \in Blocks : pending[b] = 0
         /\ \A b \in Blocks : printed[b] \in Nat /\ (~Lone(b) => printed[b] <= 1)
<1>1. phase # "translating" /\ \A b \in Blocks : pending[b] = 0
  BY DEF WriterDone
<1>2. pass = "write"
  BY <1>1 DEF WriterInv, EmInv, ProgramInv
<1>3. Planned
  BY <1>2, PlannedWhenWritten DEF WriterInv, EmInv
<1>4. /\ pending \in Counts /\ printed \in Counts /\ labels \in Counts /\ jumps \subseteq Blocks
      /\ CopiesCounted(pending, printed) /\ LabelsCounted(printed, labels)
      /\ \A t \in jumps : t \notin Spliced
  BY <1>1 DEF WriterInv, TextInv, Counted
<1>5. ASSUME NEW b \in Blocks
      PROVE  printed[b] \in Nat /\ (~Lone(b) => printed[b] <= 1)
  <2>1. ~Lone(b) => pending[b] + printed[b] <= 1
    BY <1>4 DEF CopiesCounted
  <2>2. pending[b] = 0 /\ printed[b] \in Nat
    BY <1>1, <1>4 DEF Counts
  <2> QED
    BY <2>1, <2>2
<1> QED
  BY <1>1, <1>3, <1>4, <1>5 DEF WriterInv

LEMMA PrintedOnce == WriterInv => CodePrintedOnce
<1> SUFFICES ASSUME WriterInv, WriterDone, NEW b \in Reachable(g)
             PROVE  printed[b] >= 1 /\ (printed[b] > 1 => g.term[b] = "ret" /\ b \in g.bare)
  BY DEF CodePrintedOnce
<1>1. b \in Blocks /\ printed[b] > 0
  BY TextDone, MissingUnreachable
<1>2. printed[b] \in Nat /\ (~Lone(b) => printed[b] <= 1)
  BY <1>1, TextDone
<1> QED
  BY <1>1, <1>2 DEF Lone

LEMMA OneLabel == WriterInv => GotosHaveOneLabel
<1> SUFFICES ASSUME WriterInv, WriterDone
             PROVE  /\ \A t \in jumps : labels[t] = 1
                    /\ \A b \in Blocks : labels[b] <= 1
  BY DEF GotosHaveOneLabel
<1>1. ASSUME NEW l \in Rotated, l.latch \notin Spliced
      PROVE  labels[l.latch] = 1
  <2>1. l \in loops /\ l.preheader \in Blocks /\ g.term[l.preheader] = "br"
    BY TextDone, RotatedFacts DEF Planned
  <2>2. labels[l.latch] = printed[l.preheader]
    BY <1>1, TextDone DEF LabelsCounted
  <2>3. l.latch \in Reachable(g)
    BY <2>1, TextDone DEF LoopsReached
  <2>4. printed[l.preheader] > 0
    BY <2>3, TextDone, MissingUnreachable
  <2>5. printed[l.preheader] \in Nat /\ printed[l.preheader] <= 1
    BY <2>1, TextDone DEF Lone
  <2> QED
    BY <2>2, <2>4, <2>5
<1>2. ASSUME NEW b \in Blocks, b \notin Spliced
      PROVE  labels[b] = 1
  <2>1. CASE OwnBlock(b)
    BY <2>1, TextDone DEF LabelsCounted
  <2>2. CASE ~OwnBlock(b)
    <3>1. PICK l \in Rotated : b = l.latch
      BY <1>2, <2>2 DEF OwnBlock, Spliced, RotatedLatches, Rotated
    <3> QED
      BY <1>1, <1>2, <3>1
  <2> QED
    BY <2>1, <2>2
<1>3. \A b \in Spliced : labels[b] = 0
  BY TextDone DEF LabelsCounted
<1>4. jumps \subseteq Blocks /\ \A t \in jumps : t \notin Spliced
  BY TextDone
<1> QED
  BY <1>2, <1>3, <1>4

-----------------------------------------------------------------------------
(* The theorems. *)

\* Every goto of a printed function names a label that is printed exactly
\* once, and no label is printed twice, although four places decide about the
\* label of a loop's latch: parseLoop that wraps it in the do-while, the two
\* loops of inlineBlocks that take its mark away and give it back, and the
\* writer that prints the label where it prints the wrapped latch.
THEOREM LabelsFit == EmSpec => []GotosHaveOneLabel
<1>1. WriterInv => GotosHaveOneLabel
  BY OneLabel
<1> QED
  BY <1>1, WriterInvariant, PTL

\* The text of every block that can be reached is printed, and more than once
\* only if the block is nothing but a return: a block that is inlined is not
\* lost, though nothing counts into how many others it was copied.
THEOREM NoCodeLost == EmSpec => []CodePrintedOnce
<1>1. WriterInv => CodePrintedOnce
  BY PrintedOnce
<1> QED
  BY <1>1, WriterInvariant, PTL

\* The text of a printed function is whole.
THEOREM WholeText == EmSpec => []TextIsWhole
<1>1. WriterInv => TextIsWhole
  BY OneLabel, PrintedOnce DEF TextIsWhole
<1> QED
  BY <1>1, WriterInvariant, PTL

\* The writer's counts stay natural numbers: a copy is only taken from those
\* that are pending; and what a step of the program leaves are blocks.
THEOREM TextTypeCorrect == EmSpec => []TypeOK
<1>1. WriterInv => TypeOK
  <2> SUFFICES ASSUME WriterInv PROVE TypeOK
    OBVIOUS
  <2>1. CFTypeOK
    BY DEF WriterInv, EmInv, TranslationInv, ParseInv, HandledInv, TypeInv
  <2>2. /\ {cur, prev, src} \subseteq Blocks \cup {NoBlock}
        /\ lastPhi \in [Blocks -> Blocks \cup {NoBlock}]
        /\ phase \in {"translating", "printing", "running", "returned"}
    BY DEF WriterInv, EmInv, ProgramInv, LastPhis
  <2>3. /\ pending \in [Blocks -> Nat] /\ printed \in [Blocks -> Nat]
        /\ labels \in [Blocks -> Nat] /\ jumps \subseteq Blocks
    BY DEF WriterInv, TextInv, Counts
  <2> QED
    BY <2>1, <2>2, <2>3 DEF TypeOK
<1> QED
  BY <1>1, WriterInvariant, PTL
=============================================================================
