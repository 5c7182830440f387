------------------------- MODULE ControlFlowProofs -------------------------
(***************************************************************************)
(* Theorems about the passes of ControlFlow, for every function of every   *)
(* size.                                                                   *)
(***************************************************************************)
EXTENDS ControlFlow, NaturalSets, FiniteSetTheorems, TLAPS

-----------------------------------------------------------------------------
(* The recursive function of ReachWithin up to k steps, and all of it. *)

NextReach(f, within, r) == {b \in within : b \in r \/ \E a \in r : b \in Succs(f, a)}

IsReach(R, k, f, from, within) ==
  R = [n \in 0..k |-> IF n = 0 THEN {b \in within : b \in from}
                      ELSE NextReach(f, within, R[n-1])]

LEMMA ReachDefined ==
  ASSUME NEW f, NEW from, NEW within, NEW k \in Nat
  PROVE  \E R : IsReach(R, k, f, from, within)
<1> DEFINE T == {n \in Nat : \E R : IsReach(R, n, f, from, within)}
<1>1. 0 \in T
  <2> DEFINE R == [n \in 0..0 |-> {b \in within : b \in from}]
  <2>1. IsReach(R, 0, f, from, within)
    BY DEF IsReach
  <2> HIDE DEF R
  <2> QED
    BY <2>1
<1>2. ASSUME NEW n \in T
      PROVE  n + 1 \in T
  <2>1. PICK R : IsReach(R, n, f, from, within)
    OBVIOUS
  <2> DEFINE Q == [i \in 0..n+1 |-> IF i = n + 1 THEN NextReach(f, within, R[n]) ELSE R[i]]
  <2>2. \A i \in 0..n : R[i] = IF i = 0 THEN {b \in within : b \in from}
                               ELSE NextReach(f, within, R[i-1])
    BY <2>1 DEF IsReach
  <2>3. ASSUME NEW i \in 0..n+1
        PROVE  Q[i] = IF i = 0 THEN {b \in within : b \in from}
                      ELSE NextReach(f, within, Q[i-1])
    <3>1. CASE i = n + 1
      <4>1. Q[i] = NextReach(f, within, R[n]) /\ Q[i-1] = R[n]
        BY <3>1
      <4> QED
        BY <3>1, <4>1
    <3>2. CASE i \in 0..n
      <4>1. Q[i] = R[i] /\ (i # 0 => Q[i-1] = R[i-1])
        BY <3>2
      <4> QED
        BY <2>2, <3>2, <4>1
    <3> QED
      BY <3>1, <3>2
  <2>4. IsReach(Q, n + 1, f, from, within)
    <3>1. Q = [i \in 0..n+1 |-> Q[i]]
      OBVIOUS
    <3> HIDE DEF Q
    <3> QED
      BY <2>3, <3>1 DEF IsReach
  <2> HIDE DEF Q
  <2> QED
    BY <2>4
<1> HIDE DEF T
<1>3. Nat \subseteq T
  BY <1>1, <1>2, SetInduction
<1> QED
  BY <1>3 DEF T

LEMMA ReachIs ==
  ASSUME NEW f, NEW from, NEW within
  PROVE  \E R : IsReach(R, N, f, from, within) /\ ReachWithin(f, from, within) = R[N]
<1> DEFINE R == CHOOSE R : IsReach(R, N, f, from, within)
<1>1. IsReach(R, N, f, from, within)
  BY ReachDefined, NAssumption
<1>2. ReachWithin(f, from, within) = R[N]
  BY DEF ReachWithin, IsReach, NextReach
<1> HIDE DEF R
<1> QED
  BY <1>1, <1>2

LEMMA ReachStart ==
  ASSUME NEW f, NEW from, NEW within, NEW b \in within, b \in from
  PROVE  b \in ReachWithin(f, from, within)
<1>1. PICK R : IsReach(R, N, f, from, within) /\ ReachWithin(f, from, within) = R[N]
  BY ReachIs
<1> DEFINE T == {n \in Nat : n <= N => b \in R[n]}
<1>2. 0 \in T
  BY <1>1, NAssumption DEF IsReach
<1>3. ASSUME NEW n \in T
      PROVE  n + 1 \in T
  BY <1>1, NAssumption DEF IsReach, NextReach
<1> HIDE DEF T
<1>4. Nat \subseteq T
  BY <1>2, <1>3, SetInduction
<1> QED
  BY <1>1, <1>4, NAssumption DEF T

LEMMA ReachLeast ==
  ASSUME NEW f, NEW from, NEW within, NEW S,
         \A b \in within : b \in from => b \in S,
         \A a \in S : \A b \in within : b \in Succs(f, a) => b \in S
  PROVE  ReachWithin(f, from, within) \subseteq S
<1>1. PICK R : IsReach(R, N, f, from, within) /\ ReachWithin(f, from, within) = R[N]
  BY ReachIs
<1> DEFINE T == {n \in Nat : n <= N => R[n] \subseteq S}
<1>2. 0 \in T
  BY <1>1, NAssumption DEF IsReach
<1>3. ASSUME NEW n \in T
      PROVE  n + 1 \in T
  <2> SUFFICES ASSUME n + 1 <= N PROVE R[n+1] \subseteq S
    OBVIOUS
  <2>1. n \in 0..N /\ n + 1 \in 0..N /\ R[n] \subseteq S
    BY NAssumption
  <2>2. R[n+1] = NextReach(f, within, R[n])
    <3>1. \A i \in 0..N : R[i] = IF i = 0 THEN {b \in within : b \in from}
                                 ELSE NextReach(f, within, R[i-1])
      BY <1>1 DEF IsReach
    <3>2. n + 1 # 0 /\ (n + 1) - 1 = n
      BY <2>1
    <3> QED
      BY <2>1, <3>1, <3>2
  <2>3. NextReach(f, within, R[n]) \subseteq S
    BY <2>1, Zenon DEF NextReach
  <2> QED
    BY <2>2, <2>3
<1> HIDE DEF T
<1>4. Nat \subseteq T
  BY <1>2, <1>3, SetInduction
<1> QED
  BY <1>1, <1>4, NAssumption DEF T

-----------------------------------------------------------------------------
(* Loops: what the definitions of LoopInfo say beyond the simplified form. *)

LEMMA LatchesAre ==
  ASSUME NEW f, NEW h \in Blocks, NEW u \in Latches(f, h)
  PROVE  /\ u \in Preds(f, h) /\ u \in Reachable(f)
         /\ u \notin ReachWithin(f, {Entry}, Blocks \ {h})
BY DEF Latches

\* A set that the entry block is outside of, and that only blocks of the set
\* lead into, has no reachable block.
LEMMA NoWayIn ==
  ASSUME NEW f, NEW S, Entry \notin S,
         \A a \in Blocks \ S : \A b \in S : b \notin Succs(f, a)
  PROVE  \A b \in Reachable(f) : b \in Blocks \ S
<1>1. ReachWithin(f, {Entry}, Blocks) \subseteq Blocks \ S
  <2>1. \A b \in Blocks : b \in {Entry} => b \in Blocks \ S
    OBVIOUS
  <2>2. \A a \in Blocks \ S : \A b \in Blocks : b \in Succs(f, a) => b \in Blocks \ S
    OBVIOUS
  <2> QED
    BY <2>1, <2>2, ReachLeast, Zenon
<1> QED
  BY <1>1 DEF Reachable

LEMMA LoopBody ==
  ASSUME NEW f, NEW h \in Blocks, NEW b \in LoopOf(f, h).blocks, b # h
  PROVE  b \in Reachable(f) /\ ReachWithin(f, {b}, Blocks \ {h}) \cap Latches(f, h) # {}
BY DEF LoopOf

LEMMA EntryInNoLoop ==
  ASSUME NEW f, Preds(f, Entry) = {}, NEW h \in Blocks, Latches(f, h) # {}
  PROVE  Entry \notin LoopOf(f, h).blocks
<1>1. PICK u : u \in Latches(f, h)
  OBVIOUS
<1>2. h # Entry
  BY <1>1, LatchesAre
<1>3. ReachWithin(f, {Entry}, Blocks \ {h}) \cap Latches(f, h) = {}
  BY LatchesAre
<1> QED
  BY <1>2, <1>3, LoopBody

\* The header leads into its loop.
LEMMA HeaderEnters ==
  ASSUME NEW f, NEW h \in Blocks, Preds(f, Entry) = {}, Latches(f, h) # {},
         NEW l, l = LoopOf(f, h), IsSimplified(f, l)
  PROVE  \E b \in l.blocks : b \in Succs(f, h)
<1> SUFFICES ASSUME \A b \in l.blocks : b \notin Succs(f, h) PROVE FALSE
  OBVIOUS
<1>1. l.header = h /\ l.latch \in l.blocks /\ l.latch \in Preds(f, h) /\ h \in l.blocks
      /\ l.blocks \subseteq Blocks
  BY DEF LoopOf, IsSimplified
<1>2. l.latch # h
  BY <1>1 DEF Preds
<1>3. l.latch \in Reachable(f)
  BY <1>1, <1>2, LoopBody
<1> DEFINE S == l.blocks \ {h}
<1>4. Entry \notin S
  BY EntryInNoLoop
<1>5. \A a \in Blocks \ S : \A b \in S : b \notin Succs(f, a)
  <2> SUFFICES ASSUME NEW a \in Blocks \ S, NEW b \in S, b \in Succs(f, a) PROVE FALSE
    OBVIOUS
  <2>1. a \in Preds(f, b)
    BY DEF Preds
  <2>2. a \in l.blocks
    BY <1>1, <2>1 DEF IsSimplified
  <2> QED
    BY <2>2
<1> HIDE DEF S
<1>6. l.latch \notin S
  BY <1>3, <1>4, <1>5, NoWayIn
<1> QED
  BY <1>1, <1>2, <1>6 DEF S

\* In a rotated loop whose header leads to the latch alone there is nothing
\* but the two: the header is the latch's only predecessor.
LEMMA HeaderThenLatch ==
  ASSUME NEW f, NEW h \in Blocks, Preds(f, Entry) = {}, Latches(f, h) # {},
         NEW l, l = LoopOf(f, h), IsSimplified(f, l), l.rotated,
         f.succ[l.latch] \in Seq(Blocks), Len(f.succ[l.latch]) = 2,
         f.succ[h] = <<l.latch>>, h # l.latch
  PROVE  Preds(f, l.latch) = {h}
<1>1. l.header = h /\ l.latch \in l.blocks /\ l.latch \in Preds(f, h) /\ h \in l.blocks
      /\ l.blocks \subseteq Blocks /\ ~(Succs(f, l.latch) \subseteq l.blocks)
  BY DEF LoopOf, IsSimplified
<1>2. Succs(f, h) = {l.latch}
  <2>1. DOMAIN f.succ[h] = {1} /\ f.succ[h][1] = l.latch
    OBVIOUS
  <2> QED
    BY <2>1 DEF Succs
<1>3. \A b \in l.blocks : b \in Succs(f, l.latch) => b = h
  <2>1. h \in Succs(f, l.latch)
    BY <1>1 DEF Preds
  <2>2. PICK i \in DOMAIN f.succ[l.latch] : f.succ[l.latch][i] = h
    BY <2>1 DEF Succs
  <2>3. PICK j \in DOMAIN f.succ[l.latch] : f.succ[l.latch][j] \notin l.blocks
    BY <1>1 DEF Succs
  <2>4. DOMAIN f.succ[l.latch] = {1, 2}
    OBVIOUS
  <2>5. \A m \in DOMAIN f.succ[l.latch] : m = i \/ m = j
    BY <1>1, <2>2, <2>3, <2>4
  <2> QED
    BY <2>2, <2>3, <2>5 DEF Succs
<1> DEFINE S == l.blocks \ {h, l.latch}
<1>4. Entry \notin S
  BY EntryInNoLoop
<1>5. \A a \in Blocks \ S : \A b \in S : b \notin Succs(f, a)
  <2> SUFFICES ASSUME NEW a \in Blocks \ S, NEW b \in S, b \in Succs(f, a) PROVE FALSE
    OBVIOUS
  <2>1. a \in Preds(f, b)
    BY DEF Preds
  <2>2. a \in l.blocks
    BY <1>1, <2>1 DEF IsSimplified
  <2> QED
    BY <1>2, <1>3, <2>2
<1> HIDE DEF S
<1>6. \A b \in Reachable(f) : b \notin S
  BY <1>4, <1>5, NoWayIn
<1>7. ASSUME NEW p \in Preds(f, l.latch)
      PROVE  p = h
  <2>1. p \in l.blocks /\ l.latch \in Succs(f, p)
    BY <1>1 DEF IsSimplified, Preds
  <2>2. p # l.latch
    BY <1>1, <1>3, <2>1
  <2>3. p # h => p \in Reachable(f)
    BY <2>1, LoopBody
  <2> QED
    BY <1>6, <2>1, <2>2, <2>3 DEF S
<1>8. h \in Preds(f, l.latch)
  BY <1>1, <1>2 DEF Preds
<1> QED
  BY <1>7, <1>8

-----------------------------------------------------------------------------

(* What parseLoop may assume of a loop LLVM reports. *)
LoopRecords ==
  [header : Blocks, latch : Blocks, preheader : Blocks, blocks : SUBSET Blocks,
   rotated : BOOLEAN]

LoopContract(f, ls) ==
  /\ ls \subseteq LoopRecords
  /\ \A l \in ls : /\ l.header \in l.blocks
                   /\ IsSimplified(f, l)
                   /\ Entry \notin l.blocks
                   /\ l.rotated = ~(Succs(f, l.latch) \subseteq l.blocks)
                   /\ \E b \in l.blocks : b \in Succs(f, l.header)
                   /\ (/\ l.rotated
                       /\ f.succ[l.header] = <<l.latch>>
                       /\ l.header # l.latch) => Preds(f, l.latch) = {l.header}
  /\ \A k, l \in ls : k.header = l.header => k = l
  /\ LoopsNest(ls)

\* The input does not change and keeps LLVM's contract.
InputOK == IsFunction(g) /\ TerminatorsOK(g) /\ LoopContract(g, loops)

LEMMA LoopContractHolds ==
  ASSUME NEW f, IsFunction(f), WellFormed(f)
  PROVE  LoopContract(f, Loops(f))
<1> DEFINE Hs == {h \in Blocks : Latches(f, h) # {}}
<1>1. ASSUME NEW h \in Hs
      PROVE  /\ IsSimplified(f, LoopOf(f, h))
             /\ LoopOf(f, h) \in LoopRecords
             /\ LoopOf(f, h).header = h
             /\ h \in LoopOf(f, h).blocks
             /\ Entry \notin LoopOf(f, h).blocks
             /\ LoopOf(f, h).rotated = ~(Succs(f, LoopOf(f, h).latch) \subseteq LoopOf(f, h).blocks)
             /\ \E b \in LoopOf(f, h).blocks : b \in Succs(f, h)
             /\ (/\ LoopOf(f, h).rotated
                 /\ f.succ[h] = <<LoopOf(f, h).latch>>
                 /\ h # LoopOf(f, h).latch) => Preds(f, LoopOf(f, h).latch) = {h}
  <2> DEFINE l == LoopOf(f, h)
  <2>1. IsSimplified(f, l)
    BY DEF WellFormed
  <2>2. l.header = h /\ l.blocks \subseteq Blocks /\ l.rotated \in BOOLEAN /\ h \in l.blocks
    BY DEF LoopOf
  <2>3. Preds(f, h) \subseteq Blocks
    BY DEF Preds
  <2>4. {l.latch, l.preheader} \subseteq Blocks
    BY <2>1, <2>2, <2>3 DEF IsSimplified
  <2>5. l = [header |-> l.header, latch |-> l.latch, preheader |-> l.preheader,
             blocks |-> l.blocks, rotated |-> l.rotated]
    BY DEF LoopOf
  <2>6. Preds(f, Entry) = {} /\ Latches(f, h) # {}
    BY DEF WellFormed
  <2>7. l.rotated = ~(Succs(f, l.latch) \subseteq l.blocks)
    BY DEF LoopOf
  <2>8. l.rotated => f.succ[l.latch] \in Seq(Blocks) /\ Len(f.succ[l.latch]) = 2
    BY <2>1, <2>4 DEF IsSimplified, IsFunction, WellFormed, TerminatorsOK
  <2> HIDE DEF l
  <2>9. Entry \notin l.blocks
    BY <2>6, EntryInNoLoop DEF l
  <2>10. \E b \in l.blocks : b \in Succs(f, h)
    BY <2>1, <2>6, HeaderEnters DEF l
  <2>11. l.rotated /\ f.succ[h] = <<l.latch>> /\ h # l.latch => Preds(f, l.latch) = {h}
    BY <2>1, <2>6, <2>8, HeaderThenLatch DEF l
  <2> QED
    BY <2>1, <2>2, <2>4, <2>5, <2>7, <2>9, <2>10, <2>11 DEF LoopRecords, l
<1>2. Loops(f) = {LoopOf(f, h) : h \in Hs}
  BY DEF Loops
<1>3. LoopsNest(Loops(f))
  BY DEF WellFormed
<1> QED
  BY <1>1, <1>2, <1>3 DEF LoopContract

LEMMA InputInit == CFInit => InputOK
  BY LoopContractHolds DEF CFInit, InputOK, WellFormed

-----------------------------------------------------------------------------
(* What the statement builders return. *)

LEMMA ConcatType ==
  ASSUME NEW S, NEW s \in Seq(S), NEW t \in Seq(S)
  PROVE  s \o t \in Seq(S)
OBVIOUS

\* A function over the positions of a sequence is a sequence.
LEMMA MapType ==
  ASSUME NEW S, NEW T, NEW s \in Seq(S),
         NEW f \in [DOMAIN s -> T]
  PROVE  f \in Seq(T)
<1>1. Len(s) \in Nat /\ DOMAIN s = 1..Len(s)
  OBVIOUS
<1> QED
  BY <1>1

LEMMA ConcatLen ==
  ASSUME NEW S, NEW s \in Seq(S), NEW t \in Seq(S)
  PROVE  Len(s \o t) = Len(s) + Len(t) /\ Len(s) \in Nat
OBVIOUS

LEMMA SimpleType ==
  ASSUME NEW op \in StmtOps, NEW a \in Blocks, NEW t \in Blocks
  PROVE  Simple(op, a, t) \in SimpleStmts
BY DEF Simple, SimpleStmts

LEMMA PlainType ==
  ASSUME NEW s \in SimpleStmts
  PROVE  Plain(s) \in Stmts
<1>1. <<>> \in Seq(Seq(SimpleStmts))
  OBVIOUS
<1> QED
  BY <1>1 DEF Plain, Nested, SimpleStmts, Stmts

LEMMA LiftType ==
  ASSUME NEW code \in Seq(SimpleStmts)
  PROVE  Lift(code) \in Seq(Stmts)
<1>1. \A i \in 1..Len(code) : Plain(code[i]) \in Stmts
  BY PlainType
<1> QED
  BY <1>1 DEF Lift

LEMMA PhiAssignmentsType ==
  ASSUME NEW from \in Blocks, NEW to \in Blocks, NEW isLoop \in BOOLEAN,
         NEW isNegated \in BOOLEAN
  PROVE  GeneratePhiAssignments(from, to, isLoop, isNegated) \in Seq(SimpleStmts)
<1> DEFINE s == [Simple(IF isLoop THEN "select" ELSE "phi", from, to) EXCEPT !.neg = isNegated]
<1>1. s \in SimpleStmts
  BY DEF Simple, SimpleStmts, StmtOps
<1> HIDE DEF s
<1>2. <<s>> \in Seq(SimpleStmts) /\ <<>> \in Seq(SimpleStmts)
  BY <1>1
<1> QED
  BY <1>2 DEF GeneratePhiAssignments, s

LEMMA GotoType ==
  ASSUME NEW t \in Blocks
  PROVE  GotoExpr(t) \in SimpleStmts /\ LatchExpr(t) \in SimpleStmts
BY SimpleType DEF GotoExpr, LatchExpr, StmtOps

LEMMA ListOfOneGotoType ==
  ASSUME NEW from \in Blocks, NEW to \in Blocks
  PROVE  ListOfOneGoto(from, to) \in Seq(SimpleStmts)
<1>1. GeneratePhiAssignments(from, to, FALSE, FALSE) \in Seq(SimpleStmts)
  BY PhiAssignmentsType
<1>2. <<GotoExpr(to)>> \in Seq(SimpleStmts)
  BY GotoType
<1> QED
  BY <1>1, <1>2, ConcatType DEF ListOfOneGoto

LEMMA SuccType ==
  ASSUME InputOK, NEW b \in Blocks
  PROVE  /\ g.succ[b] \in Seq(Blocks)
         /\ g.term[b] = "br" => g.succ[b][1] \in Blocks
         /\ g.term[b] = "cond" => g.succ[b][1] \in Blocks /\ g.succ[b][2] \in Blocks
<1>1. g.succ[b] \in Seq(Blocks)
  BY DEF InputOK, IsFunction
<1>2. g.term[b] = "br" => Len(g.succ[b]) = 1
  BY DEF InputOK, TerminatorsOK
<1>3. g.term[b] = "cond" => Len(g.succ[b]) = 2
  BY DEF InputOK, TerminatorsOK
<1> QED
  BY <1>1, <1>2, <1>3

LEMMA ParseBlockType ==
  ASSUME InputOK, NEW b \in Blocks
  PROVE  ParseBlock(b) \in Seq(Stmts)
<1>1. CASE g.term[b] = "ret"
  <2>1. ParseRETURN(b) \in Stmts
    BY SimpleType, PlainType DEF ParseRETURN, StmtOps
  <2> QED
    BY <1>1, <2>1 DEF ParseBlock
<1>2. CASE g.term[b] = "cond"
  <2> DEFINE arms == [i \in 1..2 |-> ListOfOneGoto(b, g.succ[b][i])]
  <2>1. \A i \in 1..2 : ListOfOneGoto(b, g.succ[b][i]) \in Seq(SimpleStmts)
    BY <1>2, SuccType, ListOfOneGotoType
  <2>2. arms \in Seq(Seq(SimpleStmts))
    BY <2>1
  <2> HIDE DEF arms
  <2>3. Nested("if", b, b, FALSE, arms) \in Stmts
    BY <2>2 DEF Nested, Stmts, StmtOps
  <2>4. ParseIF(b) \in Stmts
    BY <2>3 DEF ParseIF, arms
  <2> QED
    BY <1>2, <2>4 DEF ParseBlock
<1>3. CASE g.term[b] = "br"
  <2>1. ParseUncondBranch(b) \in Seq(Stmts)
    BY <1>3, SuccType, ListOfOneGotoType, LiftType DEF ParseUncondBranch
  <2> QED
    BY <1>3, <2>1 DEF ParseBlock
<1>4. CASE g.term[b] \notin {"ret", "cond", "br"}
  BY <1>4 DEF ParseBlock
<1> QED
  BY <1>1, <1>2, <1>3, <1>4

LEMMA InitialCodeType ==
  ASSUME InputOK, NEW b \in Blocks
  PROVE  AfterCreateExpressions(b) \in Seq(Stmts)
<1> DEFINE arms == [i \in 1..Len(g.succ[b]) |-> <<GotoExpr(g.succ[b][i])>>]
<1>1. Body(b) \in Stmts
  BY SimpleType, PlainType DEF Body, StmtOps
<1>2. \A i \in 1..Len(g.succ[b]) : <<GotoExpr(g.succ[b][i])>> \in Seq(SimpleStmts)
  BY SuccType, GotoType
<1>3. Len(g.succ[b]) \in Nat
  BY SuccType
<1>4. arms \in Seq(Seq(SimpleStmts))
  BY <1>2, <1>3
<1> HIDE DEF arms
<1>5. Nested("switch", b, b, FALSE, arms) \in Stmts
  BY <1>4 DEF Nested, Stmts, StmtOps
<1>6. ParseSwitchInstruction(b) \in Stmts
  BY <1>5 DEF ParseSwitchInstruction, arms
<1> QED
  BY <1>1, <1>6 DEF AfterCreateExpressions

LEMMA DropLastType ==
  ASSUME NEW S, NEW code \in Seq(S), code # <<>>
  PROVE  DropLast(code) \in Seq(S)
<1>1. Len(code) \in Nat /\ Len(code) - 1 \in 0..Len(code)
  OBVIOUS
<1>2. \A i \in 1..Len(code)-1 : code[i] \in S
  OBVIOUS
<1> QED
  BY <1>1, <1>2 DEF DropLast

LEMMA LoopBlockType ==
  ASSUME InputOK, NEW l \in loops
  PROVE  /\ l.header \in Blocks /\ l.latch \in Blocks /\ l.preheader \in Blocks
         /\ l.blocks \subseteq Blocks
         /\ l.rotated \in BOOLEAN
         /\ g.term[l.preheader] = "br"
         /\ l.rotated => g.term[l.latch] = "cond"
<1>1. l \in LoopRecords /\ IsSimplified(g, l)
  BY DEF InputOK, LoopContract
<1> QED
  BY <1>1 DEF LoopRecords, IsSimplified

LEMMA DoWhileType ==
  ASSUME InputOK, NEW l \in loops
  PROVE  DoWhile(l) \in Stmts
<1> DEFINE latchPhis == IF l.header = l.latch THEN <<>>
                        ELSE GeneratePhiAssignments(l.header, l.latch, FALSE, Negated(l))
           latchWrap == IF l.header = l.latch \/ HeaderGotoLatch(l) THEN <<>>
                        ELSE <<LatchExpr(l.latch)>>
           headerPhis == GeneratePhiAssignments(l.latch, l.header, TRUE, Negated(l))
<1>1. l.header \in Blocks /\ l.latch \in Blocks /\ Negated(l) \in BOOLEAN
  BY LoopBlockType DEF Negated
<1>2. latchPhis \in Seq(SimpleStmts) /\ headerPhis \in Seq(SimpleStmts)
  <2>1. GeneratePhiAssignments(l.header, l.latch, FALSE, Negated(l)) \in Seq(SimpleStmts)
    BY <1>1, PhiAssignmentsType, Zenon
  <2>2. GeneratePhiAssignments(l.latch, l.header, TRUE, Negated(l)) \in Seq(SimpleStmts)
    BY <1>1, PhiAssignmentsType, Zenon
  <2>3. <<>> \in Seq(SimpleStmts)
    OBVIOUS
  <2> QED
    BY <2>1, <2>2, <2>3, Zenon
<1>3. latchWrap \in Seq(SimpleStmts)
  BY <1>1, GotoType
<1>4. <<GotoExpr(l.header)>> \in Seq(SimpleStmts)
  BY <1>1, GotoType
<1> HIDE DEF latchPhis, latchWrap, headerPhis
<1>5. latchPhis \o <<GotoExpr(l.header)>> \o latchWrap \o headerPhis \in Seq(SimpleStmts)
  BY <1>2, <1>3, <1>4, ConcatType
<1>6. DoWhileBody(l) \in Seq(SimpleStmts)
  BY <1>5 DEF DoWhileBody, latchPhis, latchWrap, headerPhis
<1>7. <<DoWhileBody(l)>> \in Seq(Seq(SimpleStmts))
  BY <1>6
<1> QED
  BY <1>1, <1>7 DEF DoWhile, Nested, Stmts, StmtOps

LEMMA PreheaderCodeType ==
  ASSUME InputOK, NEW l \in loops, l.rotated, exprs[l.preheader] \in Seq(Stmts)
  PROVE  PreheaderCode(l) \in Seq(Stmts)
<1> DEFINE p == l.preheader
           own == exprs[p] \o ParseBlock(p)
           way == Lift(ListOfOneGoto(l.latch, AfterDoWhile(l)))
<1>1. p \in Blocks /\ l.latch \in Blocks /\ g.term[p] = "br" /\ g.term[l.latch] = "cond"
  BY LoopBlockType
<1>2. ParseBlock(p) \in Seq(Stmts)
  BY <1>1, ParseBlockType
<1>3. Len(ParseBlock(p)) > 0
  <2>1. ParseBlock(p) = Lift(ListOfOneGoto(p, g.succ[p][1]))
    BY <1>1 DEF ParseBlock, ParseUncondBranch
  <2>2. g.succ[p][1] \in Blocks
    BY <1>1, SuccType
  <2> DEFINE phis == GeneratePhiAssignments(p, g.succ[p][1], FALSE, FALSE)
             last == <<GotoExpr(g.succ[p][1])>>
  <2>3. phis \in Seq(SimpleStmts)
    BY <1>1, <2>2, PhiAssignmentsType
  <2>4. last \in Seq(SimpleStmts) /\ Len(last) = 1
    BY <2>2, GotoType
  <2> HIDE DEF phis, last
  <2>5. phis \o last \in Seq(SimpleStmts) /\ Len(phis \o last) > 0
    <3>1. phis \o last \in Seq(SimpleStmts)
      BY <2>3, <2>4, ConcatType
    <3>2. Len(phis \o last) = Len(phis) + Len(last) /\ Len(phis) \in Nat
      BY <2>3, <2>4, ConcatLen, Zenon
    <3> QED
      BY <2>4, <3>1, <3>2
  <2>6. ListOfOneGoto(p, g.succ[p][1]) = phis \o last
    BY DEF ListOfOneGoto, phis, last
  <2>7. Len(Lift(phis \o last)) = Len(phis \o last)
    BY <2>5 DEF Lift
  <2> QED
    BY <2>1, <2>5, <2>6, <2>7
<1>4. own \in Seq(Stmts) /\ own # <<>>
  <2> HIDE DEF p
  <2>1. exprs[p] \in Seq(Stmts)
    BY DEF p
  <2> QED
    BY <1>2, <1>3, <2>1
<1>5. DropLast(own) \in Seq(Stmts)
  BY <1>4, DropLastType
<1>6. <<DoWhile(l)>> \in Seq(Stmts)
  BY DoWhileType
<1>7. way \in Seq(Stmts)
  <2>1. AfterDoWhile(l) \in Blocks
    BY <1>1, SuccType DEF AfterDoWhile
  <2> QED
    BY <1>1, <2>1, ListOfOneGotoType, LiftType
<1> HIDE DEF way, own
<1>8. DropLast(own) \o <<DoWhile(l)>> \o way \in Seq(Stmts)
  BY <1>5, <1>6, <1>7, ConcatType
<1> QED
  BY <1>8 DEF PreheaderCode, way, own

LEMMA ParseUnhandledType ==
  ASSUME InputOK, NEW bs, NEW handled,
         NEW code \in [Blocks -> Seq(Stmts)]
  PROVE  ParseUnhandled(bs, code, handled) \in [Blocks -> Seq(Stmts)]
<1>1. \A b \in Blocks : code[b] \o ParseBlock(b) \in Seq(Stmts)
  BY ParseBlockType, ConcatType
<1> QED
  BY <1>1 DEF ParseUnhandled

LEMMA MarkHandledType ==
  ASSUME NEW bs, NEW handled \in [Blocks -> BOOLEAN]
  PROVE  MarkHandled(bs, handled) \in [Blocks -> BOOLEAN]
BY DEF MarkHandled, HasParsedTerminator

LEMMA SpliceType ==
  ASSUME NEW code \in Seq(Stmts)
  PROVE  SpliceGotos(code) \in Seq(Stmts)
<1>1. ASSUME NEW s \in SimpleStmts
      PROVE  Splice(s) \in SimpleStmts
  BY DEF Splice, SimpleStmts, StmtOps
<1>2. ASSUME NEW s \in Stmts
      PROVE  Splice(s) \in Stmts
  BY DEF Splice, Stmts, StmtOps
<1>3. ASSUME NEW s \in Stmts
      PROVE  SpliceArms(s) \in Stmts
  <2> DEFINE arms == [a \in DOMAIN s.arms |->
                        [i \in DOMAIN s.arms[a] |-> Splice(s.arms[a][i])]]
  <2>1. s.arms \in Seq(Seq(SimpleStmts))
    BY DEF Stmts
  <2>2. ASSUME NEW a \in DOMAIN s.arms
        PROVE  [i \in DOMAIN s.arms[a] |-> Splice(s.arms[a][i])] \in Seq(SimpleStmts)
    <3> DEFINE arm == s.arms[a]
    <3>1. arm \in Seq(SimpleStmts)
      BY <2>1
    <3> HIDE DEF arm
    <3>2. [i \in DOMAIN arm |-> Splice(arm[i])] \in [DOMAIN arm -> SimpleStmts]
      <4>1. \A i \in DOMAIN arm : arm[i] \in SimpleStmts
        BY <3>1
      <4> QED
        BY <4>1, <1>1, Zenon
    <3>3. [i \in DOMAIN arm |-> Splice(arm[i])] \in Seq(SimpleStmts)
      BY <3>1, <3>2, MapType, Zenon
    <3> QED
      BY <3>3 DEF arm
  <2>3. arms \in [DOMAIN s.arms -> Seq(SimpleStmts)]
    BY <2>2, Zenon
  <2> HIDE DEF arms
  <2>4. arms \in Seq(Seq(SimpleStmts))
    BY <2>1, <2>3, MapType, Zenon
  <2>5. [s EXCEPT !.arms = arms] \in Stmts
    BY <2>4 DEF Stmts
  <2> QED
    BY <2>5 DEF SpliceArms, arms
<1>4. \A i \in DOMAIN code : SpliceArms(Splice(code[i])) \in Stmts
  BY <1>2, <1>3
<1> QED
  BY <1>4 DEF SpliceGotos

LEMMA TargetsType ==
  ASSUME NEW code \in Seq(Stmts)
  PROVE  GotoTargets(code) \subseteq Blocks
<1>1. \A i \in DOMAIN code : code[i].to \in Blocks /\ code[i].arms \in Seq(Seq(SimpleStmts))
  <2>1. \A i \in DOMAIN code : code[i] \in Stmts
    OBVIOUS
  <2>2. \A s \in Stmts : s.to \in Blocks /\ s.arms \in Seq(Seq(SimpleStmts))
    BY DEF Stmts
  <2> QED
    BY <2>1, <2>2, Zenon
<1>2. ASSUME NEW i \in DOMAIN code, NEW a \in DOMAIN code[i].arms,
             NEW j \in DOMAIN code[i].arms[a]
      PROVE  code[i].arms[a][j].to \in Blocks
  <2> DEFINE arms == code[i].arms
             arm == arms[a]
  <2>1. arms \in Seq(Seq(SimpleStmts))
    BY <1>1
  <2> HIDE DEF arms
  <2>2. arm \in Seq(SimpleStmts)
    BY <2>1, <1>2 DEF arms
  <2>3. j \in DOMAIN arm
    BY <1>2 DEF arms
  <2> HIDE DEF arm
  <2>4. arm[j] \in SimpleStmts
    BY <2>2, <2>3
  <2> QED
    BY <2>4 DEF SimpleStmts, arm, arms
<1>3. ASSUME NEW t \in GotoTargets(code)
      PROVE  t \in Blocks
  <2>1. CASE \E i \in DOMAIN code : t = code[i].to
    BY <2>1, <1>1, Zenon
  <2>2. CASE \E i \in DOMAIN code : \E a \in DOMAIN code[i].arms :
               \E j \in DOMAIN code[i].arms[a] : t = code[i].arms[a][j].to
    BY <2>2, <1>2, Zenon
  <2> DEFINE InArm(arm) == {arm[i].to : i \in {j \in DOMAIN arm : arm[j].op = "goto"}}
             Arms(i) == {code[i].arms[a] : a \in DOMAIN code[i].arms}
             InArms == UNION {UNION {InArm(arm) : arm \in Arms(i)} : i \in DOMAIN code}
  <2>3. CASE t \in InArms
    <3>1. PICK i \in DOMAIN code : t \in UNION {InArm(arm) : arm \in Arms(i)}
      BY <2>3, Zenon
    <3>2. PICK arm \in Arms(i) : t \in InArm(arm)
      BY <3>1, Zenon
    <3>3. PICK a \in DOMAIN code[i].arms : arm = code[i].arms[a]
      BY <3>2, Zenon
    <3>4. PICK j \in DOMAIN arm : t = arm[j].to
      BY <3>2, Zenon
    <3> QED
      BY <2>2, <3>3, <3>4, Zenon
  <2>4. t \in {code[i].to : i \in {j \in DOMAIN code : code[j].op = "goto"}} \/ t \in InArms
    BY <1>3, Zenon DEF GotoTargets
  <2> QED
    BY <2>1, <2>3, <2>4, Zenon
<1> QED
  BY <1>3, Zenon

LEMMA ActivationType ==
  ASSUME CFTypeOK, NEW b \in Blocks
  PROVE  Activation(b) \in Activations
<1>1. GotoTargets(exprs[b]) \subseteq Blocks
  BY TargetsType DEF CFTypeOK
<1> QED
  BY <1>1 DEF Activation, Activations

-----------------------------------------------------------------------------
(* CFTypeOK is not inductive: a container is left only while it is a block, *)
(* and the builders return statements only for inputs LLVM guarantees.      *)
TypeInv ==
  /\ InputOK
  /\ CFTypeOK
  /\ stack # <<>> => container \in Blocks

LEMMA TypeInvInit == CFInit => TypeInv
<1> SUFFICES ASSUME CFInit PROVE TypeInv
  OBVIOUS
<1>1. InputOK
  BY InputInit
<1>2. \A b \in Blocks : AfterCreateExpressions(b) \in Seq(Stmts)
  BY <1>1, InitialCodeType
<1>3. exprs \in [Blocks -> Seq(Stmts)]
  BY <1>2 DEF CFInit
<1>4. 0 \in 0..N+1
  BY NAssumption
<1> QED
  BY <1>1, <1>3, <1>4 DEF CFInit, TypeInv, CFTypeOK, Passes

LEMMA ParseLoopType ==
  ASSUME TypeInv, NEW l \in loops, ParseLoop(l)
  PROVE  TypeInv'
<1> USE DEF TypeInv
<1>1. InputOK'
  BY DEF ParseLoop, inputVars, InputOK
<1>2. l.header \in Blocks /\ l.latch \in Blocks /\ l.preheader \in Blocks
  BY LoopBlockType
<1>3. /\ exprs' \in [Blocks -> Seq(Stmts)]
      /\ brHandled' \in [Blocks -> BOOLEAN]
      /\ doInline' \in [Blocks -> BOOLEAN]
  <2>1. CASE l.rotated
    <3> DEFINE handled == [MarkHandled({l.preheader}, brHandled) EXCEPT ![l.latch] = TRUE]
               code == [exprs EXCEPT ![l.preheader] = PreheaderCode(l)]
    <3>1. PreheaderCode(l) \in Seq(Stmts)
      BY <1>2, <2>1, PreheaderCodeType DEF CFTypeOK
    <3>2. code \in [Blocks -> Seq(Stmts)]
      BY <3>1, <1>2 DEF CFTypeOK
    <3>3. handled \in [Blocks -> BOOLEAN]
      BY <1>2, MarkHandledType DEF CFTypeOK
    <3>4. /\ exprs' = ParseUnhandled(l.blocks, code, handled)
          /\ brHandled' = MarkHandled(l.blocks, handled)
          /\ doInline' = [doInline EXCEPT ![l.header] = TRUE]
      BY <2>1 DEF ParseLoop, ParseRotatedLoop
    <3> HIDE DEF code, handled
    <3>5. exprs' \in [Blocks -> Seq(Stmts)]
      BY <3>2, <3>4, ParseUnhandledType
    <3>6. brHandled' \in [Blocks -> BOOLEAN]
      BY <3>3, <3>4, MarkHandledType
    <3> QED
      BY <1>2, <3>4, <3>5, <3>6 DEF CFTypeOK
  <2>2. CASE ~l.rotated
    <3>1. /\ exprs' = ParseUnhandled(l.blocks, exprs, brHandled)
          /\ brHandled' = MarkHandled(l.blocks, brHandled)
          /\ doInline' = doInline
      BY <2>2 DEF ParseLoop, ParseUnrotatedLoop
    <3> QED
      BY <3>1, ParseUnhandledType, MarkHandledType DEF CFTypeOK
  <2> QED
    BY <2>1, <2>2
<1> QED
  BY <1>1, <1>3 DEF ParseLoop, inputVars, CFTypeOK

LEMMA ParseRemainingType ==
  ASSUME TypeInv, ParseRemainingBlocks
  PROVE  TypeInv'
<1> USE DEF TypeInv
<1>1. InputOK'
  BY DEF ParseRemainingBlocks, inputVars, InputOK
<1>2. exprs' \in [Blocks -> Seq(Stmts)] /\ brHandled' \in [Blocks -> BOOLEAN]
  BY ParseUnhandledType, MarkHandledType DEF ParseRemainingBlocks, CFTypeOK
<1> QED
  BY <1>1, <1>2 DEF ParseRemainingBlocks, inputVars, CFTypeOK, Passes

LEMMA InliningType ==
  ASSUME TypeInv, Inlining
  PROVE  TypeInv'
<1> USE DEF TypeInv
<1>1. InputOK'
  BY DEF Inlining, VisitContainer, InlineGoto, FinishTarget, FinishContainer, inputVars, InputOK
<1>2. CASE VisitContainer
  <2>1. <<Activation(container)>> \in Seq(Activations)
    BY <1>2, ActivationType DEF VisitContainer
  <2> QED
    BY <1>1, <1>2, <2>1 DEF VisitContainer, inputVars, codeVars, CFTypeOK
<1>3. ASSUME NEW t \in Blocks, InlineGoto(t)
      PROVE  TypeInv'
  <2> DEFINE below == [stack EXCEPT ![Len(stack)].todo = @ \ {t}]
  <2>1. stack \in Seq(Activations) /\ Len(stack) \in DOMAIN stack
    BY <1>3 DEF InlineGoto, CFTypeOK
  <2>2. [stack[Len(stack)] EXCEPT !.todo = @ \ {t}] \in Activations
    <3>1. stack[Len(stack)] \in Activations
      BY <2>1
    <3>2. ASSUME NEW act \in Activations
          PROVE  [act EXCEPT !.todo = @ \ {t}] \in Activations
      BY DEF Activations
    <3> QED
      BY <3>1, <3>2, Zenon
  <2>3. below \in Seq(Activations)
    BY <2>1, <2>2
  <2> HIDE DEF below
  <2>4. Append(below, Activation(t)) \in Seq(Activations)
    BY <2>3, ActivationType
  <2>5. stack' = Append(below, Activation(t))
    BY <1>3 DEF InlineGoto, below
  <2> QED
    BY <1>1, <1>3, <2>4, <2>5 DEF InlineGoto, inputVars, codeVars, CFTypeOK
<1>4. CASE FinishTarget
  <2>1. stack \in Seq(Activations) /\ stack # <<>>
    BY <1>4 DEF FinishTarget, CFTypeOK
  <2>2. DropLast(stack) \in Seq(Activations)
    BY <2>1, DropLastType
  <2> QED
    BY <1>1, <1>4, <2>1, <2>2 DEF FinishTarget, inputVars, codeVars, CFTypeOK
<1>5. CASE FinishContainer
  <2>1. container \in Blocks
    <3>1. stack # <<>>
      BY <1>5 DEF FinishContainer
    <3> QED
      BY <3>1
  <2>2. SpliceGotos(exprs[container]) \in Seq(Stmts)
    BY <2>1, SpliceType DEF CFTypeOK
  <2>3. exprs' = [exprs EXCEPT ![container] = SpliceGotos(exprs[container])]
    BY <1>5 DEF FinishContainer
  <2>4. exprs' \in [Blocks -> Seq(Stmts)]
    BY <2>1, <2>2, <2>3 DEF CFTypeOK
  <2>5. container + 1 \in 0..N+1
    BY <2>1, NAssumption DEF Blocks
  <2> QED
    BY <1>1, <1>5, <2>4, <2>5 DEF FinishContainer, inputVars, CFTypeOK
<1> QED
  BY <1>2, <1>3, <1>4, <1>5 DEF Inlining

LEMMA TypeInvStep == TypeInv /\ [CFNext]_cfVars => TypeInv'
<1> SUFFICES ASSUME TypeInv, [CFNext]_cfVars PROVE TypeInv'
  OBVIOUS
<1> USE DEF TypeInv
<1>1. ASSUME NEW l \in loops, ParseLoop(l) PROVE TypeInv'
  BY <1>1, ParseLoopType
<1>2. CASE ParseRemainingBlocks
  BY <1>2, ParseRemainingType
<1>3. CASE IdentifyInlinableBlocks
  <2>1. doInline' \in [Blocks -> BOOLEAN]
    BY <1>3 DEF IdentifyInlinableBlocks
  <2> QED
    BY <1>3, <2>1 DEF IdentifyInlinableBlocks, inputVars, InputOK, CFTypeOK, Passes
<1>4. CASE DoNotInlineLatches
  <2>1. doInline' \in [Blocks -> BOOLEAN]
    BY <1>4 DEF DoNotInlineLatches, CFTypeOK, LatchStaysInline
  <2>2. 1 \in 0..N+1 /\ 1 \in Blocks
    BY NAssumption DEF Blocks
  <2> QED
    BY <1>4, <2>1, <2>2 DEF DoNotInlineLatches, inputVars, InputOK, CFTypeOK, Passes
<1>5. CASE Inlining
  BY <1>5, InliningType
<1>6. CASE MarkLatchBlockAsInlined
  <2>1. doInline' \in [Blocks -> BOOLEAN]
    BY <1>6 DEF MarkLatchBlockAsInlined, CFTypeOK
  <2> QED
    BY <1>6, <2>1 DEF MarkLatchBlockAsInlined, inputVars, InputOK, CFTypeOK, Passes
<1>7. CASE UNCHANGED cfVars
  BY <1>7 DEF cfVars, inputVars, codeVars, InputOK, CFTypeOK
<1> QED
  BY <1>1, <1>2, <1>3, <1>4, <1>5, <1>6, <1>7 DEF CFNext

\* The passes keep every variable in its type, for functions of every size:
\* no pass builds a statement without a block, leaves the containers' range or
\* pops an empty expression list (parseBreaks.cpp pops the preheader's goto).
THEOREM CFTypeCorrect == CFSpec => []CFTypeOK
<1>1. CFInit => TypeInv
  BY TypeInvInit
<1>2. TypeInv /\ [CFNext]_cfVars => TypeInv'
  BY TypeInvStep
<1>3. TypeInv => CFTypeOK
  BY DEF TypeInv
<1> QED
  BY <1>1, <1>2, <1>3, PTL DEF CFSpec

-----------------------------------------------------------------------------
(* Which blocks parseBreaks has handled so far: those of the loops it has  *)
(* parsed and the preheaders of the rotated ones, and a loop is parsed     *)
(* after its sub-loops.                                                    *)
HandledInLoops ==
  \A b \in Blocks : brHandled[b] =>
    \E k \in parsed : b \in k.blocks \/ (k.rotated /\ b = k.preheader)

SubLoopsParsed == \A k \in parsed : \A j \in loops : IsSubLoop(j, k) => j \in parsed

HandledInv ==
  /\ TypeInv
  /\ pass = "parseBreaks" =>
       /\ \A b \in Blocks : ~brHandled[b] => exprs[b] = AfterCreateExpressions(b)
       /\ HandledInLoops
       /\ SubLoopsParsed
  /\ pass # "parseBreaks" => \A b \in Blocks : HasParsedTerminator(b) => brHandled[b]

\* The facts about a loop of LLVM's contract, one by one.
LEMMA LoopFacts ==
  ASSUME InputOK, NEW l \in loops
  PROVE  /\ l.header \in l.blocks /\ l.latch \in l.blocks /\ l.preheader \notin l.blocks
         /\ l.header \in Blocks /\ l.latch \in Blocks /\ l.preheader \in Blocks
         /\ l.blocks \subseteq Blocks
         /\ Preds(g, l.header) = {l.latch, l.preheader}
         /\ \A b \in l.blocks \ {l.header} : Preds(g, b) \subseteq l.blocks
         /\ \A b \in l.blocks : \A e \in Succs(g, b) \ l.blocks : Preds(g, e) \subseteq l.blocks
         /\ g.term[l.preheader] = "br"
         /\ l.rotated => g.term[l.latch] = "cond"
  BY LoopBlockType DEF InputOK, LoopContract, IsSimplified

LEMMA OverlapNests ==
  ASSUME InputOK, NEW k \in loops, NEW l \in loops, NEW b, b \in k.blocks, b \in l.blocks
  PROVE  k.blocks \subseteq l.blocks \/ l.blocks \subseteq k.blocks
<1>1. k.blocks \cap l.blocks # {}
  OBVIOUS
<1> QED
  BY <1>1 DEF InputOK, LoopContract, LoopsNest

\* A block of another loop leads to l's header only if it is in a loop that
\* has l inside.
LEMMA PreheaderElsewhere ==
  ASSUME InputOK, NEW k \in loops, NEW l \in loops, ~(l.blocks \subseteq k.blocks)
  PROVE  l.preheader \notin k.blocks /\ l.latch \notin k.blocks
<1> DEFINE h == l.header
<1>1. /\ h \in l.blocks /\ l.latch \in l.blocks /\ l.preheader \notin l.blocks
      /\ h \in Blocks /\ Preds(g, h) = {l.latch, l.preheader}
  BY LoopFacts
<1>2. h \in Succs(g, l.preheader) /\ h \in Succs(g, l.latch)
  BY <1>1 DEF Preds
<1>3. ASSUME NEW p \in {l.latch, l.preheader}, p \in k.blocks
      PROVE  l.preheader \in k.blocks /\ l.latch \in k.blocks
  <2>1. CASE h \notin k.blocks
    <3>1. Preds(g, h) \subseteq k.blocks
      BY <1>2, <1>3, <2>1, LoopFacts
    <3> QED
      BY <1>1, <3>1
  <2>2. CASE h \in k.blocks /\ h # k.header
    <3>1. Preds(g, h) \subseteq k.blocks
      BY <2>2, LoopFacts
    <3> QED
      BY <1>1, <3>1
  <2>3. CASE h = k.header
    <3>1. k = l
      BY <2>3 DEF InputOK, LoopContract
    <3> QED
      BY <3>1
  <2> QED
    BY <2>1, <2>2, <2>3
<1>4. ASSUME l.preheader \in k.blocks, l.latch \in k.blocks
      PROVE  FALSE
  <2>1. k.blocks \subseteq l.blocks \/ l.blocks \subseteq k.blocks
    BY <1>1, <1>4, OverlapNests
  <2> QED
    BY <1>1, <1>4, <2>1
<1> QED
  BY <1>3, <1>4

\* A preheader belongs to one loop, and is no latch of a rotated one.
LEMMA PreheaderOfOneLoop ==
  ASSUME InputOK, NEW k \in loops, NEW l \in loops, k # l
  PROVE  k.preheader # l.preheader /\ (l.rotated => l.latch # k.preheader)
<1>1. ASSUME k.preheader = l.preheader
      PROVE  FALSE
  <2> DEFINE p == l.preheader
  <2>1. p \in Blocks /\ g.term[p] = "br"
    BY LoopFacts
  <2>2. Len(g.succ[p]) = 1 /\ g.succ[p] \in Seq(Blocks)
    BY <2>1, SuccType DEF InputOK, TerminatorsOK
  <2>3. \A b \in Succs(g, p) : b = g.succ[p][1]
    BY <2>2 DEF Succs
  <2>4. p \in Preds(g, l.header) /\ p \in Preds(g, k.header)
    BY <1>1, LoopFacts
  <2>5. l.header = k.header
    BY <2>3, <2>4 DEF Preds
  <2> QED
    BY <2>5 DEF InputOK, LoopContract
<1>2. l.rotated => l.latch # k.preheader
  BY LoopFacts
<1> QED
  BY <1>1, <1>2

LEMMA HandledImplied == HandledInv => HandledOnce
<1> SUFFICES ASSUME HandledInv PROVE HandledOnce
  OBVIOUS
<1>1. ASSUME pass = "parseBreaks", NEW l \in loops \ parsed, l.rotated
      PROVE  ~brHandled[l.preheader] /\ ~brHandled[l.latch]
  <2>1. InputOK /\ HandledInLoops /\ SubLoopsParsed /\ parsed \subseteq loops
    BY <1>1 DEF HandledInv, TypeInv, CFTypeOK
  <2>2. ASSUME NEW k \in parsed
        PROVE  /\ l.preheader \notin k.blocks /\ l.latch \notin k.blocks
               /\ l.preheader # k.preheader /\ l.latch # k.preheader
    <3>1. k \in loops /\ k # l
      BY <2>1
    <3>2. ~(l.blocks \subseteq k.blocks)
      BY <2>1, <3>1 DEF SubLoopsParsed, IsSubLoop
    <3> QED
      BY <1>1, <2>1, <3>1, <3>2, PreheaderElsewhere, PreheaderOfOneLoop
  <2>3. l.preheader \in Blocks /\ l.latch \in Blocks
    BY <2>1, LoopFacts
  <2> QED
    BY <2>1, <2>2, <2>3 DEF HandledInLoops
<1> QED
  BY <1>1 DEF HandledInv, HandledOnce

\* Nothing is appended for a block without a terminator to parse.
LEMMA NothingToParse ==
  ASSUME NEW b \in Blocks, ~HasParsedTerminator(b), NEW code \in Seq(Stmts)
  PROVE  code \o ParseBlock(b) = code
<1>1. ParseBlock(b) = <<>>
  BY DEF HasParsedTerminator, ParseBlock
<1> QED
  BY <1>1

LEMMA HandledInvParseLoop ==
  ASSUME HandledInv, NEW l \in loops, ParseLoop(l)
  PROVE  HandledInv'
<1>1. TypeInv'
  BY ParseLoopType DEF HandledInv
<1>2. /\ InputOK /\ exprs \in [Blocks -> Seq(Stmts)] /\ brHandled \in [Blocks -> BOOLEAN]
      /\ parsed \subseteq loops
      /\ pass = "parseBreaks" /\ pass' = "parseBreaks" /\ parsed' = parsed \cup {l}
      /\ g' = g /\ loops' = loops
      /\ \A k \in loops : IsSubLoop(k, l) => k \in parsed
      /\ HandledInLoops /\ SubLoopsParsed
      /\ \A b \in Blocks : ~brHandled[b] => exprs[b] = AfterCreateExpressions(b)
  BY DEF HandledInv, TypeInv, CFTypeOK, ParseLoop, inputVars
<1>3. l.preheader \in Blocks /\ l.latch \in l.blocks /\ l.latch \in Blocks
      /\ g.term[l.preheader] = "br" /\ (l.rotated => g.term[l.latch] = "cond")
  BY <1>2, LoopFacts
<1>4. ASSUME NEW b \in Blocks
      PROVE  /\ brHandled'[b] => \/ brHandled[b]
                                 \/ b \in l.blocks
                                 \/ l.rotated /\ b = l.preheader
             /\ ~brHandled'[b] => ~brHandled[b] /\ exprs'[b] = exprs[b]
  <2>1. CASE l.rotated
    <3> DEFINE handled == [MarkHandled({l.preheader}, brHandled) EXCEPT ![l.latch] = TRUE]
               code == [exprs EXCEPT ![l.preheader] = PreheaderCode(l)]
    <3>1. /\ exprs' = ParseUnhandled(l.blocks, code, handled)
          /\ brHandled' = MarkHandled(l.blocks, handled)
      BY <2>1 DEF ParseLoop, ParseRotatedLoop
    <3>2. /\ handled[b] => \/ brHandled[b] \/ b = l.latch \/ b = l.preheader
          /\ ~handled[b] => ~brHandled[b] /\ b # l.latch /\ b # l.preheader
      BY <1>3 DEF MarkHandled, HasParsedTerminator
    <3>3. b # l.preheader => code[b] = exprs[b]
      BY <1>2
    <3> HIDE DEF handled, code
    <3>4. brHandled'[b] = (handled[b] \/ (b \in l.blocks /\ HasParsedTerminator(b)))
      BY <3>1 DEF MarkHandled
    <3>5. exprs'[b] = IF b \in l.blocks /\ ~handled[b] THEN code[b] \o ParseBlock(b) ELSE code[b]
      BY <3>1 DEF ParseUnhandled
    <3>6. brHandled'[b] => brHandled[b] \/ b \in l.blocks \/ b = l.preheader
      BY <1>3, <3>2, <3>4
    <3>7. ASSUME ~brHandled'[b]
          PROVE  ~brHandled[b] /\ exprs'[b] = exprs[b]
      <4>1. ~handled[b] /\ ~brHandled[b] /\ code[b] = exprs[b]
        BY <3>2, <3>3, <3>4, <3>7
      <4>2. exprs[b] \in Seq(Stmts)
        BY <1>2
      <4>3. b \in l.blocks => exprs[b] \o ParseBlock(b) = exprs[b]
        BY <3>4, <3>7, <4>2, NothingToParse
      <4> QED
        BY <3>5, <4>1, <4>3
    <3> QED
      BY <2>1, <3>6, <3>7
  <2>2. CASE ~l.rotated
    <3>1. /\ exprs' = ParseUnhandled(l.blocks, exprs, brHandled)
          /\ brHandled' = MarkHandled(l.blocks, brHandled)
      BY <2>2 DEF ParseLoop, ParseUnrotatedLoop
    <3>2. brHandled'[b] = (brHandled[b] \/ (b \in l.blocks /\ HasParsedTerminator(b)))
      BY <3>1 DEF MarkHandled
    <3>3. exprs'[b] = IF b \in l.blocks /\ ~brHandled[b] THEN exprs[b] \o ParseBlock(b) ELSE exprs[b]
      BY <3>1 DEF ParseUnhandled
    <3>4. exprs[b] \in Seq(Stmts)
      BY <1>2
    <3>5. ~HasParsedTerminator(b) => exprs[b] \o ParseBlock(b) = exprs[b]
      BY <3>4, NothingToParse
    <3> QED
      BY <3>2, <3>3, <3>5
  <2> QED
    BY <2>1, <2>2
<1>5. \A b \in Blocks : ~brHandled'[b] => exprs'[b] = AfterCreateExpressions(b)
  BY <1>2, <1>4
<1>6. \A b \in Blocks : brHandled'[b] =>
        \E k \in parsed' : b \in k.blocks \/ (k.rotated /\ b = k.preheader)
  BY <1>2, <1>4 DEF HandledInLoops
<1>7. \A k \in parsed' : \A j \in loops : IsSubLoop(j, k) => j \in parsed'
  BY <1>2 DEF SubLoopsParsed
<1>8. \A b \in Blocks : AfterCreateExpressions(b)' = AfterCreateExpressions(b)
  BY <1>2 DEF AfterCreateExpressions, ParseSwitchInstruction
<1> QED
  BY <1>1, <1>2, <1>5, <1>6, <1>7, <1>8
     DEF HandledInv, HandledInLoops, SubLoopsParsed

LEMMA HandledInvStep == HandledInv /\ [CFNext]_cfVars => HandledInv'
<1> SUFFICES ASSUME HandledInv, [CFNext]_cfVars PROVE HandledInv'
  OBVIOUS
<1>1. TypeInv'
  BY TypeInvStep DEF HandledInv
<1>2. ASSUME NEW l \in loops, ParseLoop(l) PROVE HandledInv'
  BY <1>2, HandledInvParseLoop
<1>3. CASE ParseRemainingBlocks
  <2>1. brHandled' = MarkHandled(Blocks, brHandled) /\ g' = g /\ pass' # "parseBreaks"
    BY <1>3 DEF ParseRemainingBlocks, inputVars
  <2>2. \A b \in Blocks : HasParsedTerminator(b)' => brHandled'[b]
    BY <2>1 DEF MarkHandled, HasParsedTerminator
  <2> QED
    BY <1>1, <2>1, <2>2 DEF HandledInv
<1>4. ASSUME pass # "parseBreaks", pass' # "parseBreaks", brHandled' = brHandled, g' = g
      PROVE  HandledInv'
  BY <1>1, <1>4 DEF HandledInv, HasParsedTerminator
<1>5. CASE IdentifyInlinableBlocks
  BY <1>4, <1>5 DEF IdentifyInlinableBlocks, inputVars
<1>6. CASE DoNotInlineLatches
  BY <1>4, <1>6 DEF DoNotInlineLatches, inputVars
<1>7. CASE Inlining
  BY <1>4, <1>7 DEF Inlining, VisitContainer, InlineGoto, FinishTarget, FinishContainer,
                    inputVars, codeVars
<1>8. CASE MarkLatchBlockAsInlined
  BY <1>4, <1>8 DEF MarkLatchBlockAsInlined, inputVars
<1>9. CASE UNCHANGED cfVars
  BY <1>1, <1>9 DEF cfVars, inputVars, codeVars, HandledInv, HandledInLoops, SubLoopsParsed,
                    HasParsedTerminator, AfterCreateExpressions, ParseSwitchInstruction
<1> QED
  BY <1>2, <1>3, <1>5, <1>6, <1>7, <1>8, <1>9 DEF CFNext

\* parseBreaks turns each terminator into statements once, for functions of
\* every size and every order of their loops: parseLoop's parse of a preheader
\* and its pop_back, done without a look at brHandled, find it untouched.
THEOREM EachTerminatorHandledOnce == CFSpec => []HandledOnce
<1>1. CFInit => HandledInv
  BY TypeInvInit DEF CFInit, HandledInv, HandledInLoops, SubLoopsParsed
<1>2. HandledInv /\ [CFNext]_cfVars => HandledInv'
  BY HandledInvStep
<1>3. HandledInv => HandledOnce
  BY HandledImplied
<1> QED
  BY <1>1, <1>2, <1>3, PTL DEF CFSpec

-----------------------------------------------------------------------------
(***************************************************************************)
(* What the passes make of every block: the statements each block has when *)
(* the writer starts.                                                      *)
(***************************************************************************)

Rotated == {l \in loops : l.rotated}

RotatedPreheaders == {l.preheader : l \in Rotated}

LoopAt(p) == CHOOSE l \in Rotated : l.preheader = p

-----------------------------------------------------------------------------
(* Rotated loops, from LLVM's contract. *)

LEMMA RotatedFacts ==
  ASSUME InputOK, NEW l \in Rotated
  PROVE  /\ l \in loops /\ l.rotated
         /\ l.header \in Blocks /\ l.latch \in Blocks /\ l.preheader \in Blocks
         /\ l.header \in l.blocks /\ l.latch \in l.blocks /\ l.preheader \notin l.blocks
         /\ l.header # Entry /\ l.latch # Entry
         /\ g.term[l.latch] = "cond" /\ g.term[l.preheader] = "br"
         /\ g.succ[l.latch] \in Seq(Blocks) /\ Len(g.succ[l.latch]) = 2
         /\ DOMAIN g.succ[l.latch] = {1, 2}
         /\ g.succ[l.preheader] \in Seq(Blocks) /\ Len(g.succ[l.preheader]) = 1
         /\ g.succ[l.preheader][1] = l.header
         /\ AfterDoWhile(l) \in Blocks /\ AfterDoWhile(l) \notin l.blocks
         /\ \/ /\ g.succ[l.latch][1] = l.header /\ g.succ[l.latch][2] = AfterDoWhile(l)
               /\ Negated(l) = FALSE
            \/ /\ g.succ[l.latch][2] = l.header /\ g.succ[l.latch][1] = AfterDoWhile(l)
               /\ Negated(l) = TRUE
<1>1. l \in loops /\ l.rotated
  BY DEF Rotated
<1>2. /\ l.header \in Blocks /\ l.latch \in Blocks /\ l.preheader \in Blocks
      /\ l.header \in l.blocks /\ l.latch \in l.blocks /\ l.preheader \notin l.blocks
      /\ Preds(g, l.header) = {l.latch, l.preheader}
      /\ g.term[l.latch] = "cond" /\ g.term[l.preheader] = "br"
  BY <1>1, LoopFacts
<1>3. Entry \notin l.blocks /\ ~(Succs(g, l.latch) \subseteq l.blocks)
  BY <1>1 DEF InputOK, LoopContract
<1>4. /\ g.succ[l.latch] \in Seq(Blocks) /\ Len(g.succ[l.latch]) = 2
      /\ g.succ[l.preheader] \in Seq(Blocks) /\ Len(g.succ[l.preheader]) = 1
  BY <1>2, SuccType DEF InputOK, TerminatorsOK
<1>5. g.succ[l.preheader][1] = l.header
  <2>1. l.header \in Succs(g, l.preheader)
    BY <1>2 DEF Preds
  <2>2. DOMAIN g.succ[l.preheader] = {1}
    BY <1>4
  <2> QED
    BY <2>1, <2>2 DEF Succs
<1>6. DOMAIN g.succ[l.latch] = {1, 2} /\ g.succ[l.latch][1] \in Blocks /\ g.succ[l.latch][2] \in Blocks
  BY <1>4
<1>7. l.header = g.succ[l.latch][1] \/ l.header = g.succ[l.latch][2]
  <2>1. l.header \in Succs(g, l.latch)
    BY <1>2 DEF Preds
  <2> QED
    BY <2>1, <1>6 DEF Succs
<1>8. g.succ[l.latch][1] \notin l.blocks \/ g.succ[l.latch][2] \notin l.blocks
  BY <1>3, <1>6 DEF Succs
<1>9. AfterDoWhile(l) \in Blocks /\ AfterDoWhile(l) \notin l.blocks
  BY <1>2, <1>6, <1>7, <1>8 DEF AfterDoWhile
<1>10. \/ /\ g.succ[l.latch][1] = l.header /\ g.succ[l.latch][2] = AfterDoWhile(l)
          /\ Negated(l) = FALSE
       \/ /\ g.succ[l.latch][2] = l.header /\ g.succ[l.latch][1] = AfterDoWhile(l)
          /\ Negated(l) = TRUE
  BY <1>2, <1>6, <1>7, <1>8 DEF AfterDoWhile, Negated
<1> QED
  BY <1>1, <1>2, <1>3, <1>4, <1>5, <1>9, <1>10

\* The two ways of a rotated loop's latch.
LEMMA LatchWays ==
  ASSUME InputOK, NEW l \in Rotated
  PROVE  Succs(g, l.latch) = {l.header, AfterDoWhile(l)}
<1>1. Succs(g, l.latch) = {g.succ[l.latch][1], g.succ[l.latch][2]}
  BY RotatedFacts DEF Succs
<1> QED
  BY <1>1, RotatedFacts

\* Two rotated loops do not share a latch: its two successors are the header
\* and a block behind the loop.
LEMMA OneLoopPerLatch ==
  ASSUME InputOK, NEW k \in Rotated, NEW l \in Rotated, k.latch = l.latch
  PROVE  k = l
<1> SUFFICES ASSUME k # l PROVE FALSE
  OBVIOUS
<1>1. k.header # l.header
  BY RotatedFacts DEF InputOK, LoopContract
<1>2. AfterDoWhile(k) = l.header /\ AfterDoWhile(l) = k.header
  <2>1. Succs(g, k.latch) = {k.header, AfterDoWhile(k)}
    BY LatchWays
  <2>2. Succs(g, l.latch) = {l.header, AfterDoWhile(l)}
    BY LatchWays
  <2> QED
    BY <1>1, <2>1, <2>2
<1>3. l.header \notin k.blocks /\ k.header \notin l.blocks
  <2>1. AfterDoWhile(k) \notin k.blocks
    BY RotatedFacts
  <2>2. AfterDoWhile(l) \notin l.blocks
    BY RotatedFacts
  <2> QED
    BY <1>2, <2>1, <2>2
<1>4. k.blocks \subseteq l.blocks \/ l.blocks \subseteq k.blocks
  BY RotatedFacts, OverlapNests
<1> QED
  BY <1>3, <1>4, RotatedFacts

\* The header of a loop is the latch of no other rotated loop: a latch leads
\* to its own header and out of its own loop, hence not into the inner loop.
LEMMA HeaderIsNoLatch ==
  ASSUME InputOK, NEW k \in Rotated, NEW l \in loops, k.latch = l.header
  PROVE  k = l
<1> SUFFICES ASSUME k # l PROVE FALSE
  OBVIOUS
<1> DEFINE h == l.header
<1>1. /\ h \in l.blocks /\ l.preheader \notin l.blocks /\ l.preheader \in Blocks
      /\ h \in k.blocks
      /\ Preds(g, h) = {l.latch, l.preheader}
  BY LoopFacts, RotatedFacts
<1>2. h # k.header
  BY RotatedFacts DEF InputOK, LoopContract
<1>3. l.preheader \in k.blocks
  <2>1. Preds(g, h) \subseteq k.blocks
    BY <1>1, <1>2, RotatedFacts, LoopFacts
  <2> QED
    BY <1>1, <2>1
<1>4. l.blocks \subseteq k.blocks
  BY <1>3, RotatedFacts, PreheaderElsewhere
<1>5. k.header \notin l.blocks
  <2> SUFFICES ASSUME k.header \in l.blocks PROVE FALSE
    OBVIOUS
  <2>2. k \in loops
    BY RotatedFacts
  <2>1. Preds(g, k.header) \subseteq l.blocks
    <3>1. k.header # l.header
      BY <2>2 DEF InputOK, LoopContract
    <3> QED
      BY <3>1, LoopFacts
  <2>3. k.preheader \in Preds(g, k.header) /\ k.preheader \notin k.blocks
    BY <2>2, LoopFacts
  <2> QED
    BY <1>4, <2>1, <2>3
<1>6. \A b \in Succs(g, h) : b \notin l.blocks
  <2>2. \A b \in Succs(g, k.latch) : b = k.header \/ b = AfterDoWhile(k)
    BY LatchWays
  <2>3. AfterDoWhile(k) \notin l.blocks
    BY <1>4, RotatedFacts
  <2> QED
    BY <1>5, <2>2, <2>3
<1>7. \E b \in l.blocks : b \in Succs(g, h)
  BY DEF InputOK, LoopContract
<1> QED
  BY <1>6, <1>7

-----------------------------------------------------------------------------
(* The statements of a block in the end, if the gotos to the blocks of D    *)
(* are replaced by their code.  D = {} are those parseBreaks leaves.        *)

JumpTo(D, t) == Simple(IF t \in D THEN "splice" ELSE "goto", t, t)

EdgeCode(D, from, to) ==
  GeneratePhiAssignments(from, to, FALSE, FALSE) \o <<JumpTo(D, to)>>

LoopArm(D, l) ==
  (IF l.header = l.latch THEN <<>>
   ELSE GeneratePhiAssignments(l.header, l.latch, FALSE, Negated(l)))
    \o <<JumpTo(D, l.header)>>
    \o (IF l.header = l.latch \/ HeaderGotoLatch(l) THEN <<>> ELSE <<LatchExpr(l.latch)>>)
    \o GeneratePhiAssignments(l.latch, l.header, TRUE, Negated(l))

DoLoop(D, l) == Nested("do", l.latch, l.header, Negated(l), <<LoopArm(D, l)>>)

WayOut(D, l) == Lift(EdgeCode(D, l.latch, AfterDoWhile(l)))

IfCode(D, b) ==
  Nested("if", b, b, FALSE, [i \in 1..2 |-> EdgeCode(D, b, g.succ[b][i])])

SwitchCode(D, b) ==
  Nested("switch", b, b, FALSE, [i \in 1..Len(g.succ[b]) |-> <<JumpTo(D, g.succ[b][i])>>])

LoopCode(D, l) ==
  Lift(GeneratePhiAssignments(l.preheader, l.header, FALSE, FALSE))
    \o <<DoLoop(D, l)>> \o WayOut(D, l)

TermCode(D, b) ==
  IF b \in RotatedLatches THEN <<>>
  ELSE IF b \in RotatedPreheaders THEN LoopCode(D, LoopAt(b))
  ELSE IF g.term[b] = "ret" THEN <<ParseRETURN(b)>>
  ELSE IF g.term[b] = "br" THEN Lift(EdgeCode(D, b, g.succ[b][1]))
  ELSE IF g.term[b] = "cond" THEN <<IfCode(D, b)>>
  ELSE IF g.term[b] = "switch" THEN <<SwitchCode(D, b)>>
  ELSE <<>>

CodeOf(D, b) == <<Body(b)>> \o TermCode(D, b)

-----------------------------------------------------------------------------
(* Replacing gotos statement by statement. *)

Inlined == {t \in Blocks : doInline[t]}

SpliceFlat(code) == [i \in DOMAIN code |-> Splice(code[i])]

LEMMA SpliceGotosConcat ==
  ASSUME NEW s \in Seq(Stmts), NEW t \in Seq(Stmts)
  PROVE  SpliceGotos(s \o t) = SpliceGotos(s) \o SpliceGotos(t)
BY DEF SpliceGotos

LEMMA SpliceFlatConcat ==
  ASSUME NEW s \in Seq(SimpleStmts), NEW t \in Seq(SimpleStmts)
  PROVE  SpliceFlat(s \o t) = SpliceFlat(s) \o SpliceFlat(t)
BY DEF SpliceFlat

LEMMA SpliceFlatOne ==
  ASSUME NEW x
  PROVE  SpliceFlat(<<x>>) = <<Splice(x)>>
BY DEF SpliceFlat

LEMMA LiftConcat ==
  ASSUME NEW s \in Seq(SimpleStmts), NEW t \in Seq(SimpleStmts)
  PROVE  Lift(s \o t) = Lift(s) \o Lift(t)
BY SMTT(20) DEF Lift

LEMMA SpliceSimple ==
  ASSUME NEW t \in Blocks
  PROVE  /\ Splice(JumpTo({}, t)) = JumpTo(Inlined, t)
         /\ GotoExpr(t) = JumpTo({}, t)
<1>1. doInline[t] => t \in Inlined
  BY DEF Inlined
<1>2. ~doInline[t] => t \notin Inlined
  BY DEF Inlined
<1> QED
  BY <1>1, <1>2 DEF Splice, JumpTo, Simple, GotoExpr

LEMMA SplicePhis ==
  ASSUME NEW from, NEW to, NEW isLoop \in BOOLEAN, NEW isNegated
  PROVE  SpliceFlat(GeneratePhiAssignments(from, to, isLoop, isNegated))
           = GeneratePhiAssignments(from, to, isLoop, isNegated)
<1> DEFINE s == [Simple(IF isLoop THEN "select" ELSE "phi", from, to) EXCEPT !.neg = isNegated]
<1>1. s.op # "goto"
  BY DEF Simple
<1>2. Splice(s) = s
  BY <1>1, Zenon DEF Splice
<1> HIDE DEF s
<1>3. SpliceFlat(<<s>>) = <<s>>
  BY <1>2 DEF SpliceFlat
<1>4. SpliceFlat(<<>>) = <<>>
  BY DEF SpliceFlat
<1> QED
  BY <1>3, <1>4 DEF GeneratePhiAssignments, s

LEMMA JumpToType ==
  ASSUME NEW D, NEW t \in Blocks
  PROVE  JumpTo(D, t) \in SimpleStmts /\ <<JumpTo(D, t)>> \in Seq(SimpleStmts)
BY SimpleType DEF JumpTo, StmtOps

LEMMA EdgeCodeType ==
  ASSUME NEW D, NEW from \in Blocks, NEW to \in Blocks
  PROVE  EdgeCode(D, from, to) \in Seq(SimpleStmts)
<1>1. GeneratePhiAssignments(from, to, FALSE, FALSE) \in Seq(SimpleStmts)
  BY PhiAssignmentsType
<1> QED
  BY <1>1, JumpToType, ConcatType DEF EdgeCode

LEMMA SpliceEdge ==
  ASSUME NEW from \in Blocks, NEW to \in Blocks
  PROVE  SpliceFlat(EdgeCode({}, from, to)) = EdgeCode(Inlined, from, to)
<1> DEFINE phis == GeneratePhiAssignments(from, to, FALSE, FALSE)
           last == <<JumpTo({}, to)>>
<1>1. phis \in Seq(SimpleStmts) /\ last \in Seq(SimpleStmts)
  BY PhiAssignmentsType, JumpToType
<1>2. SpliceFlat(phis) = phis
  BY SplicePhis
<1>3. SpliceFlat(last) = <<JumpTo(Inlined, to)>>
  BY SpliceSimple DEF SpliceFlat
<1> HIDE DEF phis, last
<1>4. SpliceFlat(phis \o last) = phis \o <<JumpTo(Inlined, to)>>
  BY <1>1, <1>2, <1>3, SpliceFlatConcat
<1> QED
  BY <1>4 DEF EdgeCode, phis, last

LEMMA SpliceLift ==
  ASSUME NEW code \in Seq(SimpleStmts)
  PROVE  SpliceGotos(Lift(code)) = Lift(SpliceFlat(code))
<1>1. ASSUME NEW s \in SimpleStmts
      PROVE  SpliceArms(Splice(Plain(s))) = Plain(Splice(s))
  <2>1. Splice(Plain(s)) = Plain(Splice(s))
    BY DEF Splice, Plain, Nested, SimpleStmts
  <2>2. \A u : SpliceArms(Plain(u)) = Plain(u)
    BY DEF SpliceArms, Plain, Nested
  <2> QED
    BY <2>1, <2>2
<1>2. \A i \in DOMAIN code : SpliceArms(Splice(Plain(code[i]))) = Plain(Splice(code[i]))
  BY <1>1
<1> QED
  BY <1>2 DEF SpliceGotos, Lift, SpliceFlat

LEMMA SpliceNested ==
  ASSUME NEW op, op # "goto", NEW at, NEW to, NEW neg, NEW arms
  PROVE  SpliceGotos(<<Nested(op, at, to, neg, arms)>>)
           = <<Nested(op, at, to, neg, [a \in DOMAIN arms |-> SpliceFlat(arms[a])])>>
<1> DEFINE s == Nested(op, at, to, neg, arms)
           done == Nested(op, at, to, neg, [a \in DOMAIN arms |-> SpliceFlat(arms[a])])
<1>1. Splice(s) = s
  BY DEF Splice, Nested
<1>2. SpliceArms(s) = done
  BY DEF SpliceArms, Nested, SpliceFlat
<1> HIDE DEF s, done
<1>3. SpliceGotos(<<s>>) = <<done>>
  BY <1>1, <1>2 DEF SpliceGotos
<1> QED
  BY <1>3 DEF s, done

LEMMA LoopArmParts ==
  ASSUME InputOK, NEW l \in Rotated, NEW D
  PROVE  /\ LoopArm(D, l) \in Seq(SimpleStmts)
         /\ \E first, last \in Seq(SimpleStmts) :
              /\ SpliceFlat(first) = first /\ SpliceFlat(last) = last
              /\ \A E : LoopArm(E, l) = first \o <<JumpTo(E, l.header)>> \o last
<1> DEFINE phis == GeneratePhiAssignments(l.header, l.latch, FALSE, Negated(l))
           first == IF l.header = l.latch THEN <<>> ELSE phis
           wrap == IF l.header = l.latch \/ HeaderGotoLatch(l) THEN <<>> ELSE <<LatchExpr(l.latch)>>
           selects == GeneratePhiAssignments(l.latch, l.header, TRUE, Negated(l))
<1>1. l.header \in Blocks /\ l.latch \in Blocks /\ Negated(l) \in BOOLEAN
  BY RotatedFacts DEF Negated
<1>2. /\ phis \in Seq(SimpleStmts) /\ SpliceFlat(phis) = phis
      /\ selects \in Seq(SimpleStmts) /\ SpliceFlat(selects) = selects
  <2>1. FALSE \in BOOLEAN /\ TRUE \in BOOLEAN
    OBVIOUS
  <2> QED
    BY <1>1, <2>1, PhiAssignmentsType, SplicePhis, Zenon
<1>3. <<>> \in Seq(SimpleStmts) /\ SpliceFlat(<<>>) = <<>>
  BY DEF SpliceFlat
<1>4. <<LatchExpr(l.latch)>> \in Seq(SimpleStmts) /\ SpliceFlat(<<LatchExpr(l.latch)>>) = <<LatchExpr(l.latch)>>
  <2>1. LatchExpr(l.latch) \in SimpleStmts
    BY <1>1, GotoType
  <2>2. Splice(LatchExpr(l.latch)) = LatchExpr(l.latch)
    BY DEF Splice, LatchExpr, Simple
  <2> QED
    BY <2>1, <2>2 DEF SpliceFlat
<1>5. first \in Seq(SimpleStmts) /\ SpliceFlat(first) = first
  BY <1>2, <1>3, Zenon
<1>6. wrap \in Seq(SimpleStmts) /\ SpliceFlat(wrap) = wrap
  BY <1>3, <1>4, Zenon
<1>7. \A E : LoopArm(E, l) = first \o <<JumpTo(E, l.header)>> \o wrap \o selects
  BY DEF LoopArm
<1>8. \A E : <<JumpTo(E, l.header)>> \in Seq(SimpleStmts)
  BY <1>1, JumpToType
<1> HIDE DEF first, wrap, selects
<1>9. wrap \o selects \in Seq(SimpleStmts) /\ SpliceFlat(wrap \o selects) = wrap \o selects
  BY <1>2, <1>6, ConcatType, SpliceFlatConcat
<1>10. \A E : LoopArm(E, l) = first \o <<JumpTo(E, l.header)>> \o (wrap \o selects)
  <2> TAKE E
  <2> DEFINE jump == <<JumpTo(E, l.header)>>
  <2>1. jump \in Seq(SimpleStmts)
    BY <1>8
  <2> HIDE DEF jump
  <2>2. first \o jump \o wrap \o selects = first \o jump \o (wrap \o selects)
    BY <1>2, <1>5, <1>6, <2>1
  <2> QED
    BY <1>7, <2>2 DEF jump
<1>11. LoopArm(D, l) \in Seq(SimpleStmts)
  <2> DEFINE jump == <<JumpTo(D, l.header)>>
             rest == wrap \o selects
  <2>1. LoopArm(D, l) = first \o jump \o rest
    BY <1>10
  <2>2. jump \in Seq(SimpleStmts) /\ rest \in Seq(SimpleStmts)
    BY <1>8, <1>9
  <2> HIDE DEF jump, rest
  <2>3. first \o jump \o rest \in Seq(SimpleStmts)
    BY <1>5, <2>2, ConcatType
  <2> QED
    BY <2>1, <2>3
<1> QED
  BY <1>5, <1>9, <1>10, <1>11

LEMMA SpliceLoopArm ==
  ASSUME InputOK, NEW l \in Rotated
  PROVE  SpliceFlat(LoopArm({}, l)) = LoopArm(Inlined, l)
<1>1. PICK first, last \in Seq(SimpleStmts) :
        /\ SpliceFlat(first) = first /\ SpliceFlat(last) = last
        /\ \A E : LoopArm(E, l) = first \o <<JumpTo(E, l.header)>> \o last
  BY LoopArmParts
<1> DEFINE jump == <<JumpTo({}, l.header)>>
<1>2. jump \in Seq(SimpleStmts) /\ SpliceFlat(jump) = <<JumpTo(Inlined, l.header)>>
  BY RotatedFacts, JumpToType, SpliceSimple, SpliceFlatOne
<1> HIDE DEF jump
<1>3. SpliceFlat(first \o jump \o last) = first \o <<JumpTo(Inlined, l.header)>> \o last
  <2>1. first \o jump \in Seq(SimpleStmts)
    BY <1>1, <1>2, ConcatType
  <2>2. SpliceFlat(first \o jump) = first \o <<JumpTo(Inlined, l.header)>>
    BY <1>1, <1>2, SpliceFlatConcat
  <2> QED
    BY <1>1, <2>1, <2>2, SpliceFlatConcat
<1> QED
  BY <1>1, <1>3 DEF jump

LEMMA SpliceIf ==
  ASSUME InputOK, NEW b \in Blocks, g.term[b] = "cond"
  PROVE  SpliceGotos(<<IfCode({}, b)>>) = <<IfCode(Inlined, b)>>
<1> DEFINE before == [i \in 1..2 |-> EdgeCode({}, b, g.succ[b][i])]
           after == [i \in 1..2 |-> EdgeCode(Inlined, b, g.succ[b][i])]
<1>1. \A i \in 1..2 : SpliceFlat(EdgeCode({}, b, g.succ[b][i])) = EdgeCode(Inlined, b, g.succ[b][i])
  BY SuccType, SpliceEdge
<1>2. [a \in DOMAIN before |-> SpliceFlat(before[a])] = after
  BY <1>1
<1> DEFINE plain == FALSE
<1> HIDE DEF before, after, plain
<1>3. SpliceGotos(<<Nested("if", b, b, plain, before)>>) = <<Nested("if", b, b, plain, after)>>
  BY <1>2, SpliceNested
<1> QED
  BY <1>3 DEF IfCode, before, after, plain

LEMMA SpliceSwitch ==
  ASSUME InputOK, NEW b \in Blocks
  PROVE  SpliceGotos(<<SwitchCode({}, b)>>) = <<SwitchCode(Inlined, b)>>
<1> DEFINE before == [i \in 1..Len(g.succ[b]) |-> <<JumpTo({}, g.succ[b][i])>>]
           after == [i \in 1..Len(g.succ[b]) |-> <<JumpTo(Inlined, g.succ[b][i])>>]
<1>1. ASSUME NEW i \in 1..Len(g.succ[b])
      PROVE  SpliceFlat(<<JumpTo({}, g.succ[b][i])>>) = <<JumpTo(Inlined, g.succ[b][i])>>
  <2>1. g.succ[b][i] \in Blocks
    BY SuccType
  <2> QED
    BY <2>1, SpliceSimple DEF SpliceFlat
<1>2. [a \in DOMAIN before |-> SpliceFlat(before[a])] = after
  BY <1>1
<1> DEFINE plain == FALSE
<1> HIDE DEF before, after, plain
<1>3. SpliceGotos(<<Nested("switch", b, b, plain, before)>>)
        = <<Nested("switch", b, b, plain, after)>>
  BY <1>2, SpliceNested
<1> QED
  BY <1>3 DEF SwitchCode, before, after, plain

LEMMA DoLoopType ==
  ASSUME InputOK, NEW l \in Rotated, NEW D
  PROVE  DoLoop(D, l) \in Stmts
<1>1. LoopArm(D, l) \in Seq(SimpleStmts)
  BY LoopArmParts
<1>2. <<LoopArm(D, l)>> \in Seq(Seq(SimpleStmts))
  BY <1>1
<1>3. l.latch \in Blocks /\ l.header \in Blocks /\ Negated(l) \in BOOLEAN
  BY RotatedFacts DEF Negated
<1> QED
  BY <1>2, <1>3 DEF DoLoop, Nested, Stmts, StmtOps

LEMMA SpliceDo ==
  ASSUME InputOK, NEW l \in Rotated
  PROVE  SpliceGotos(<<DoLoop({}, l)>>) = <<DoLoop(Inlined, l)>>
<1> DEFINE before == <<LoopArm({}, l)>>
           after == <<LoopArm(Inlined, l)>>
<1>1. [a \in DOMAIN before |-> SpliceFlat(before[a])] = after
  BY SpliceLoopArm
<1> HIDE DEF before, after
<1>2. SpliceGotos(<<Nested("do", l.latch, l.header, Negated(l), before)>>)
        = <<Nested("do", l.latch, l.header, Negated(l), after)>>
  BY <1>1, SpliceNested
<1> QED
  BY <1>2 DEF DoLoop, before, after

LEMMA SplicePlain ==
  ASSUME NEW s \in SimpleStmts, s.op # "goto"
  PROVE  SpliceGotos(<<Plain(s)>>) = <<Plain(s)>>
<1>1. Lift(<<s>>) = <<Plain(s)>>
  BY DEF Lift
<1>2. SpliceFlat(<<s>>) = <<s>>
  BY SpliceFlatOne DEF Splice
<1>3. <<s>> \in Seq(SimpleStmts)
  OBVIOUS
<1> QED
  BY <1>1, <1>2, <1>3, SpliceLift

LEMMA LoopAtIs ==
  ASSUME InputOK, NEW l \in Rotated
  PROVE  LoopAt(l.preheader) = l /\ l.preheader \notin RotatedLatches
<1>1. \A k \in Rotated : k.preheader = l.preheader => k = l
  BY RotatedFacts, PreheaderOfOneLoop
<1>2. l.preheader \notin RotatedLatches
  <2>1. \A k \in Rotated : k.latch # l.preheader
    BY RotatedFacts
  <2> QED
    BY <2>1 DEF RotatedLatches, Rotated
<1> QED
  BY <1>1, <1>2 DEF LoopAt

LEMMA LoopCodeType ==
  ASSUME InputOK, NEW l \in Rotated, NEW D
  PROVE  /\ WayOut(D, l) \in Seq(Stmts)
         /\ Lift(GeneratePhiAssignments(l.preheader, l.header, FALSE, FALSE)) \in Seq(Stmts)
         /\ <<DoLoop(D, l)>> \in Seq(Stmts)
         /\ LoopCode(D, l) \in Seq(Stmts)
<1>1. WayOut(D, l) \in Seq(Stmts)
  BY RotatedFacts, EdgeCodeType, LiftType DEF WayOut
<1>2. Lift(GeneratePhiAssignments(l.preheader, l.header, FALSE, FALSE)) \in Seq(Stmts)
  BY RotatedFacts, PhiAssignmentsType, LiftType
<1>3. <<DoLoop(D, l)>> \in Seq(Stmts)
  BY DoLoopType
<1> QED
  BY <1>1, <1>2, <1>3, ConcatType DEF LoopCode

LEMMA SpliceLoopCode ==
  ASSUME InputOK, NEW l \in Rotated
  PROVE  SpliceGotos(LoopCode({}, l)) = LoopCode(Inlined, l)
<1> DEFINE phis == GeneratePhiAssignments(l.preheader, l.header, FALSE, FALSE)
           own == Lift(phis)
           do == <<DoLoop({}, l)>>
           way == WayOut({}, l)
<1>1. own \in Seq(Stmts) /\ do \in Seq(Stmts) /\ way \in Seq(Stmts)
  BY LoopCodeType
<1>2. SpliceGotos(own) = own
  <2>1. phis \in Seq(SimpleStmts)
    BY RotatedFacts, PhiAssignmentsType
  <2>2. SpliceFlat(phis) = phis
    BY SplicePhis
  <2> HIDE DEF phis
  <2> QED
    BY <2>1, <2>2, SpliceLift
<1>3. SpliceGotos(do) = <<DoLoop(Inlined, l)>>
  BY SpliceDo
<1>4. SpliceGotos(way) = WayOut(Inlined, l)
  BY RotatedFacts, EdgeCodeType, SpliceLift, SpliceEdge DEF WayOut
<1>5. LoopCode({}, l) = own \o do \o way
  BY DEF LoopCode
<1>6. LoopCode(Inlined, l) = own \o <<DoLoop(Inlined, l)>> \o WayOut(Inlined, l)
  BY DEF LoopCode
<1> HIDE DEF own, do, way
<1>7. own \o do \in Seq(Stmts)
  BY <1>1, ConcatType
<1>8. SpliceGotos(own \o do \o way) = SpliceGotos(own) \o SpliceGotos(do) \o SpliceGotos(way)
  BY <1>1, <1>7, SpliceGotosConcat
<1> QED
  BY <1>2, <1>3, <1>4, <1>5, <1>6, <1>8

LEMMA BodyType ==
  ASSUME NEW b \in Blocks
  PROVE  <<Body(b)>> \in Seq(Stmts)
BY SimpleType, PlainType DEF Body, StmtOps

LEMMA TermCodeType ==
  ASSUME InputOK, NEW b \in Blocks, NEW D
  PROVE  TermCode(D, b) \in Seq(Stmts) /\ CodeOf(D, b) \in Seq(Stmts)
<1>1. ASSUME b \in RotatedPreheaders
      PROVE  LoopCode(D, LoopAt(b)) \in Seq(Stmts)
  BY <1>1, LoopAtIs, LoopCodeType DEF RotatedPreheaders
<1>2. <<ParseRETURN(b)>> \in Seq(Stmts)
  BY SimpleType, PlainType DEF ParseRETURN, StmtOps
<1>3. g.term[b] = "br" => Lift(EdgeCode(D, b, g.succ[b][1])) \in Seq(Stmts)
  BY SuccType, EdgeCodeType, LiftType
<1>4. g.term[b] = "cond" => <<IfCode(D, b)>> \in Seq(Stmts)
  <2> SUFFICES ASSUME g.term[b] = "cond" PROVE IfCode(D, b) \in Stmts
    OBVIOUS
  <2> DEFINE arms == [i \in 1..2 |-> EdgeCode(D, b, g.succ[b][i])]
  <2>1. \A i \in 1..2 : EdgeCode(D, b, g.succ[b][i]) \in Seq(SimpleStmts)
    BY SuccType, EdgeCodeType
  <2>2. arms \in Seq(Seq(SimpleStmts))
    BY <2>1
  <2> HIDE DEF arms
  <2>3. Nested("if", b, b, FALSE, arms) \in Stmts
    BY <2>2 DEF Nested, Stmts, StmtOps
  <2> QED
    BY <2>3 DEF IfCode, arms
<1>5. <<SwitchCode(D, b)>> \in Seq(Stmts)
  <2> DEFINE arms == [i \in 1..Len(g.succ[b]) |-> <<JumpTo(D, g.succ[b][i])>>]
  <2>1. \A i \in 1..Len(g.succ[b]) : <<JumpTo(D, g.succ[b][i])>> \in Seq(SimpleStmts)
    BY SuccType, JumpToType
  <2>2. Len(g.succ[b]) \in Nat
    BY SuccType
  <2>3. arms \in Seq(Seq(SimpleStmts))
    BY <2>1, <2>2
  <2> HIDE DEF arms
  <2>4. Nested("switch", b, b, FALSE, arms) \in Stmts
    BY <2>3 DEF Nested, Stmts, StmtOps
  <2>5. SwitchCode(D, b) \in Stmts
    BY <2>4 DEF SwitchCode, arms
  <2> QED
    BY <2>5
<1>6. <<>> \in Seq(Stmts)
  OBVIOUS
<1>7. TermCode(D, b) \in Seq(Stmts)
  BY <1>1, <1>2, <1>3, <1>4, <1>5, <1>6, Zenon DEF TermCode
<1> QED
  BY <1>7, BodyType, ConcatType DEF CodeOf

\* The gotos of a block's statements, replaced: what inlineBlocks makes of the
\* statements parseBreaks leaves.
LEMMA SpliceCode ==
  ASSUME InputOK, NEW b \in Blocks
  PROVE  SpliceGotos(CodeOf({}, b)) = CodeOf(Inlined, b)
<1>1. ASSUME b \in RotatedPreheaders
      PROVE  SpliceGotos(LoopCode({}, LoopAt(b))) = LoopCode(Inlined, LoopAt(b))
  BY <1>1, LoopAtIs, SpliceLoopCode DEF RotatedPreheaders
<1>2. SpliceGotos(<<ParseRETURN(b)>>) = <<ParseRETURN(b)>>
  <2>1. Simple("ret", b, b) \in SimpleStmts /\ Simple("ret", b, b).op # "goto"
    BY DEF Simple, SimpleStmts, StmtOps
  <2> QED
    BY <2>1, SplicePlain DEF ParseRETURN
<1>3. g.term[b] = "br" => SpliceGotos(Lift(EdgeCode({}, b, g.succ[b][1])))
                            = Lift(EdgeCode(Inlined, b, g.succ[b][1]))
  BY SuccType, EdgeCodeType, SpliceLift, SpliceEdge
<1>4. g.term[b] = "cond" => SpliceGotos(<<IfCode({}, b)>>) = <<IfCode(Inlined, b)>>
  BY SpliceIf
<1>5. SpliceGotos(<<SwitchCode({}, b)>>) = <<SwitchCode(Inlined, b)>>
  BY SpliceSwitch
<1>6. SpliceGotos(<<>>) = <<>>
  BY DEF SpliceGotos
<1>7. SpliceGotos(TermCode({}, b)) = TermCode(Inlined, b)
  BY <1>1, <1>2, <1>3, <1>4, <1>5, <1>6, Zenon DEF TermCode
<1>8. SpliceGotos(<<Body(b)>>) = <<Body(b)>>
  <2>1. Simple("body", b, b) \in SimpleStmts /\ Simple("body", b, b).op # "goto"
    BY DEF Simple, SimpleStmts, StmtOps
  <2> QED
    BY <2>1, SplicePlain DEF Body
<1>9. SpliceGotos(<<Body(b)>> \o TermCode({}, b)) = <<Body(b)>> \o TermCode(Inlined, b)
  BY <1>7, <1>8, BodyType, TermCodeType, SpliceGotosConcat
<1> QED
  BY <1>9 DEF CodeOf

-----------------------------------------------------------------------------
(* What parseBreaks makes of each block. *)

LEMMA ListIsEdge ==
  ASSUME NEW from, NEW to
  PROVE  ListOfOneGoto(from, to) = EdgeCode({}, from, to)
<1>1. GotoExpr(to) = JumpTo({}, to)
  BY DEF GotoExpr, JumpTo
<1> QED
  BY <1>1 DEF ListOfOneGoto, EdgeCode

LEMMA NoSwitchYet ==
  ASSUME NEW b \in Blocks, g.term[b] # "switch"
  PROVE  AfterCreateExpressions(b) = <<Body(b)>>
<1>1. <<Body(b)>> \o <<>> = <<Body(b)>>
  BY BodyType
<1> QED
  BY <1>1 DEF AfterCreateExpressions

LEMMA ParsedOwn ==
  ASSUME InputOK, NEW b \in Blocks, HasParsedTerminator(b),
         b \notin RotatedLatches, b \notin RotatedPreheaders
  PROVE  AfterCreateExpressions(b) \o ParseBlock(b) = CodeOf({}, b)
<1>1. AfterCreateExpressions(b) = <<Body(b)>>
  BY NoSwitchYet DEF HasParsedTerminator
<1>2. g.term[b] = "cond" => ParseIF(b) = IfCode({}, b)
  <2>1. [i \in 1..2 |-> ListOfOneGoto(b, g.succ[b][i])] = [i \in 1..2 |-> EdgeCode({}, b, g.succ[b][i])]
    BY ListIsEdge
  <2> QED
    BY <2>1 DEF ParseIF, IfCode
<1>3. ParseUncondBranch(b) = Lift(EdgeCode({}, b, g.succ[b][1]))
  BY ListIsEdge DEF ParseUncondBranch
<1>4. ParseBlock(b) = TermCode({}, b)
  <2>1. CASE g.term[b] = "ret"
    BY <2>1 DEF ParseBlock, TermCode
  <2>2. CASE g.term[b] = "cond"
    BY <1>2, <2>2 DEF ParseBlock, TermCode
  <2>3. CASE g.term[b] = "br"
    BY <1>3, <2>3 DEF ParseBlock, TermCode
  <2> QED
    BY <2>1, <2>2, <2>3 DEF HasParsedTerminator
<1> QED
  BY <1>1, <1>4 DEF CodeOf

LEMMA ParsedLatch ==
  ASSUME InputOK, NEW l \in Rotated
  PROVE  AfterCreateExpressions(l.latch) = CodeOf({}, l.latch)
<1>1. AfterCreateExpressions(l.latch) = <<Body(l.latch)>>
  BY RotatedFacts, NoSwitchYet
<1>2. l.latch \in RotatedLatches
  BY DEF RotatedLatches, Rotated
<1>3. <<Body(l.latch)>> \o <<>> = <<Body(l.latch)>>
  BY RotatedFacts, BodyType
<1> QED
  BY <1>1, <1>2, <1>3 DEF CodeOf, TermCode

LEMMA NotParsed ==
  ASSUME InputOK, NEW b \in Blocks, ~HasParsedTerminator(b)
  PROVE  AfterCreateExpressions(b) = CodeOf({}, b)
<1>1. b \notin RotatedLatches /\ b \notin RotatedPreheaders
  <2>1. \A l \in Rotated : l.latch # b /\ l.preheader # b
    BY RotatedFacts DEF HasParsedTerminator
  <2> QED
    BY <2>1 DEF RotatedLatches, RotatedPreheaders, Rotated
<1>2. ParseSwitchInstruction(b) = SwitchCode({}, b)
  <2>1. \A t : GotoExpr(t) = JumpTo({}, t)
    BY DEF GotoExpr, JumpTo
  <2> QED
    BY <2>1 DEF ParseSwitchInstruction, SwitchCode
<1>3. TermCode({}, b) = IF g.term[b] = "switch" THEN <<ParseSwitchInstruction(b)>> ELSE <<>>
  BY <1>1, <1>2 DEF TermCode, HasParsedTerminator
<1> QED
  BY <1>3 DEF AfterCreateExpressions, CodeOf

LEMMA DropLastOfConcat ==
  ASSUME NEW S, NEW s \in Seq(S), NEW x \in S
  PROVE  DropLast(s \o <<x>>) = s
<1>1. Len(s \o <<x>>) = Len(s) + 1 /\ Len(s) \in Nat /\ s \o <<x>> \in Seq(S)
  OBVIOUS
<1>2. \A i \in 1..Len(s) : (s \o <<x>>)[i] = s[i]
  OBVIOUS
<1> QED
  BY <1>1, <1>2 DEF DropLast

LEMMA DoWhileIs ==
  ASSUME NEW l
  PROVE  DoWhile(l) = DoLoop({}, l)
<1>1. GotoExpr(l.header) = JumpTo({}, l.header)
  BY DEF GotoExpr, JumpTo
<1>2. DoWhileBody(l) = LoopArm({}, l)
  BY <1>1 DEF DoWhileBody, LoopArm
<1> QED
  BY <1>2 DEF DoWhile, DoLoop

LEMMA ParsedPreheader ==
  ASSUME InputOK, NEW l \in Rotated,
         exprs[l.preheader] = AfterCreateExpressions(l.preheader)
  PROVE  PreheaderCode(l) = CodeOf({}, l.preheader)
<1> DEFINE p == l.preheader
           phis == GeneratePhiAssignments(p, l.header, FALSE, FALSE)
           jump == GotoExpr(l.header)
           do == <<DoLoop({}, l)>>
           way == WayOut({}, l)
<1>1. p \in Blocks /\ g.term[p] = "br" /\ g.succ[p][1] = l.header /\ l.header \in Blocks
  BY RotatedFacts
<1>2. exprs[p] = <<Body(p)>>
  BY <1>1, NoSwitchYet
<1>3. ParseBlock(p) = Lift(phis \o <<jump>>)
  BY <1>1 DEF ParseBlock, ParseUncondBranch, ListOfOneGoto
<1>4. phis \in Seq(SimpleStmts) /\ <<jump>> \in Seq(SimpleStmts)
  <2>1. phis \in Seq(SimpleStmts)
    BY <1>1, PhiAssignmentsType
  <2>2. jump \in SimpleStmts
    BY <1>1, GotoType
  <2> HIDE DEF phis, jump
  <2> QED
    BY <2>1, <2>2
<1>5. Plain(jump) \in Stmts /\ Lift(<<jump>>) = <<Plain(jump)>>
  <2>1. jump \in SimpleStmts
    BY <1>1, GotoType
  <2> QED
    BY <2>1, PlainType DEF Lift
<1>6. <<Body(p)>> \in Seq(Stmts) /\ do \in Seq(Stmts) /\ way \in Seq(Stmts)
  BY <1>1, BodyType, LoopCodeType
<1>7. PreheaderCode(l) = DropLast(exprs[p] \o ParseBlock(p)) \o do \o way
  BY DoWhileIs, ListIsEdge DEF PreheaderCode, WayOut
<1>8. CodeOf({}, p) = <<Body(p)>> \o (Lift(phis) \o do \o way)
  <2>1. p \in RotatedPreheaders /\ p \notin RotatedLatches /\ LoopAt(p) = l
    BY LoopAtIs DEF RotatedPreheaders
  <2> QED
    BY <2>1 DEF CodeOf, TermCode, LoopCode
<1> HIDE DEF phis, jump, do, way
<1>9. Lift(phis \o <<jump>>) = Lift(phis) \o <<Plain(jump)>> /\ Lift(phis) \in Seq(Stmts)
  BY <1>4, <1>5, LiftConcat, LiftType
<1> DEFINE body == <<Body(p)>>
           own == Lift(phis)
           last == <<Plain(jump)>>
<1>10. last \in Seq(Stmts) /\ own \in Seq(Stmts) /\ body \in Seq(Stmts)
  BY <1>5, <1>6, <1>9
<1>11. DropLast(body \o own \o last) = body \o own
  <2>1. body \o own \in Seq(Stmts)
    BY <1>10, ConcatType
  <2> HIDE DEF body, own
  <2> QED
    BY <1>5, <2>1, DropLastOfConcat
<1>12. exprs[p] \o ParseBlock(p) = body \o (own \o last)
  BY <1>2, <1>3, <1>9
<1> HIDE DEF body, own, last
<1>13. body \o (own \o last) = body \o own \o last
  BY <1>10
<1>14. body \o own \o do \o way = body \o (own \o do \o way)
  BY <1>6, <1>10, SMTT(20)
<1>15. PreheaderCode(l) = body \o own \o do \o way
  BY <1>7, <1>11, <1>12, <1>13
<1>16. CodeOf({}, p) = body \o (own \o do \o way)
  BY <1>8 DEF body, own
<1> QED
  BY <1>14, <1>15, <1>16

-----------------------------------------------------------------------------
(* The input does not change, and the code of a block with it. *)

LEMMA CodeUnchanged ==
  ASSUME g' = g, loops' = loops, NEW D, NEW b
  PROVE  /\ CodeOf(D, b)' = CodeOf(D, b)
         /\ AfterCreateExpressions(b)' = AfterCreateExpressions(b)
         /\ Rotated' = Rotated /\ RotatedLatches' = RotatedLatches
         /\ \A t : LatchStaysInline(t)' = LatchStaysInline(t)
<1>1. \A from, to, isLoop, isNegated :
        GeneratePhiAssignments(from, to, isLoop, isNegated)'
          = GeneratePhiAssignments(from, to, isLoop, isNegated)
  BY DEF GeneratePhiAssignments
<1>2. \A from, to : EdgeCode(D, from, to)' = EdgeCode(D, from, to)
  BY <1>1 DEF EdgeCode
<1>3. \A l : /\ Negated(l)' = Negated(l) /\ HeaderGotoLatch(l)' = HeaderGotoLatch(l)
             /\ AfterDoWhile(l)' = AfterDoWhile(l)
  BY DEF Negated, HeaderGotoLatch, AfterDoWhile
<1>4. \A l : LoopArm(D, l)' = LoopArm(D, l)
  BY <1>1, <1>3 DEF LoopArm
<1>5. \A l : DoLoop(D, l)' = DoLoop(D, l) /\ WayOut(D, l)' = WayOut(D, l)
  BY <1>2, <1>3, <1>4 DEF DoLoop, WayOut
<1>6. \A l : LoopCode(D, l)' = LoopCode(D, l)
  BY <1>1, <1>5 DEF LoopCode
<1>7. IfCode(D, b)' = IfCode(D, b) /\ SwitchCode(D, b)' = SwitchCode(D, b)
  BY <1>2 DEF IfCode, SwitchCode
<1>8. /\ Rotated' = Rotated /\ RotatedLatches' = RotatedLatches
      /\ RotatedPreheaders' = RotatedPreheaders
  BY DEF Rotated, RotatedLatches, RotatedPreheaders
<1>9. LoopAt(b)' = LoopAt(b)
  BY <1>8 DEF LoopAt
<1>10. TermCode(D, b)' = TermCode(D, b)
  BY <1>2, <1>6, <1>7, <1>8, <1>9 DEF TermCode
<1>11. CodeOf(D, b)' = CodeOf(D, b)
  BY <1>10 DEF CodeOf
<1>12. AfterCreateExpressions(b)' = AfterCreateExpressions(b)
  BY DEF AfterCreateExpressions, ParseSwitchInstruction
<1>13. \A t : LatchStaysInline(t)' = LatchStaysInline(t)
  BY <1>3 DEF LatchStaysInline
<1> QED
  BY <1>8, <1>11, <1>12, <1>13

-----------------------------------------------------------------------------
(* While parseBreaks runs, a block has the statements it will have in the   *)
(* end, before inlining, or those of createExpressions; a parsed rotated    *)
(* loop's latch and preheader are among the former.                         *)
ParseInv ==
  /\ HandledInv
  /\ pass = "parseBreaks" =>
       /\ \A b \in Blocks :
            exprs[b] = IF brHandled[b] THEN CodeOf({}, b) ELSE AfterCreateExpressions(b)
       /\ \A l \in Rotated : l \in parsed =>
            /\ brHandled[l.latch] /\ brHandled[l.preheader]
            /\ doInline[l.header]

LEMMA ParseInvInit == CFInit => ParseInv
<1> SUFFICES ASSUME CFInit PROVE ParseInv
  OBVIOUS
<1>1. HandledInv
  BY TypeInvInit DEF CFInit, HandledInv, HandledInLoops, SubLoopsParsed
<1> QED
  BY <1>1 DEF CFInit, ParseInv

\* A block of l that is latch or preheader of a rotated loop belongs to l, or
\* to a loop inside of l.
LEMMA InnerParsed ==
  ASSUME InputOK, NEW l \in loops, NEW k \in Rotated, k # l,
         \A j \in loops : IsSubLoop(j, l) => j \in parsed,
         k.latch \in l.blocks \/ k.preheader \in l.blocks
  PROVE  k \in parsed
<1>1. k \in loops /\ k.rotated
  BY DEF Rotated
<1>2. k.blocks \subseteq l.blocks
  BY <1>1, PreheaderElsewhere
<1> QED
  BY <1>1, <1>2 DEF IsSubLoop

\* What ParseUnhandled and MarkHandled do to a block with the statements of
\* createExpressions that no rotated loop has a part in.
LEMMA ParseOne ==
  ASSUME InputOK, NEW b \in Blocks, NEW code \in [Blocks -> Seq(Stmts)], NEW bs,
         NEW handled \in [Blocks -> BOOLEAN],
         b \in bs /\ (b \in RotatedLatches \/ b \in RotatedPreheaders) => handled[b],
         code[b] = IF handled[b] THEN CodeOf({}, b) ELSE AfterCreateExpressions(b)
  PROVE  ParseUnhandled(bs, code, handled)[b]
           = IF MarkHandled(bs, handled)[b] THEN CodeOf({}, b) ELSE AfterCreateExpressions(b)
<1>1. ParseUnhandled(bs, code, handled)[b]
        = IF b \in bs /\ ~handled[b] THEN code[b] \o ParseBlock(b) ELSE code[b]
  BY DEF ParseUnhandled
<1>2. MarkHandled(bs, handled)[b] = (handled[b] \/ (b \in bs /\ HasParsedTerminator(b)))
  BY DEF MarkHandled
<1>3. CASE handled[b]
  BY <1>1, <1>2, <1>3
<1>4. CASE ~handled[b] /\ b \notin bs
  BY <1>1, <1>2, <1>4
<1>5. CASE ~handled[b] /\ b \in bs /\ HasParsedTerminator(b)
  BY <1>1, <1>2, <1>5, ParsedOwn
<1>6. CASE ~handled[b] /\ b \in bs /\ ~HasParsedTerminator(b)
  <2>1. code[b] \o ParseBlock(b) = code[b]
    BY <1>6, NothingToParse
  <2> QED
    BY <1>1, <1>2, <1>6, <2>1
<1> QED
  BY <1>3, <1>4, <1>5, <1>6

LEMMA ParseInvLoop ==
  ASSUME ParseInv, NEW l \in loops, ParseLoop(l)
  PROVE  ParseInv'
<1>1. HandledInv'
  BY HandledInvParseLoop DEF ParseInv
<1>2. /\ InputOK /\ exprs \in [Blocks -> Seq(Stmts)] /\ brHandled \in [Blocks -> BOOLEAN]
      /\ doInline \in [Blocks -> BOOLEAN]
      /\ parsed \subseteq loops /\ l \notin parsed
      /\ pass = "parseBreaks" /\ parsed' = parsed \cup {l}
      /\ g' = g /\ loops' = loops
      /\ \A k \in loops : IsSubLoop(k, l) => k \in parsed
      /\ \A b \in Blocks :
            exprs[b] = IF brHandled[b] THEN CodeOf({}, b) ELSE AfterCreateExpressions(b)
      /\ \A k \in Rotated : k \in parsed =>
            brHandled[k.latch] /\ brHandled[k.preheader] /\ doInline[k.header]
  BY DEF ParseInv, HandledInv, TypeInv, CFTypeOK, ParseLoop, inputVars
<1>3. ASSUME NEW k \in Rotated, k # l, NEW b \in l.blocks, b = k.latch \/ b = k.preheader
      PROVE  brHandled[b]
  <2>1. k \in parsed
    BY <1>2, <1>3, InnerParsed
  <2> QED
    BY <1>2, <1>3, <2>1
<1>4. \A b \in Blocks : /\ CodeOf({}, b)' = CodeOf({}, b)
                        /\ AfterCreateExpressions(b)' = AfterCreateExpressions(b)
  BY <1>2, CodeUnchanged
<1>5. Rotated' = Rotated
  BY <1>2 DEF Rotated
<1>6. CASE l.rotated
  <2> DEFINE handled == [MarkHandled({l.preheader}, brHandled) EXCEPT ![l.latch] = TRUE]
             code == [exprs EXCEPT ![l.preheader] = PreheaderCode(l)]
             p == l.preheader
  <2>1. l \in Rotated /\ p \in Blocks /\ l.latch \in Blocks /\ l.header \in Blocks
        /\ HasParsedTerminator(p) /\ p # l.latch
    BY <1>2, <1>6, RotatedFacts DEF Rotated, HasParsedTerminator
  <2>2. /\ exprs' = ParseUnhandled(l.blocks, code, handled)
        /\ brHandled' = MarkHandled(l.blocks, handled)
        /\ doInline' = [doInline EXCEPT ![l.header] = TRUE]
    BY <1>6 DEF ParseLoop, ParseRotatedLoop
  <2>3. ~brHandled[p] /\ ~brHandled[l.latch]
    BY <1>2, <1>6, HandledImplied DEF ParseInv, HandledOnce
  <2>4. PreheaderCode(l) = CodeOf({}, p)
    <3>1. exprs[p] = AfterCreateExpressions(p)
      BY <1>2, <2>1, <2>3
    <3> QED
      BY <1>2, <2>1, <3>1, ParsedPreheader
  <2>5. handled \in [Blocks -> BOOLEAN] /\ code \in [Blocks -> Seq(Stmts)]
    BY <1>2, <2>1, <2>4, MarkHandledType, TermCodeType
  <2>6. \A b \in Blocks : handled[b] = (brHandled[b] \/ b = p \/ b = l.latch)
    BY <2>1 DEF MarkHandled
  <2>7. \A b \in Blocks :
          code[b] = IF handled[b] THEN CodeOf({}, b) ELSE AfterCreateExpressions(b)
    <3>1. AfterCreateExpressions(l.latch) = CodeOf({}, l.latch)
      BY <1>2, <2>1, ParsedLatch
    <3>2. \A b \in Blocks : code[b] = IF b = p THEN PreheaderCode(l) ELSE exprs[b]
      BY <1>2, <2>1
    <3>3. \A b \in Blocks :
            exprs[b] = IF brHandled[b] THEN CodeOf({}, b) ELSE AfterCreateExpressions(b)
      BY <1>2
    <3> HIDE DEF code, handled, p
    <3> QED
      BY <2>3, <2>4, <2>6, <3>1, <3>2, <3>3
  <2> HIDE DEF handled, code
  <2>8. \A b \in l.blocks : b \in RotatedLatches \/ b \in RotatedPreheaders => b \in Blocks /\ handled[b]
    <3> SUFFICES ASSUME NEW b \in l.blocks, NEW k \in Rotated, b = k.latch \/ b = k.preheader
                 PROVE  b \in Blocks /\ handled[b]
      BY DEF RotatedLatches, RotatedPreheaders, Rotated
    <3> QED
      <4>1. b \in Blocks
        <5>1. l \in loops /\ InputOK
          BY <1>2
        <5> QED
          BY <5>1, LoopFacts
      <4>2. k = l => handled[b]
        BY <2>6, <4>1
      <4>3. k # l => handled[b]
        BY <1>3, <2>6, <4>1
      <4> QED
        BY <4>1, <4>2, <4>3
  <2>9. \A b \in Blocks : exprs'[b] = IF brHandled'[b] THEN CodeOf({}, b) ELSE AfterCreateExpressions(b)
    <3> SUFFICES ASSUME NEW b \in Blocks
                 PROVE  exprs'[b] = IF brHandled'[b] THEN CodeOf({}, b)
                                                     ELSE AfterCreateExpressions(b)
      OBVIOUS
    <3>1. b \in l.blocks /\ (b \in RotatedLatches \/ b \in RotatedPreheaders) => handled[b]
      BY <2>8
    <3>2. ParseUnhandled(l.blocks, code, handled)[b]
            = IF MarkHandled(l.blocks, handled)[b] THEN CodeOf({}, b)
                                                   ELSE AfterCreateExpressions(b)
      <4>1. InputOK
        BY <1>2
      <4>2. code[b] = IF handled[b] THEN CodeOf({}, b) ELSE AfterCreateExpressions(b)
        BY <2>7
      <4> QED
        BY <2>5, <3>1, <4>1, <4>2, ParseOne
    <3> QED
      BY <2>2, <3>2
  <2>10. \A k \in Rotated : k \in parsed' =>
           brHandled'[k.latch] /\ brHandled'[k.preheader] /\ doInline'[k.header]
    <3> SUFFICES ASSUME NEW k \in Rotated, k \in parsed'
                 PROVE  brHandled'[k.latch] /\ brHandled'[k.preheader] /\ doInline'[k.header]
      OBVIOUS
    <3>1. \A b \in Blocks : handled[b] => brHandled'[b]
      BY <2>2 DEF MarkHandled
    <3>2. k.latch \in Blocks /\ k.preheader \in Blocks /\ k.header \in Blocks
      BY <1>2, RotatedFacts
    <3>3. k \in parsed \/ k = l
      BY <1>2
    <3> QED
      BY <1>2, <2>1, <2>2, <2>6, <3>1, <3>2, <3>3
  <2> QED
    BY <1>1, <1>4, <1>5, <2>9, <2>10 DEF ParseInv
<1>7. CASE ~l.rotated
  <2>1. /\ exprs' = ParseUnhandled(l.blocks, exprs, brHandled)
        /\ brHandled' = MarkHandled(l.blocks, brHandled)
        /\ doInline' = doInline
    BY <1>7 DEF ParseLoop, ParseUnrotatedLoop
  <2>2. \A b \in l.blocks : b \in RotatedLatches \/ b \in RotatedPreheaders => brHandled[b]
    <3> SUFFICES ASSUME NEW b \in l.blocks, NEW k \in Rotated, b = k.latch \/ b = k.preheader
                 PROVE  brHandled[b]
      BY DEF RotatedLatches, RotatedPreheaders, Rotated
    <3>1. k # l
      BY <1>7 DEF Rotated
    <3> QED
      BY <1>3, <3>1
  <2>3. \A b \in Blocks : exprs'[b] = IF brHandled'[b] THEN CodeOf({}, b) ELSE AfterCreateExpressions(b)
    <3> SUFFICES ASSUME NEW b \in Blocks
                 PROVE  exprs'[b] = IF brHandled'[b] THEN CodeOf({}, b)
                                                     ELSE AfterCreateExpressions(b)
      OBVIOUS
    <3>1. /\ exprs \in [Blocks -> Seq(Stmts)] /\ brHandled \in [Blocks -> BOOLEAN] /\ InputOK
          /\ exprs[b] = IF brHandled[b] THEN CodeOf({}, b) ELSE AfterCreateExpressions(b)
      BY <1>2
    <3>2. b \in l.blocks /\ (b \in RotatedLatches \/ b \in RotatedPreheaders) => brHandled[b]
      BY <2>2
    <3>3. ParseUnhandled(l.blocks, exprs, brHandled)[b]
            = IF MarkHandled(l.blocks, brHandled)[b] THEN CodeOf({}, b)
                                                     ELSE AfterCreateExpressions(b)
      BY <3>1, <3>2, ParseOne
    <3> QED
      BY <2>1, <3>3
  <2>4. \A k \in Rotated : k \in parsed' =>
           brHandled'[k.latch] /\ brHandled'[k.preheader] /\ doInline'[k.header]
    <3> SUFFICES ASSUME NEW k \in Rotated, k \in parsed'
                 PROVE  brHandled'[k.latch] /\ brHandled'[k.preheader] /\ doInline'[k.header]
      OBVIOUS
    <3>1. \A b \in Blocks : brHandled[b] => brHandled'[b]
      BY <2>1 DEF MarkHandled
    <3>2. k.latch \in Blocks /\ k.preheader \in Blocks /\ k \in parsed
      BY <1>2, <1>7, RotatedFacts
    <3> QED
      BY <1>2, <2>1, <3>1, <3>2
  <2> QED
    BY <1>1, <1>4, <1>5, <2>3, <2>4 DEF ParseInv
<1> QED
  BY <1>6, <1>7

-----------------------------------------------------------------------------
(* The whole translation.  A goto is replaced if its target is to be        *)
(* inlined, and is no rotated latch that keeps its label.                   *)
Spliced == {t \in Blocks : doInline[t] /\ (t \in RotatedLatches => LatchStaysInline(t))}

\* The headers of rotated loops are entered by their do-while alone, the
\* entry block by the call alone.
InlineOK == /\ \A l \in Rotated : doInline[l.header]
            /\ ~doInline[Entry]

TranslationInv ==
  /\ ParseInv
  /\ pass = "identifyInlinableBlocks" =>
       /\ \A b \in Blocks : exprs[b] = CodeOf({}, b)
       /\ \A l \in Rotated : doInline[l.header]
  /\ pass = "inlineBlocks" =>
       /\ \A b \in Blocks : exprs[b] = CodeOf({}, b)
       /\ InlineOK
  /\ pass = "inlining" =>
       /\ \A b \in Blocks : exprs[b] = CodeOf(IF b < container THEN Inlined ELSE {}, b)
       /\ InlineOK
       /\ \A t \in RotatedLatches : doInline[t] = LatchStaysInline(t)
  /\ pass = "write" =>
       /\ \A b \in Blocks : exprs[b] = CodeOf(Spliced, b)
       /\ \A l \in Rotated : l.header \in Spliced
       /\ ~doInline[Entry]
       /\ \A t \in RotatedLatches : doInline[t]

LEMMA TranslationInit == CFInit => TranslationInv
BY ParseInvInit DEF CFInit, TranslationInv

LEMMA ParseInvElsewhere ==
  ASSUME ParseInv, HandledInv', pass' # "parseBreaks"
  PROVE  ParseInv'
BY DEF ParseInv

LEMMA StepParseLoop ==
  ASSUME TranslationInv, NEW l \in loops, ParseLoop(l)
  PROVE  TranslationInv'
<1>1. ParseInv' /\ pass' = "parseBreaks"
  BY ParseInvLoop DEF TranslationInv, ParseLoop
<1> QED
  BY <1>1 DEF TranslationInv

LEMMA StepParseRemaining ==
  ASSUME TranslationInv, ParseRemainingBlocks, HandledInv'
  PROVE  TranslationInv'
<1>1. /\ InputOK /\ exprs \in [Blocks -> Seq(Stmts)] /\ brHandled \in [Blocks -> BOOLEAN]
      /\ pass = "parseBreaks" /\ pass' = "identifyInlinableBlocks" /\ parsed = loops
      /\ exprs' = ParseUnhandled(Blocks, exprs, brHandled)
      /\ brHandled' = MarkHandled(Blocks, brHandled)
      /\ doInline' = doInline /\ g' = g /\ loops' = loops
      /\ \A b \in Blocks :
            exprs[b] = IF brHandled[b] THEN CodeOf({}, b) ELSE AfterCreateExpressions(b)
      /\ \A k \in Rotated : k \in parsed =>
            brHandled[k.latch] /\ brHandled[k.preheader] /\ doInline[k.header]
  BY DEF TranslationInv, ParseInv, HandledInv, TypeInv, CFTypeOK, ParseRemainingBlocks, inputVars
<1>2. \A k \in Rotated : brHandled[k.latch] /\ brHandled[k.preheader] /\ doInline[k.header]
  BY <1>1 DEF Rotated
<1>3. \A b \in Blocks : b \in RotatedLatches \/ b \in RotatedPreheaders => brHandled[b]
  BY <1>2 DEF RotatedLatches, RotatedPreheaders, Rotated
<1>4. ASSUME NEW b \in Blocks
      PROVE  exprs'[b] = CodeOf({}, b)
  <2>1. exprs'[b] = IF brHandled'[b] THEN CodeOf({}, b) ELSE AfterCreateExpressions(b)
    BY <1>1, <1>3, ParseOne
  <2>2. ~brHandled'[b] => ~HasParsedTerminator(b)
    BY <1>1 DEF MarkHandled
  <2> QED
    BY <1>1, <2>1, <2>2, NotParsed
<1>5. ParseInv'
  BY <1>1, ParseInvElsewhere DEF TranslationInv
<1>6. Rotated' = Rotated /\ \A b \in Blocks : CodeOf({}, b)' = CodeOf({}, b)
  BY <1>1, CodeUnchanged
<1>7. \A l \in Rotated' : doInline'[l.header]
  BY <1>1, <1>2, <1>6
<1> QED
  BY <1>1, <1>4, <1>5, <1>6, <1>7 DEF TranslationInv

LEMMA StepIdentify ==
  ASSUME TranslationInv, IdentifyInlinableBlocks, HandledInv'
  PROVE  TranslationInv'
<1>1. /\ InputOK /\ doInline \in [Blocks -> BOOLEAN]
      /\ pass = "identifyInlinableBlocks" /\ pass' = "inlineBlocks"
      /\ doInline' = [b \in Blocks |-> b # Entry /\ (doInline[b] \/ IsSafeToInline(b))]
      /\ exprs' = exprs /\ g' = g /\ loops' = loops
      /\ \A b \in Blocks : exprs[b] = CodeOf({}, b)
      /\ \A l \in Rotated : doInline[l.header]
  BY DEF TranslationInv, ParseInv, HandledInv, TypeInv, CFTypeOK, IdentifyInlinableBlocks, inputVars
<1>2. ParseInv'
  BY <1>1, ParseInvElsewhere DEF TranslationInv
<1>3. Rotated' = Rotated /\ \A b \in Blocks : CodeOf({}, b)' = CodeOf({}, b)
  BY <1>1, CodeUnchanged
<1>4. InlineOK'
  <2>1. Entry \in Blocks
    BY NAssumption DEF Entry, Blocks
  <2>2. \A l \in Rotated : doInline'[l.header]
    BY <1>1, RotatedFacts
  <2> QED
    BY <1>1, <1>3, <2>1, <2>2 DEF InlineOK
<1> QED
  BY <1>1, <1>2, <1>3, <1>4 DEF TranslationInv

LEMMA StepDoNotInline ==
  ASSUME TranslationInv, DoNotInlineLatches, HandledInv'
  PROVE  TranslationInv'
<1>1. /\ InputOK /\ doInline \in [Blocks -> BOOLEAN]
      /\ pass = "inlineBlocks" /\ pass' = "inlining" /\ container' = 1
      /\ doInline' = [b \in Blocks |->
                        IF b \in RotatedLatches THEN LatchStaysInline(b) ELSE doInline[b]]
      /\ exprs' = exprs /\ g' = g /\ loops' = loops
      /\ \A b \in Blocks : exprs[b] = CodeOf({}, b)
      /\ InlineOK
  BY DEF TranslationInv, ParseInv, HandledInv, TypeInv, CFTypeOK, DoNotInlineLatches, inputVars
<1>2. ParseInv'
  BY <1>1, ParseInvElsewhere DEF TranslationInv
<1>3. /\ Rotated' = Rotated /\ RotatedLatches' = RotatedLatches
      /\ \A b \in Blocks : CodeOf({}, b)' = CodeOf({}, b)
      /\ \A t : LatchStaysInline(t)' = LatchStaysInline(t)
  BY <1>1, CodeUnchanged
<1>4. ASSUME NEW l \in Rotated
      PROVE  doInline'[l.header]
  <2>1. l.header \in Blocks
    BY <1>1, RotatedFacts
  <2>2. CASE l.header \notin RotatedLatches
    BY <1>1, <2>1, <2>2 DEF InlineOK
  <2>3. CASE l.header \in RotatedLatches
    <3>1. PICK k \in Rotated : k.latch = l.header
      BY <2>3 DEF RotatedLatches, Rotated
    <3>2. k = l
      BY <1>1, <3>1, HeaderIsNoLatch DEF Rotated
    <3>3. LatchStaysInline(l.header)
      BY <3>1, <3>2 DEF LatchStaysInline, Rotated
    <3> QED
      BY <1>1, <2>1, <2>3, <3>3
  <2> QED
    BY <2>2, <2>3
<1>5. Entry \in Blocks /\ Entry \notin RotatedLatches
  <2>1. Entry \in Blocks
    BY NAssumption DEF Entry, Blocks
  <2>2. \A l \in Rotated : l.latch # Entry
    BY <1>1, RotatedFacts
  <2> QED
    BY <2>1, <2>2 DEF RotatedLatches, Rotated
<1>6. InlineOK'
  BY <1>1, <1>3, <1>4, <1>5 DEF InlineOK
<1>7. \A b \in Blocks : exprs'[b] = CodeOf(IF b < container THEN Inlined ELSE {}, b)'
  <2> SUFFICES ASSUME NEW b \in Blocks
               PROVE  exprs'[b] = CodeOf(IF b < container THEN Inlined ELSE {}, b)'
    OBVIOUS
  <2>1. ~(b < container')
    BY <1>1 DEF Blocks
  <2> QED
    BY <1>1, <1>3, <2>1
<1>8. \A t \in RotatedLatches : t \in Blocks
  BY <1>1, RotatedFacts DEF RotatedLatches, Rotated
<1>9. \A t \in RotatedLatches : doInline'[t] = LatchStaysInline(t)
  BY <1>1, <1>8
<1> QED
  BY <1>1, <1>2, <1>3, <1>6, <1>7, <1>9 DEF TranslationInv

LEMMA StepInlining ==
  ASSUME TranslationInv, Inlining, HandledInv'
  PROVE  TranslationInv'
<1>1. /\ InputOK /\ exprs \in [Blocks -> Seq(Stmts)]
      /\ pass = "inlining" /\ pass' = "inlining"
      /\ doInline' = doInline /\ g' = g /\ loops' = loops
      /\ stack # <<>> => container \in Blocks
      /\ \A b \in Blocks : exprs[b] = CodeOf(IF b < container THEN Inlined ELSE {}, b)
      /\ InlineOK
      /\ \A t \in RotatedLatches : doInline[t] = LatchStaysInline(t)
  BY DEF TranslationInv, ParseInv, HandledInv, TypeInv, CFTypeOK, Inlining, VisitContainer,
         InlineGoto, FinishTarget, FinishContainer, inputVars, codeVars
<1>2. ParseInv'
  BY <1>1, ParseInvElsewhere DEF TranslationInv
<1> PICK D : D = Inlined
  OBVIOUS
<1>3. Inlined' = D
  BY <1>1 DEF Inlined
<1>4. /\ Rotated' = Rotated /\ RotatedLatches' = RotatedLatches
      /\ \A b \in Blocks : CodeOf({}, b)' = CodeOf({}, b) /\ CodeOf(D, b)' = CodeOf(D, b)
      /\ \A t : LatchStaysInline(t)' = LatchStaysInline(t)
  BY <1>1, CodeUnchanged
<1>5. InlineOK' /\ \A t \in RotatedLatches : doInline'[t] = LatchStaysInline(t)
  BY <1>1, <1>4 DEF InlineOK
<1>6. \A b \in Blocks : exprs'[b] = CodeOf(IF b < container' THEN D ELSE {}, b)
  <2> SUFFICES ASSUME NEW b \in Blocks
               PROVE  exprs'[b] = CodeOf(IF b < container' THEN D ELSE {}, b)
    OBVIOUS
  <2>1. CASE exprs' = exprs /\ container' = container
    BY <1>1, <2>1
  <2>2. CASE FinishContainer
    <3>1. /\ container \in Blocks /\ container' = container + 1
          /\ exprs' = [exprs EXCEPT ![container] = SpliceGotos(exprs[container])]
      <4>1. stack # <<>>
        BY <2>2 DEF FinishContainer
      <4> QED
        BY <1>1, <2>2, <4>1 DEF FinishContainer
    <3>2. CASE b = container
      <4>1. exprs[b] = CodeOf({}, b)
        BY <1>1, <3>1, <3>2 DEF Blocks
      <4>2. exprs'[b] = CodeOf(D, b)
        BY <1>1, <3>1, <3>2, <4>1, SpliceCode
      <4> QED
        BY <3>1, <3>2, <4>2 DEF Blocks
    <3>3. CASE b # container
      <4>1. exprs'[b] = exprs[b]
        BY <1>1, <3>1, <3>3
      <4>2. (b < container') = (b < container)
        BY <3>1, <3>3 DEF Blocks
      <4> QED
        BY <1>1, <4>1, <4>2
    <3> QED
      BY <3>2, <3>3
  <2> QED
    BY <2>1, <2>2 DEF Inlining, VisitContainer, InlineGoto, FinishTarget, inputVars, codeVars
<1>7. \A b \in Blocks : exprs'[b] = CodeOf(IF b < container THEN Inlined ELSE {}, b)'
  BY <1>3, <1>4, <1>6
<1> QED
  BY <1>1, <1>2, <1>4, <1>5, <1>7 DEF TranslationInv

LEMMA StepMarkLatch ==
  ASSUME TranslationInv, MarkLatchBlockAsInlined, HandledInv'
  PROVE  TranslationInv'
<1>1. /\ InputOK /\ doInline \in [Blocks -> BOOLEAN]
      /\ pass = "inlining" /\ pass' = "write" /\ container = N + 1
      /\ doInline' = [b \in Blocks |-> doInline[b] \/ b \in RotatedLatches]
      /\ exprs' = exprs /\ g' = g /\ loops' = loops
      /\ \A b \in Blocks : exprs[b] = CodeOf(IF b < container THEN Inlined ELSE {}, b)
      /\ InlineOK
      /\ \A t \in RotatedLatches : doInline[t] = LatchStaysInline(t)
  BY DEF TranslationInv, ParseInv, HandledInv, TypeInv, CFTypeOK, MarkLatchBlockAsInlined, inputVars
<1>2. ParseInv'
  BY <1>1, ParseInvElsewhere DEF TranslationInv
<1> PICK D : D = Inlined
  OBVIOUS
<1>3. /\ Rotated' = Rotated /\ RotatedLatches' = RotatedLatches
      /\ \A b \in Blocks : CodeOf(D, b)' = CodeOf(D, b)
      /\ \A t : LatchStaysInline(t)' = LatchStaysInline(t)
  <2>1. g' = g /\ loops' = loops
    BY <1>1
  <2> QED
    BY <2>1, CodeUnchanged
<1>4. \A t \in RotatedLatches : t \in Blocks /\ t # Entry
  <2>1. InputOK
    BY <1>1
  <2> SUFFICES ASSUME NEW l \in Rotated PROVE l.latch \in Blocks /\ l.latch # Entry
    BY DEF RotatedLatches, Rotated
  <2> QED
    BY <2>1, RotatedFacts
<1>5. Spliced' = D
  <2>1. \A t \in Blocks :
          (doInline'[t] /\ (t \in RotatedLatches => LatchStaysInline(t))) = doInline[t]
    BY <1>1
  <2> QED
    BY <1>1, <1>3, <2>1 DEF Spliced, Inlined
<1>6. \A b \in Blocks : exprs'[b] = CodeOf(D, b)
  <2>1. \A b \in Blocks : b < container
    BY <1>1, NAssumption DEF Blocks
  <2> QED
    BY <1>1, <2>1
<1>7. \A l \in Rotated : l.header \in D
  BY <1>1, RotatedFacts DEF InlineOK, Inlined
<1>8. ~doInline'[Entry]
  <2>1. Entry \in Blocks
    BY NAssumption DEF Entry, Blocks
  <2> QED
    BY <1>1, <1>4, <2>1 DEF InlineOK
<1>9. \A t \in RotatedLatches : doInline'[t]
  BY <1>1, <1>4
<1>10. \A b \in Blocks : exprs'[b] = CodeOf(Spliced, b)'
  BY <1>3, <1>5, <1>6
<1> QED
  BY <1>1, <1>2, <1>3, <1>5, <1>7, <1>8, <1>9, <1>10 DEF TranslationInv

LEMMA StepStutter ==
  ASSUME TranslationInv, UNCHANGED cfVars, HandledInv'
  PROVE  TranslationInv'
<1>1. /\ g' = g /\ loops' = loops /\ pass' = pass /\ parsed' = parsed /\ exprs' = exprs
      /\ brHandled' = brHandled /\ doInline' = doInline /\ container' = container
  BY DEF cfVars, inputVars, codeVars
<1>2. Inlined' = Inlined /\ Spliced' = Spliced
  BY <1>1, CodeUnchanged DEF Inlined, Spliced
<1> PICK D, E : D = Inlined /\ E = Spliced
  OBVIOUS
<1>3. /\ Rotated' = Rotated /\ RotatedLatches' = RotatedLatches
      /\ \A b \in Blocks : /\ CodeOf({}, b)' = CodeOf({}, b) /\ CodeOf(D, b)' = CodeOf(D, b)
                           /\ CodeOf(E, b)' = CodeOf(E, b)
                           /\ AfterCreateExpressions(b)' = AfterCreateExpressions(b)
      /\ \A t : LatchStaysInline(t)' = LatchStaysInline(t)
  BY <1>1, CodeUnchanged
<1>4. ParseInv'
  BY <1>1, <1>3 DEF TranslationInv, ParseInv
<1>5. InlineOK' = InlineOK
  BY <1>1, <1>3 DEF InlineOK
<1>6. \A b \in Blocks :
        /\ CodeOf(IF b < container THEN Inlined ELSE {}, b)'
             = CodeOf(IF b < container THEN Inlined ELSE {}, b)
        /\ CodeOf(Spliced, b)' = CodeOf(Spliced, b)
  BY <1>1, <1>2, <1>3
<1> QED
  BY <1>1, <1>2, <1>3, <1>4, <1>5, <1>6 DEF TranslationInv

LEMMA TranslationStep == TranslationInv /\ [CFNext]_cfVars => TranslationInv'
<1> SUFFICES ASSUME TranslationInv, [CFNext]_cfVars PROVE TranslationInv'
  OBVIOUS
<1>1. HandledInv'
  BY HandledInvStep DEF TranslationInv, ParseInv
<1> QED
  BY <1>1, StepParseLoop, StepParseRemaining, StepIdentify, StepDoNotInline, StepInlining,
     StepMarkLatch, StepStutter DEF CFNext

WrittenCode == pass = "write" => \A b \in Blocks : exprs[b] = CodeOf(Spliced, b)

\* The writer prints, for a function of any size and any order of its loops,
\* exactly the statements planned for it: parseBreaks gives a rotated loop's
\* latch no terminator and its preheader the do-while and the way out, every
\* other block its own terminator, and inlineBlocks replaces the same gotos in
\* all of them, although the flags it reads change before and after it.
THEOREM CodeAsPlanned == CFSpec => []WrittenCode
<1>1. CFInit => TranslationInv
  BY TranslationInit
<1>2. TranslationInv /\ [CFNext]_cfVars => TranslationInv'
  BY TranslationStep
<1>3. TranslationInv => WrittenCode
  BY DEF TranslationInv, WrittenCode
<1> QED
  BY <1>1, <1>2, <1>3, PTL DEF CFSpec

-----------------------------------------------------------------------------
(* Which block a goto to a block that is inlined can come from. *)

LEMMA SuccessorPlacesFinite ==
  ASSUME IsFunction(g), NEW t
  PROVE  IsFiniteSet(PredEdges(g, t))
<1> DEFINE F == [p \in Blocks |-> {p} \X {i \in DOMAIN g.succ[p] : g.succ[p][i] = t}]
           Fs == {F[p] : p \in Blocks}
<1>1. PredEdges(g, t) = UNION Fs
  BY DEF PredEdges
<1>2. ASSUME NEW p \in Blocks
      PROVE  IsFiniteSet(F[p])
  <2> DEFINE places == {i \in DOMAIN g.succ[p] : g.succ[p][i] = t}
  <2>1. g.succ[p] \in Seq(Blocks)
    BY DEF IsFunction
  <2>2. IsFiniteSet(1..Len(g.succ[p])) /\ places \in SUBSET (1..Len(g.succ[p]))
    BY <2>1, FS_Interval
  <2>3. IsFiniteSet(places)
    BY <2>2, FS_Subset
  <2>4. IsFiniteSet({p} \X places)
    BY <2>3, FS_Singleton, FS_Product
  <2> QED
    BY <2>4
<1>3. IsFiniteSet(Blocks)
  BY FS_Interval, NAssumption DEF Blocks
<1> HIDE DEF F
<1>4. F \in Surjection(Blocks, Fs)
  BY DEF Surjection, F
<1>5. IsFiniteSet(Fs)
  BY <1>3, <1>4, FS_Surjection
<1> QED
  BY <1>1, <1>2, <1>5, FS_UNION

LEMMA OnePredecessor ==
  ASSUME IsFunction(g), NEW t, HasSinglePredecessor(g, t),
         NEW p \in Preds(g, t), NEW q \in Preds(g, t)
  PROVE  p = q
<1>1. IsFiniteSet(PredEdges(g, t)) /\ Cardinality(PredEdges(g, t)) = 1
  BY SuccessorPlacesFinite DEF HasSinglePredecessor
<1>2. PICK e : PredEdges(g, t) = {e}
  BY <1>1, FS_Singleton
<1>3. ASSUME NEW b \in Preds(g, t)
      PROVE  \E i : <<b, i>> \in PredEdges(g, t)
  BY DEF Preds, Succs, PredEdges
<1>4. \E i, j : <<p, i>> = e /\ <<q, j>> = e
  BY <1>2, <1>3
<1> QED
  BY <1>4

\* A goto of a block's statements leads along an edge of the block, or into
\* or out of the rotated loop the block is the preheader of.
GotoSource(b, t) ==
  /\ b \notin RotatedLatches
  /\ \/ b \notin RotatedPreheaders /\ b \in Preds(g, t)
     \/ \E l \in Rotated : b = l.preheader /\ (t = l.header \/ t = AfterDoWhile(l))

HasGoto(s, t) ==
  \/ s.op = "goto" /\ s.to = t
  \/ \E a \in DOMAIN s.arms : \E j \in DOMAIN s.arms[a] :
       s.arms[a][j].op = "goto" /\ s.arms[a][j].to = t

LEMMA TargetIn ==
  ASSUME NEW code, NEW t \in GotoTargets(code)
  PROVE  \E i \in DOMAIN code : HasGoto(code[i], t)
<1> DEFINE InArm(arm) == {arm[i].to : i \in {j \in DOMAIN arm : arm[j].op = "goto"}}
           Arms(i) == {code[i].arms[a] : a \in DOMAIN code[i].arms}
           InArms == UNION {UNION {InArm(arm) : arm \in Arms(i)} : i \in DOMAIN code}
           Own == {code[i].to : i \in {j \in DOMAIN code : code[j].op = "goto"}}
<1>1. t \in Own \/ t \in InArms
  BY Zenon DEF GotoTargets
<1>2. CASE t \in Own
  BY <1>2 DEF HasGoto
<1>3. CASE t \in InArms
  <2>1. PICK i \in DOMAIN code : t \in UNION {InArm(arm) : arm \in Arms(i)}
    BY <1>3, Zenon
  <2>2. PICK arm \in Arms(i) : t \in InArm(arm)
    BY <2>1, Zenon
  <2>3. PICK a \in DOMAIN code[i].arms : arm = code[i].arms[a]
    BY <2>2, Zenon
  <2>4. PICK j \in DOMAIN arm : arm[j].op = "goto" /\ arm[j].to = t
    BY <2>2, Zenon
  <2> QED
    BY <2>3, <2>4, Zenon DEF HasGoto
<1> QED
  BY <1>1, <1>2, <1>3

\* Statements whose gotos lead to blocks of T, simple ones and all.
OnlyTo(T) == {s \in SimpleStmts : s.op = "goto" => s.to \in T}

LeadsTo(T) == {s \in Stmts : \A t : HasGoto(s, t) => t \in T}

LEMMA TargetsOnly ==
  ASSUME NEW T, NEW code \in Seq(LeadsTo(T))
  PROVE  GotoTargets(code) \subseteq T
<1> SUFFICES ASSUME NEW t \in GotoTargets(code) PROVE t \in T
  OBVIOUS
<1>1. PICK i \in DOMAIN code : HasGoto(code[i], t)
  BY TargetIn
<1>2. code[i] \in LeadsTo(T)
  OBVIOUS
<1> QED
  BY <1>1, <1>2 DEF LeadsTo

LEMMA PhisOnlyTo ==
  ASSUME NEW from \in Blocks, NEW to \in Blocks, NEW isLoop \in BOOLEAN,
         NEW isNegated \in BOOLEAN, NEW T
  PROVE  GeneratePhiAssignments(from, to, isLoop, isNegated) \in Seq(OnlyTo(T))
<1> DEFINE s == [Simple(IF isLoop THEN "select" ELSE "phi", from, to) EXCEPT !.neg = isNegated]
<1>1. s \in OnlyTo(T)
  BY DEF Simple, SimpleStmts, StmtOps, OnlyTo
<1> HIDE DEF s
<1>2. <<s>> \in Seq(OnlyTo(T)) /\ <<>> \in Seq(OnlyTo(T))
  BY <1>1
<1> QED
  BY <1>2 DEF GeneratePhiAssignments, s

LEMMA JumpOnlyTo ==
  ASSUME NEW D, NEW t \in Blocks
  PROVE  <<JumpTo(D, t)>> \in Seq(OnlyTo({t}))
<1>1. JumpTo(D, t) \in OnlyTo({t})
  BY JumpToType DEF OnlyTo, JumpTo, Simple
<1> QED
  BY <1>1

LEMMA EdgeOnlyTo ==
  ASSUME NEW D, NEW from \in Blocks, NEW to \in Blocks
  PROVE  EdgeCode(D, from, to) \in Seq(OnlyTo({to}))
<1> DEFINE T == {to}
<1>1. GeneratePhiAssignments(from, to, FALSE, FALSE) \in Seq(OnlyTo(T))
  BY PhisOnlyTo
<1>2. <<JumpTo(D, to)>> \in Seq(OnlyTo(T))
  BY JumpOnlyTo
<1> QED
  BY <1>1, <1>2, ConcatType DEF EdgeCode

LEMMA LiftLeadsTo ==
  ASSUME NEW T, NEW code \in Seq(OnlyTo(T))
  PROVE  Lift(code) \in Seq(LeadsTo(T))
<1>1. ASSUME NEW s \in OnlyTo(T)
      PROVE  Plain(s) \in LeadsTo(T)
  <2>1. s \in SimpleStmts /\ (s.op = "goto" => s.to \in T)
    BY DEF OnlyTo
  <2>2. Plain(s) \in Stmts
    BY <2>1, PlainType
  <2>3. \A t : HasGoto(Plain(s), t) => t \in T
    BY <2>1 DEF HasGoto, Plain, Nested
  <2> QED
    BY <2>2, <2>3 DEF LeadsTo
<1>2. \A i \in 1..Len(code) : Plain(code[i]) \in LeadsTo(T)
  BY <1>1
<1> QED
  BY <1>2 DEF Lift

LEMMA NestedLeadsTo ==
  ASSUME NEW T, NEW op, op # "goto", NEW at, NEW to, NEW neg, NEW arms \in Seq(Seq(OnlyTo(T))),
         Nested(op, at, to, neg, arms) \in Stmts
  PROVE  Nested(op, at, to, neg, arms) \in LeadsTo(T)
<1> DEFINE s == Nested(op, at, to, neg, arms)
<1>1. s.op = op /\ s.arms = arms
  BY DEF Nested
<1>2. ASSUME NEW a \in DOMAIN arms, NEW j \in DOMAIN arms[a], arms[a][j].op = "goto"
      PROVE  arms[a][j].to \in T
  <2>1. arms[a] \in Seq(OnlyTo(T))
    OBVIOUS
  <2>2. arms[a][j] \in OnlyTo(T)
    BY <2>1
  <2> QED
    BY <1>2, <2>2 DEF OnlyTo
<1> HIDE DEF s
<1>3. \A t : HasGoto(s, t) => t \in T
  BY <1>1, <1>2 DEF HasGoto
<1> QED
  BY <1>3 DEF LeadsTo, s

LEMMA LoopArmOnlyTo ==
  ASSUME InputOK, NEW D, NEW l \in Rotated
  PROVE  LoopArm(D, l) \in Seq(OnlyTo({l.header}))
<1> DEFINE T == {l.header}
           latchPhis == GeneratePhiAssignments(l.header, l.latch, FALSE, Negated(l))
           first == IF l.header = l.latch THEN <<>> ELSE latchPhis
           jump == <<JumpTo(D, l.header)>>
           wrap == IF l.header = l.latch \/ HeaderGotoLatch(l) THEN <<>> ELSE <<LatchExpr(l.latch)>>
           selects == GeneratePhiAssignments(l.latch, l.header, TRUE, Negated(l))
<1>1. l.header \in Blocks /\ l.latch \in Blocks /\ Negated(l) \in BOOLEAN
  BY RotatedFacts DEF Negated
<1>2. latchPhis \in Seq(OnlyTo(T)) /\ selects \in Seq(OnlyTo(T))
  <2>1. TRUE \in BOOLEAN /\ FALSE \in BOOLEAN
    OBVIOUS
  <2> QED
    BY <1>1, <2>1, PhisOnlyTo, Zenon
<1>3. jump \in Seq(OnlyTo(T))
  BY <1>1, JumpOnlyTo
<1>4. wrap \in Seq(OnlyTo(T))
  <2>1. LatchExpr(l.latch) \in OnlyTo(T)
    BY <1>1, GotoType DEF OnlyTo, LatchExpr, Simple
  <2>2. <<LatchExpr(l.latch)>> \in Seq(OnlyTo(T)) /\ <<>> \in Seq(OnlyTo(T))
    BY <2>1
  <2> QED
    BY <2>2
<1>5. first \in Seq(OnlyTo(T))
  <2>1. <<>> \in Seq(OnlyTo(T))
    OBVIOUS
  <2> HIDE DEF latchPhis, T
  <2> QED
    BY <1>2, <2>1
<1>6. LoopArm(D, l) = first \o jump \o wrap \o selects
  BY DEF LoopArm
<1> HIDE DEF first, jump, wrap, selects
<1> QED
  BY <1>2, <1>3, <1>4, <1>5, <1>6, ConcatType

LEMMA LoopCodeLeadsTo ==
  ASSUME InputOK, NEW D, NEW l \in Rotated
  PROVE  LoopCode(D, l) \in Seq(LeadsTo({l.header, AfterDoWhile(l)}))
<1> DEFINE T == {l.header, AfterDoWhile(l)}
           phis == Lift(GeneratePhiAssignments(l.preheader, l.header, FALSE, FALSE))
           do == <<DoLoop(D, l)>>
           way == WayOut(D, l)
<1>1. /\ l.header \in Blocks /\ l.latch \in Blocks /\ l.preheader \in Blocks
      /\ AfterDoWhile(l) \in Blocks
  BY RotatedFacts
<1>2. \A U, V : U \subseteq V => OnlyTo(U) \subseteq OnlyTo(V)
  BY DEF OnlyTo
<1>3. phis \in Seq(LeadsTo(T))
  BY <1>1, PhisOnlyTo, LiftLeadsTo
<1>4. way \in Seq(LeadsTo(T))
  <2>1. EdgeCode(D, l.latch, AfterDoWhile(l)) \in Seq(OnlyTo({AfterDoWhile(l)}))
    BY <1>1, EdgeOnlyTo
  <2>2. EdgeCode(D, l.latch, AfterDoWhile(l)) \in Seq(OnlyTo(T))
    BY <1>2, <2>1
  <2> QED
    BY <2>2, LiftLeadsTo DEF WayOut
<1>5. do \in Seq(LeadsTo(T))
  <2>1. LoopArm(D, l) \in Seq(OnlyTo(T))
    <3>1. LoopArm(D, l) \in Seq(OnlyTo({l.header}))
      BY LoopArmOnlyTo
    <3> QED
      BY <1>2, <3>1
  <2>2. <<LoopArm(D, l)>> \in Seq(Seq(OnlyTo(T)))
    BY <2>1
  <2>3. DoLoop(D, l) \in LeadsTo(T)
    BY <2>2, NestedLeadsTo, DoLoopType DEF DoLoop
  <2> QED
    BY <2>3
<1>6. LoopCode(D, l) = phis \o do \o way
  BY DEF LoopCode
<1> HIDE DEF phis, do, way, T
<1>7. LoopCode(D, l) \in Seq(LeadsTo(T))
  BY <1>3, <1>4, <1>5, <1>6, ConcatType
<1> QED
  BY <1>7 DEF T

LEMMA CodeLeadsTo ==
  ASSUME InputOK, NEW D, NEW b \in Blocks, NEW t \in GotoTargets(CodeOf(D, b))
  PROVE  GotoSource(b, t)
<1> DEFINE T == {u \in Blocks : GotoSource(b, u)}
           term == TermCode(D, b)
           body == <<Body(b)>>
<1>1. \A U, V : U \subseteq V => OnlyTo(U) \subseteq OnlyTo(V) /\ LeadsTo(U) \subseteq LeadsTo(V)
  BY DEF OnlyTo, LeadsTo
<1>2. g.succ[b] \in Seq(Blocks)
  BY SuccType
<1>3. <<>> \in Seq(LeadsTo(T))
  OBVIOUS
<1>4. ASSUME b \in RotatedPreheaders, b \notin RotatedLatches
      PROVE  term \in Seq(LeadsTo(T))
  <2>1. PICK l \in Rotated : b = l.preheader
    BY <1>4 DEF RotatedPreheaders
  <2>2. term = LoopCode(D, l)
    BY <1>4, <2>1, LoopAtIs DEF TermCode
  <2>3. {l.header, AfterDoWhile(l)} \subseteq T
    BY <1>4, <2>1, RotatedFacts DEF GotoSource
  <2>4. LoopCode(D, l) \in Seq(LeadsTo({l.header, AfterDoWhile(l)}))
    BY LoopCodeLeadsTo
  <2> HIDE DEF T, term
  <2>5. LeadsTo({l.header, AfterDoWhile(l)}) \subseteq LeadsTo(T)
    BY <1>1, <2>3
  <2> DEFINE U == LeadsTo({l.header, AfterDoWhile(l)})
             V == LeadsTo(T)
  <2>6. LoopCode(D, l) \in Seq(U) /\ U \subseteq V
    BY <2>4, <2>5
  <2> HIDE DEF U, V
  <2>7. LoopCode(D, l) \in Seq(V)
    BY <2>6
  <2> QED
    BY <2>2, <2>7 DEF V
<1>5. ASSUME b \notin RotatedPreheaders, b \notin RotatedLatches
      PROVE  term \in Seq(LeadsTo(T))
  <2>1. ASSUME NEW i \in DOMAIN g.succ[b]
        PROVE  g.succ[b][i] \in T
    BY <1>2, <1>5 DEF GotoSource, Preds, Succs
  <2>2. ASSUME NEW i \in DOMAIN g.succ[b]
        PROVE  /\ EdgeCode(D, b, g.succ[b][i]) \in Seq(OnlyTo(T))
               /\ <<JumpTo(D, g.succ[b][i])>> \in Seq(OnlyTo(T))
    <3> DEFINE u == g.succ[b][i]
    <3>1. u \in Blocks /\ {u} \subseteq T
      BY <2>1
    <3> HIDE DEF u, T
    <3>2. OnlyTo({u}) \subseteq OnlyTo(T)
      BY <1>1, <3>1
    <3>3. EdgeCode(D, b, u) \in Seq(OnlyTo({u})) /\ <<JumpTo(D, u)>> \in Seq(OnlyTo({u}))
      BY <3>1, EdgeOnlyTo, JumpOnlyTo
    <3>4. EdgeCode(D, b, u) \in Seq(OnlyTo(T)) /\ <<JumpTo(D, u)>> \in Seq(OnlyTo(T))
      BY <3>2, <3>3
    <3> QED
      BY <3>4 DEF u
  <2>3. term \in Seq(Stmts)
    BY TermCodeType
  <2>4. CASE g.term[b] = "ret"
    <3>1. term = <<ParseRETURN(b)>>
      BY <1>5, <2>4 DEF TermCode
    <3>2. ParseRETURN(b) \in Stmts
      <4>1. Simple("ret", b, b) \in SimpleStmts
        BY SimpleType DEF StmtOps
      <4> QED
        BY <4>1, PlainType DEF ParseRETURN
    <3>3. \A u : ~HasGoto(ParseRETURN(b), u)
      BY DEF ParseRETURN, Plain, Nested, Simple, HasGoto
    <3>4. ParseRETURN(b) \in LeadsTo(T)
      BY <3>2, <3>3 DEF LeadsTo
    <3> QED
      BY <3>1, <3>4
  <2>5. CASE g.term[b] = "br"
    <3>1. term = Lift(EdgeCode(D, b, g.succ[b][1]))
      BY <1>5, <2>5 DEF TermCode
    <3>2. Len(g.succ[b]) = 1
      BY <2>5 DEF InputOK, TerminatorsOK
    <3>3. 1 \in DOMAIN g.succ[b]
      BY <1>2, <3>2
    <3>4. EdgeCode(D, b, g.succ[b][1]) \in Seq(OnlyTo(T))
      BY <2>2, <3>3
    <3> QED
      BY <3>1, <3>4, LiftLeadsTo
  <2>6. CASE g.term[b] = "cond"
    <3> DEFINE arms == [i \in 1..2 |-> EdgeCode(D, b, g.succ[b][i])]
    <3>1. term = <<IfCode(D, b)>>
      BY <1>5, <2>6 DEF TermCode
    <3>2. IfCode(D, b) \in Stmts
      BY <2>3, <3>1
    <3>3. Len(g.succ[b]) = 2
      BY <2>6 DEF InputOK, TerminatorsOK
    <3>4. 1..2 = DOMAIN g.succ[b]
      BY <1>2, <3>3
    <3>5. \A i \in 1..2 : EdgeCode(D, b, g.succ[b][i]) \in Seq(OnlyTo(T))
      BY <2>2, <3>4
    <3> HIDE DEF T, term
    <3>6. arms \in Seq(Seq(OnlyTo(T)))
      BY <3>5
    <3>7. IfCode(D, b) \in LeadsTo(T)
      BY <3>2, <3>6, NestedLeadsTo DEF IfCode
    <3> QED
      BY <3>1, <3>7
  <2>7. CASE g.term[b] = "switch"
    <3> DEFINE arms == [i \in 1..Len(g.succ[b]) |-> <<JumpTo(D, g.succ[b][i])>>]
    <3>1. term = <<SwitchCode(D, b)>>
      BY <1>5, <2>7 DEF TermCode
    <3>2. SwitchCode(D, b) \in Stmts
      BY <2>3, <3>1
    <3>3. Len(g.succ[b]) \in Nat /\ 1..Len(g.succ[b]) = DOMAIN g.succ[b]
      BY <1>2
    <3>4. \A i \in 1..Len(g.succ[b]) : <<JumpTo(D, g.succ[b][i])>> \in Seq(OnlyTo(T))
      BY <2>2, <3>3
    <3> HIDE DEF T, term
    <3>5. arms \in Seq(Seq(OnlyTo(T)))
      BY <3>3, <3>4
    <3>6. SwitchCode(D, b) \in LeadsTo(T)
      BY <3>2, <3>5, NestedLeadsTo DEF SwitchCode
    <3> QED
      BY <3>1, <3>6
  <2>8. CASE g.term[b] \notin {"ret", "br", "cond", "switch"}
    <3>1. term = <<>>
      BY <1>5, <2>8 DEF TermCode
    <3> QED
      BY <1>3, <3>1
  <2> QED
    BY <2>4, <2>5, <2>6, <2>7, <2>8
<1>6. term \in Seq(LeadsTo(T))
  <2>1. CASE b \in RotatedLatches
    BY <1>3, <2>1 DEF TermCode
  <2> QED
    BY <1>4, <1>5, <2>1
<1>7. body \in Seq(LeadsTo(T))
  <2>1. \A u : ~HasGoto(Body(b), u)
    BY DEF Body, Plain, Nested, Simple, HasGoto
  <2>2. Body(b) \in Stmts
    BY BodyType
  <2>3. Body(b) \in LeadsTo(T)
    BY <2>1, <2>2 DEF LeadsTo
  <2> QED
    BY <2>3
<1>8. CodeOf(D, b) = body \o term
  BY DEF CodeOf
<1> HIDE DEF T, term, body
<1>9. CodeOf(D, b) \in Seq(LeadsTo(T))
  BY <1>6, <1>7, <1>8, ConcatType
<1>10. t \in T
  BY <1>9, TargetsOnly
<1> QED
  BY <1>10 DEF T

-----------------------------------------------------------------------------
(* InliningVisitor's activations. *)

Headers == {l.header : l \in Rotated}

NoSuccessors(b) == \A t : b \notin Preds(g, t)

\* A block that is nothing but a return.
Lone(b) == g.term[b] = "ret" /\ b \in g.bare

\* parseBreaks marks the headers of rotated loops, identifyInlinableBlocks the
\* blocks with one predecessor and those with a return of their own, and
\* inlineBlocks the latches of rotated loops.
MarkedInv ==
  /\ pass \in {"parseBreaks", "identifyInlinableBlocks"} =>
       \A b \in Blocks : doInline[b] => b \in Headers
  /\ pass \in {"inlineBlocks", "inlining", "write"} =>
       \A b \in Blocks : doInline[b] =>
         /\ b # Entry
         /\ \/ b \in Headers \/ HasSinglePredecessor(g, b) \/ Lone(b)
            \/ b \in RotatedLatches

\* A block that is visited is one the block below it has a goto to.
StackInv ==
  /\ stack # <<>> => pass = "inlining"
  /\ \A m \in DOMAIN stack :
       /\ stack[m].block \in Blocks
       /\ \A t \in stack[m].todo : t \in Blocks /\ doInline[t] /\ GotoSource(stack[m].block, t)
       /\ m # 1 => /\ doInline[stack[m].block]
                   /\ GotoSource(stack[m-1].block, stack[m].block)

InliningInv == TranslationInv /\ MarkedInv /\ StackInv

LEMMA SeqOfOne ==
  ASSUME NEW S, NEW T, NEW s \in Seq(S), Len(s) = 1, s[1] \in T
  PROVE  s \in Seq(T)
<1>1. s = <<s[1]>>
  OBVIOUS
<1>2. \A x \in T : <<x>> \in Seq(T)
  OBVIOUS
<1>3. <<s[1]>> \in Seq(T)
  BY <1>2, Zenon
<1> QED
  BY <1>1, <1>3, Zenon

LEMMA LoneLeadsNowhere ==
  ASSUME InputOK, NEW b \in Blocks, Lone(b)
  PROVE  NoSuccessors(b)
BY DEF Lone, NoSuccessors, Preds, Succs, InputOK, TerminatorsOK

\* What IsOnlyReturn finds in the code is a block that is nothing but a return.
LEMMA OnlyReturn ==
  ASSUME InputOK, NEW b \in Blocks, exprs[b] = CodeOf({}, b), IsOnlyReturn(b)
  PROVE  Lone(b) \/ b \in RotatedLatches
<1> DEFINE term == TermCode({}, b)
           body == <<Body(b)>>
<1>1. body \in Seq(Stmts) /\ term \in Seq(Stmts) /\ exprs[b] = body \o term
  BY BodyType, TermCodeType DEF CodeOf
<1>2. Len(body) = 1
  OBVIOUS
<1>3. Len(exprs[b]) = 2 /\ exprs[b][2].op = "ret"
  BY DEF IsOnlyReturn
<1> HIDE DEF term, body
<1>4. Len(term) = 1 /\ term[1].op = "ret"
  <2>1. Len(body \o term) = Len(body) + Len(term) /\ Len(term) \in Nat
    <3>1. body \in Seq(Stmts) /\ term \in Seq(Stmts)
      BY <1>1
    <3> QED
      BY <3>1
  <2>2. Len(term) = 1
    <3>1. Len(body \o term) = 2 /\ Len(body) = 1
      BY <1>1, <1>2, <1>3
    <3> QED
      BY <2>1, <3>1
  <2>3. term[1].op = "ret"
    <3> DEFINE NoRet == {s \in Stmts : s.op # "ret"}
    <3> SUFFICES ASSUME term[1].op # "ret" PROVE FALSE
      OBVIOUS
    <3>1. term[1] \in NoRet
      BY <1>1, <2>2
    <3>2. body[1] \in NoRet
      BY BodyType DEF body, Body, Plain, Nested, Simple
    <3> HIDE DEF NoRet
    <3>3. term \in Seq(NoRet) /\ body \in Seq(NoRet)
      BY <1>1, <1>2, <2>2, <3>1, <3>2, SeqOfOne
    <3>4. exprs[b] \in Seq(NoRet)
      BY <1>1, <3>3, ConcatType
    <3>5. exprs[b][2] \in NoRet
      BY <1>3, <3>4
    <3> QED
      BY <1>3, <3>5 DEF NoRet
  <2> QED
    BY <2>2, <2>3
<1>5. SUFFICES ASSUME b \notin RotatedLatches PROVE g.term[b] = "ret"
  BY DEF Lone, IsOnlyReturn
<1>6. CASE b \in RotatedPreheaders
  <2>1. PICK l \in Rotated : b = l.preheader
    BY <1>6 DEF RotatedPreheaders
  <2> DEFINE phis == Lift(GeneratePhiAssignments(l.preheader, l.header, FALSE, FALSE))
             do == <<DoLoop({}, l)>>
             way == WayOut({}, l)
  <2>2. phis \in Seq(Stmts) /\ do \in Seq(Stmts) /\ way \in Seq(Stmts)
    BY LoopCodeType
  <2>3. term = phis \o do \o way
    <3>1. LoopAt(b) = l
      BY <2>1, LoopAtIs
    <3> QED
      BY <1>5, <1>6, <3>1 DEF term, TermCode, LoopCode
  <2>4. Len(do) = 1 /\ do[1].op = "do"
    BY DEF DoLoop, Nested
  <2>5. phis # <<>> => phis[1].op = "phi"
    BY DEF GeneratePhiAssignments, Lift, Plain, Nested, Simple
  <2> HIDE DEF phis, do, way
  <2>6. IF phis = <<>> THEN term[1] = do[1] ELSE term[1] = phis[1]
    BY <2>2, <2>3, <2>4
  <2> QED
    BY <1>4, <2>4, <2>5, <2>6
<1>7. CASE b \notin RotatedPreheaders
  <2>1. CASE g.term[b] = "br"
    <3> DEFINE to == g.succ[b][1]
               phis == GeneratePhiAssignments(b, to, FALSE, FALSE)
               code == EdgeCode({}, b, to)
    <3>1. to \in Blocks
      BY <2>1, SuccType
    <3>2. code \in Seq(SimpleStmts) /\ term = Lift(code)
      BY <1>5, <1>7, <2>1, <3>1, EdgeCodeType DEF term, TermCode
    <3>3. ASSUME NEW i \in DOMAIN code
          PROVE  code[i].op # "ret"
      <4> DEFINE last == <<JumpTo({}, to)>>
                 NoRet == {s \in SimpleStmts : s.op # "ret"}
      <4>1. phis \in Seq(NoRet)
        <5> DEFINE s == [Simple("phi", b, to) EXCEPT !.neg = FALSE]
        <5>1. s \in NoRet
          BY <3>1 DEF Simple, SimpleStmts, StmtOps
        <5> HIDE DEF s, NoRet
        <5>2. <<s>> \in Seq(NoRet) /\ <<>> \in Seq(NoRet)
          BY <5>1
        <5> QED
          BY <5>2 DEF GeneratePhiAssignments, s
      <4>2. JumpTo({}, to) \in NoRet
        BY <3>1, JumpToType DEF JumpTo, Simple
      <4> HIDE DEF NoRet
      <4>3. last \in Seq(NoRet)
        BY <4>2
      <4>4. code \in Seq(NoRet)
        BY <4>1, <4>3, ConcatType DEF EdgeCode
      <4>5. code[i] \in NoRet
        BY <4>4
      <4> QED
        BY <4>5 DEF NoRet
    <3> HIDE DEF code
    <3>4. 1 \in DOMAIN code /\ term[1].op = code[1].op
      BY <1>4, <3>2 DEF Lift, Plain, Nested
    <3> QED
      BY <1>4, <3>3, <3>4
  <2>2. CASE g.term[b] = "cond"
    BY <1>4, <1>5, <1>7, <2>2 DEF term, TermCode, IfCode, Nested
  <2>3. CASE g.term[b] = "switch"
    BY <1>4, <1>5, <1>7, <2>3 DEF term, TermCode, SwitchCode, Nested
  <2>4. CASE g.term[b] \notin {"ret", "br", "cond", "switch"}
    <3>1. term = <<>>
      BY <1>5, <1>7, <2>4 DEF term, TermCode
    <3> QED
      BY <1>4, <3>1
  <2> QED
    BY <2>1, <2>2, <2>3, <2>4
<1> QED
  BY <1>6, <1>7

LEMMA MarkedInvInit == CFInit => MarkedInv
BY DEF CFInit, MarkedInv

LEMMA MarkedInvStep ==
  ASSUME TranslationInv, MarkedInv, [CFNext]_cfVars
  PROVE  MarkedInv'
<1>1. /\ InputOK /\ doInline \in [Blocks -> BOOLEAN] /\ pass \in Passes
      /\ pass = "identifyInlinableBlocks" => \A b \in Blocks : exprs[b] = CodeOf({}, b)
  BY DEF TranslationInv, ParseInv, HandledInv, TypeInv, CFTypeOK
<1>2. g' = g /\ loops' = loops
  BY DEF CFNext, ParseLoop, ParseRemainingBlocks, IdentifyInlinableBlocks, DoNotInlineLatches,
         Inlining, VisitContainer, InlineGoto, FinishTarget, FinishContainer,
         MarkLatchBlockAsInlined, inputVars, cfVars
<1>3. /\ Headers' = Headers /\ RotatedLatches' = RotatedLatches
      /\ \A b : /\ HasSinglePredecessor(g, b)' = HasSinglePredecessor(g, b)
                /\ Lone(b)' = Lone(b)
  BY <1>2, CodeUnchanged DEF Headers, HasSinglePredecessor, PredEdges, Lone
<1>4. ASSUME NEW l \in loops, ParseLoop(l)
      PROVE  MarkedInv'
  <2>1. pass = "parseBreaks" /\ pass' = pass
    BY <1>4 DEF ParseLoop
  <2>2. \A b \in Blocks : doInline'[b] => doInline[b] \/ (l.rotated /\ b = l.header)
    BY <1>1, <1>4 DEF ParseLoop, ParseRotatedLoop, ParseUnrotatedLoop
  <2>3. l.rotated => l.header \in Headers
    BY DEF Headers, Rotated
  <2> QED
    BY <1>3, <2>1, <2>2, <2>3 DEF MarkedInv
<1>5. CASE ParseRemainingBlocks
  BY <1>3, <1>5 DEF ParseRemainingBlocks, MarkedInv
<1>6. CASE IdentifyInlinableBlocks
  <2>1. /\ pass = "identifyInlinableBlocks" /\ pass' = "inlineBlocks"
        /\ doInline' = [b \in Blocks |-> b # Entry /\ (doInline[b] \/ IsSafeToInline(b))]
    BY <1>6 DEF IdentifyInlinableBlocks
  <2>2. ASSUME NEW b \in Blocks, doInline'[b]
        PROVE  /\ b # Entry
               /\ \/ b \in Headers \/ HasSinglePredecessor(g, b) \/ Lone(b)
                  \/ b \in RotatedLatches
    <3>1. b # Entry /\ (doInline[b] \/ IsSafeToInline(b))
      BY <2>1, <2>2
    <3>2. doInline[b] => b \in Headers
      BY <2>1 DEF MarkedInv
    <3>3. IsOnlyReturn(b) => Lone(b) \/ b \in RotatedLatches
      BY <1>1, <2>1, OnlyReturn
    <3> QED
      BY <3>1, <3>2, <3>3 DEF IsSafeToInline
  <2> QED
    BY <1>3, <2>1, <2>2 DEF MarkedInv
<1>7. CASE DoNotInlineLatches
  <2>1. /\ pass = "inlineBlocks" /\ pass' = "inlining"
        /\ doInline' = [b \in Blocks |->
                          IF b \in RotatedLatches THEN LatchStaysInline(b) ELSE doInline[b]]
    BY <1>7 DEF DoNotInlineLatches
  <2>2. Entry \notin RotatedLatches
    BY <1>1, RotatedFacts DEF RotatedLatches, Rotated
  <2>3. ASSUME NEW b \in Blocks, doInline'[b]
        PROVE  /\ b # Entry
               /\ \/ b \in Headers \/ HasSinglePredecessor(g, b) \/ Lone(b)
                  \/ b \in RotatedLatches
    BY <2>1, <2>2, <2>3 DEF MarkedInv
  <2> QED
    BY <1>3, <2>1, <2>3 DEF MarkedInv
<1>8. CASE Inlining \/ UNCHANGED cfVars
  <2>1. pass' = pass /\ doInline' = doInline
    BY <1>8 DEF Inlining, VisitContainer, InlineGoto, FinishTarget, FinishContainer, cfVars, codeVars
  <2> QED
    BY <1>3, <2>1 DEF MarkedInv
<1>9. CASE MarkLatchBlockAsInlined
  <2>1. /\ pass = "inlining" /\ pass' = "write"
        /\ doInline' = [b \in Blocks |-> doInline[b] \/ b \in RotatedLatches]
    BY <1>9 DEF MarkLatchBlockAsInlined
  <2>2. Entry \notin RotatedLatches
    BY <1>1, RotatedFacts DEF RotatedLatches, Rotated
  <2>3. ASSUME NEW b \in Blocks, doInline'[b]
        PROVE  /\ b # Entry
               /\ \/ b \in Headers \/ HasSinglePredecessor(g, b) \/ Lone(b)
                  \/ b \in RotatedLatches
    BY <2>1, <2>2, <2>3 DEF MarkedInv
  <2> QED
    BY <1>3, <2>1, <2>3 DEF MarkedInv
<1> QED
  BY <1>4, <1>5, <1>6, <1>7, <1>8, <1>9 DEF CFNext

LEMMA ActivationTargets ==
  ASSUME TranslationInv, pass = "inlining", NEW b \in Blocks, NEW t \in Activation(b).todo
  PROVE  t \in Blocks /\ doInline[t] /\ GotoSource(b, t)
<1>1. InputOK /\ exprs[b] \in Seq(Stmts)
  BY DEF TranslationInv, ParseInv, HandledInv, TypeInv, CFTypeOK
<1>2. t \in GotoTargets(exprs[b]) /\ doInline[t]
  BY DEF Activation
<1>3. exprs[b] = CodeOf(IF b < container THEN Inlined ELSE {}, b)
  BY DEF TranslationInv
<1> PICK D : D = IF b < container THEN Inlined ELSE {}
  OBVIOUS
<1>4. GotoSource(b, t)
  BY <1>1, <1>2, <1>3, CodeLeadsTo
<1> QED
  BY <1>1, <1>2, <1>4, TargetsType

LEMMA StackInvStep ==
  ASSUME InliningInv, [CFNext]_cfVars
  PROVE  StackInv'
<1>1. /\ InputOK /\ stack \in Seq(Activations) /\ TranslationInv /\ StackInv
  BY DEF InliningInv, TranslationInv, ParseInv, HandledInv, TypeInv, CFTypeOK
<1>2. g' = g /\ loops' = loops
  BY DEF CFNext, ParseLoop, ParseRemainingBlocks, IdentifyInlinableBlocks, DoNotInlineLatches,
         Inlining, VisitContainer, InlineGoto, FinishTarget, FinishContainer,
         MarkLatchBlockAsInlined, inputVars, cfVars
<1>3. \A b, t : GotoSource(b, t)' = GotoSource(b, t)
  <2>1. /\ Rotated' = Rotated /\ RotatedLatches' = RotatedLatches
        /\ RotatedPreheaders' = RotatedPreheaders
    BY <1>2, CodeUnchanged DEF RotatedPreheaders
  <2>2. \A l : AfterDoWhile(l)' = AfterDoWhile(l)
    BY <1>2 DEF AfterDoWhile
  <2> QED
    BY <1>2, <2>1, <2>2 DEF GotoSource, Preds, Succs
<1>4. CASE stack' = <<>>
  BY <1>4 DEF StackInv
<1>5. CASE stack' = stack /\ pass' = pass /\ doInline' = doInline
  BY <1>1, <1>3, <1>5 DEF StackInv
<1>6. CASE VisitContainer
  <2>1. /\ pass = "inlining" /\ pass' = pass /\ stack' = <<Activation(container)>>
        /\ container \in Blocks /\ doInline' = doInline
    BY <1>6 DEF VisitContainer, codeVars
  <2>2. Activation(container).block = container
    BY DEF Activation
  <2>3. \A t \in Activation(container).todo : t \in Blocks /\ doInline[t] /\ GotoSource(container, t)
    BY <1>1, <2>1, ActivationTargets
  <2> QED
    BY <1>3, <2>1, <2>2, <2>3 DEF StackInv
<1>7. ASSUME NEW t \in Blocks, InlineGoto(t)
      PROVE  StackInv'
  <2> DEFINE n == Len(stack)
             below == [stack EXCEPT ![n].todo = @ \ {t}]
             act == Activation(t)
  <2>1. /\ pass = "inlining" /\ pass' = pass /\ doInline' = doInline
        /\ stack # <<>> /\ t \in stack[n].todo /\ stack' = Append(below, act)
    BY <1>7 DEF InlineGoto, Top, codeVars
  <2>2. n \in DOMAIN stack /\ n \in Nat /\ DOMAIN stack = 1..n
    BY <1>1, <2>1
  <2>3. act.block = t /\ \A u \in act.todo : u \in Blocks /\ doInline[u] /\ GotoSource(t, u)
    BY <1>1, <2>1, ActivationTargets DEF Activation
  <2>4. doInline[t] /\ GotoSource(stack[n].block, t)
    BY <1>1, <2>1, <2>2 DEF StackInv
  <2>5. /\ below \in Seq(Activations) /\ DOMAIN below = 1..n /\ Len(below) = n
        /\ \A m \in 1..n : /\ below[m].block = stack[m].block
                            /\ below[m].todo \subseteq stack[m].todo
    <3>1. ASSUME NEW a \in Activations
          PROVE  /\ [a EXCEPT !.todo = @ \ {t}] \in Activations
                 /\ [a EXCEPT !.todo = @ \ {t}].block = a.block
                 /\ [a EXCEPT !.todo = @ \ {t}].todo \subseteq a.todo
      BY DEF Activations
    <3>2. stack[n] \in Activations
      BY <1>1, <2>2
    <3>3. \A m \in 1..n : below[m] = IF m = n THEN [stack[n] EXCEPT !.todo = @ \ {t}] ELSE stack[m]
      BY <1>1, <2>2
    <3>4. DOMAIN below = 1..n
      BY <2>2
    <3> HIDE DEF below
    <3>5. \A m \in 1..n : /\ below[m].block = stack[m].block
                          /\ below[m].todo \subseteq stack[m].todo
      BY <3>1, <3>2, <3>3
    <3>6. \A m \in 1..n : below[m] \in Activations
      BY <1>1, <2>2, <3>1, <3>2, <3>3
    <3>7. below \in Seq(Activations)
      <4>1. below = [m \in 1..n |-> below[m]]
        BY <1>1, <3>4 DEF below
      <4> QED
        BY <2>2, <3>6, <4>1
    <3> QED
      BY <2>2, <3>4, <3>5, <3>7
  <2> HIDE DEF below, act, n
  <2>6. DOMAIN stack' = 1..n+1 /\ stack'[n+1] = act /\ \A m \in 1..n : stack'[m] = below[m]
    BY <2>1, <2>2, <2>5
  <2>7. ASSUME NEW m \in DOMAIN stack'
        PROVE  /\ stack'[m].block \in Blocks
               /\ \A u \in stack'[m].todo :
                    u \in Blocks /\ doInline[u] /\ GotoSource(stack'[m].block, u)
               /\ m # 1 => /\ doInline[stack'[m].block]
                           /\ GotoSource(stack'[m-1].block, stack'[m].block)
    <3>1. CASE m \in 1..n
      <4>1. /\ stack'[m].block = stack[m].block /\ stack'[m].todo \subseteq stack[m].todo
            /\ m # 1 => m - 1 \in 1..n /\ stack'[m-1].block = stack[m-1].block
        BY <2>2, <2>5, <2>6, <3>1
      <4> QED
        BY <1>1, <2>2, <3>1, <4>1 DEF StackInv
    <3>2. CASE m = n + 1
      <4>1. stack'[m] = act /\ (m # 1 => m - 1 = n /\ stack'[m-1].block = stack[n].block)
        BY <2>2, <2>5, <2>6, <3>2
      <4> QED
        BY <2>3, <2>4, <4>1
    <3> QED
      BY <2>2, <2>6, <3>1, <3>2
  <2> QED
    BY <1>3, <2>1, <2>7 DEF StackInv
<1>8. CASE FinishTarget
  <2>1. /\ stack' = SubSeq(stack, 1, Len(stack) - 1) /\ Len(stack) > 1 /\ pass' = pass
        /\ doInline' = doInline /\ stack # <<>>
    BY <1>1, <1>8 DEF FinishTarget, DropLast, codeVars
  <2>2. /\ DOMAIN stack' \subseteq DOMAIN stack
        /\ \A m \in DOMAIN stack' : stack'[m] = stack[m]
        /\ \A m \in DOMAIN stack' : m # 1 => m - 1 \in DOMAIN stack' /\ stack'[m-1] = stack[m-1]
    BY <1>1, <2>1
  <2> QED
    BY <1>1, <1>3, <2>1, <2>2 DEF StackInv
<1>9. CASE FinishContainer
  BY <1>4, <1>9 DEF FinishContainer
<1>10. CASE \/ \E l \in loops : ParseLoop(l)
            \/ ParseRemainingBlocks \/ IdentifyInlinableBlocks \/ DoNotInlineLatches
            \/ MarkLatchBlockAsInlined
  <2>1. stack' = <<>>
    BY <1>1, <1>10 DEF ParseLoop, ParseRemainingBlocks, IdentifyInlinableBlocks,
                       DoNotInlineLatches, MarkLatchBlockAsInlined, StackInv
  <2> QED
    BY <1>4, <2>1
<1>11. CASE UNCHANGED cfVars
  BY <1>5, <1>11 DEF cfVars, codeVars
<1> QED
  BY <1>6, <1>7, <1>8, <1>9, <1>10, <1>11 DEF CFNext, Inlining

LEMMA StackInvInit == CFInit => StackInv
BY DEF CFInit, StackInv

LEMMA InliningInvStep == InliningInv /\ [CFNext]_cfVars => InliningInv'
<1> SUFFICES ASSUME InliningInv, [CFNext]_cfVars PROVE InliningInv'
  OBVIOUS
<1>1. TranslationInv /\ MarkedInv
  BY DEF InliningInv
<1>2. TranslationInv'
  BY <1>1, TranslationStep
<1>3. MarkedInv'
  BY <1>1, MarkedInvStep
<1>4. StackInv'
  BY StackInvStep
<1> QED
  BY <1>2, <1>3, <1>4 DEF InliningInv

\* Blocks that lead to each other by gotos that are inlined, each of them
\* entered from one of them: together with the loops whose preheader is among
\* them they are a part of the function nothing else leads into.
LEMMA CycleUnreachable ==
  ASSUME InputOK, NEW S, S \subseteq Blocks,
         \A t \in S : /\ t # Entry
                      /\ \/ t \in Headers \/ HasSinglePredecessor(g, t) \/ NoSuccessors(t)
                         \/ t \in RotatedLatches
                      /\ \E b \in S : GotoSource(b, t)
                      /\ \E u \in S : GotoSource(t, u)
  PROVE  \A t \in S : t \notin Reachable(g)
<1> DEFINE Around == {l \in Rotated : l.preheader \in S}
           A == S \cup UNION {l.blocks : l \in Around}
<1>1. ASSUME NEW t \in S
      PROVE  t \in Headers \/ HasSinglePredecessor(g, t)
  <2>1. PICK u \in S : GotoSource(t, u)
    OBVIOUS
  <2>2. t \notin RotatedLatches
    BY <2>1 DEF GotoSource
  <2>3. ~NoSuccessors(t)
    <3>1. CASE t \in Preds(g, u)
      BY <3>1 DEF NoSuccessors
    <3>2. CASE \E l \in Rotated : t = l.preheader
      <4>1. PICK l \in Rotated : t = l.preheader
        BY <3>2
      <4>2. l \in loops
        BY RotatedFacts
      <4>3. t \in Preds(g, l.header)
        BY <4>1, <4>2, LoopFacts
      <4> QED
        BY <4>3 DEF NoSuccessors
    <3> QED
      BY <2>1, <3>1, <3>2 DEF GotoSource
  <2> QED
    BY <2>2, <2>3
<1>2. \A l \in Around : l \in Rotated /\ l \in loops /\ l.blocks \subseteq A
  BY RotatedFacts
<1>3. Entry \notin A
  <2>1. \A l \in Around : Entry \notin l.blocks
    BY <1>2 DEF InputOK, LoopContract
  <2> QED
    BY <2>1
<1>4. ASSUME NEW l \in Around, NEW a \in l.blocks, NEW p \in Preds(g, a)
      PROVE  p \in A
  <2>1. l \in loops /\ l.blocks \subseteq A /\ l.preheader \in S /\ a \in l.blocks
    BY <1>2, <1>4
  <2>2. /\ Preds(g, l.header) = {l.latch, l.preheader} /\ l.latch \in l.blocks
        /\ \A b \in l.blocks \ {l.header} : Preds(g, b) \subseteq l.blocks
    BY <2>1, LoopFacts
  <2>3. CASE a = l.header
    BY <1>4, <2>1, <2>2, <2>3
  <2>4. CASE a # l.header
    BY <1>4, <2>1, <2>2, <2>4
  <2> QED
    BY <2>3, <2>4
<1>5. ASSUME NEW l \in Rotated, NEW p \in Preds(g, l.header)
      PROVE  p = l.latch \/ p = l.preheader
  <2>1. l \in loops
    BY <1>5, RotatedFacts
  <2>2. Preds(g, l.header) = {l.latch, l.preheader}
    BY <2>1, LoopFacts
  <2> QED
    BY <1>5, <2>2
<1>6. ASSUME NEW a \in S, NEW p \in Preds(g, a)
      PROVE  p \in A
  <2>1. PICK b \in S : GotoSource(b, a)
    OBVIOUS
  <2>2. CASE b \notin RotatedPreheaders /\ b \in Preds(g, a)
    <3>1. CASE HasSinglePredecessor(g, a)
      <4>1. p = b
        BY <2>2, <3>1, OnePredecessor DEF InputOK
      <4> QED
        BY <4>1
    <3>2. CASE a \in Headers
      <4>1. PICK l \in Rotated : a = l.header
        BY <3>2 DEF Headers
      <4>2. b = l.latch \/ b = l.preheader
        BY <1>5, <2>2, <4>1
      <4>3. b \in RotatedLatches \/ b \in RotatedPreheaders
        BY <4>1, <4>2 DEF RotatedLatches, RotatedPreheaders, Rotated
      <4> QED
        BY <2>1, <2>2, <4>3 DEF GotoSource
    <3> QED
      BY <1>1, <3>1, <3>2
  <2>3. ASSUME NEW m \in Rotated, b = m.preheader, a = m.header \/ a = AfterDoWhile(m)
        PROVE  p \in A
    <3>1. m \in Around
      BY <2>3
    <3>2. CASE a = m.header
      <4>1. a \in m.blocks
        BY <2>3, <3>2, RotatedFacts
      <4> QED
        BY <1>4, <1>6, <3>1, <4>1
    <3>3. CASE a = AfterDoWhile(m)
      <4>1. m.latch \in Preds(g, a) /\ m.latch \in A
        <5>1. /\ m.latch \in Blocks /\ m.latch \in m.blocks /\ DOMAIN g.succ[m.latch] = {1, 2}
              /\ (g.succ[m.latch][1] = a \/ g.succ[m.latch][2] = a)
          BY <3>3, RotatedFacts
        <5>2. m.latch \in Preds(g, a)
          BY <5>1 DEF Preds, Succs
        <5> QED
          BY <3>1, <5>1, <5>2
      <4>2. CASE HasSinglePredecessor(g, a)
        <5>1. p = m.latch
          BY <4>1, <4>2, OnePredecessor DEF InputOK
        <5> QED
          BY <4>1, <5>1
      <4>3. CASE a \in Headers
        <5>1. PICK l \in Rotated : a = l.header
          BY <4>3 DEF Headers
        <5>2. m.latch = l.latch \/ m.latch = l.preheader
          BY <1>5, <4>1, <5>1
        <5>3. m.latch # l.preheader
          <6>1. g.term[m.latch] = "cond" /\ g.term[l.preheader] = "br"
            BY RotatedFacts
          <6> QED
            BY <6>1
        <5>4. m = l
          BY <5>2, <5>3, OneLoopPerLatch
        <5> QED
          BY <3>2, <5>1, <5>4
      <4> QED
        BY <1>1, <4>2, <4>3
    <3> QED
      BY <2>3, <3>2, <3>3
  <2> QED
    BY <2>1, <2>2, <2>3 DEF GotoSource
<1>7. \A a \in A : \A p \in Preds(g, a) : p \in A
  BY <1>4, <1>6
<1>8. \A p \in Blocks \ A : \A a \in A : a \notin Succs(g, p)
  BY <1>7 DEF Preds
<1> HIDE DEF A
<1>9. \A t \in Reachable(g) : t \in Blocks \ A
  BY <1>3, <1>8, NoWayIn
<1> QED
  BY <1>9 DEF A

\* Two activations of one block: the visits in between lead around.
LEMMA ReentryUnreachable ==
  ASSUME InliningInv, NEW i \in DOMAIN stack, NEW j \in DOMAIN stack, i < j,
         stack[i].block = stack[j].block
  PROVE  stack[i].block \notin Reachable(g)
<1>1. /\ InputOK /\ stack \in Seq(Activations) /\ MarkedInv /\ StackInv
  BY DEF InliningInv, TranslationInv, ParseInv, HandledInv, TypeInv, CFTypeOK
<1>2. /\ Len(stack) \in Nat /\ DOMAIN stack = 1..Len(stack)
      /\ i \in Nat /\ j \in Nat /\ 1 <= i /\ j <= Len(stack)
  BY <1>1
<1>3. pass = "inlining"
  <2>1. stack # <<>>
    BY <1>2
  <2> QED
    BY <1>1, <2>1 DEF StackInv
<1> DEFINE S == {stack[m].block : m \in i+1..j}
<1>4. S \subseteq Blocks
  BY <1>1, <1>2 DEF StackInv
<1>5. ASSUME NEW m \in i+1..j
      PROVE  /\ m \in DOMAIN stack /\ m # 1 /\ m - 1 \in DOMAIN stack
             /\ m - 1 = i \/ m - 1 \in i+1..j
             /\ m = j \/ m + 1 \in i+1..j
             /\ (m + 1) - 1 = m /\ (i + 1) - 1 = i
             /\ i + 1 \in i+1..j /\ i + 1 \in DOMAIN stack /\ i + 1 # 1
             /\ j \in i+1..j
             /\ m # j => m + 1 \in DOMAIN stack /\ m + 1 # 1
  BY <1>2
<1>6. ASSUME NEW m \in DOMAIN stack, m # 1
      PROVE  /\ stack[m].block \in Blocks /\ doInline[stack[m].block]
             /\ GotoSource(stack[m-1].block, stack[m].block)
  BY <1>1, <1>6 DEF StackInv
<1>7. ASSUME NEW t \in S
      PROVE  /\ t # Entry
             /\ \/ t \in Headers \/ HasSinglePredecessor(g, t) \/ NoSuccessors(t)
                \/ t \in RotatedLatches
             /\ \E b \in S : GotoSource(b, t)
             /\ \E u \in S : GotoSource(t, u)
  <2>1. PICK m \in i+1..j : t = stack[m].block
    OBVIOUS
  <2>2. t \in Blocks /\ doInline[t] /\ GotoSource(stack[m-1].block, t)
    BY <1>5, <1>6, <2>1
  <2>3. stack[m-1].block \in S
    <3>1. CASE m - 1 = i
      BY <1>5, <3>1
    <3>2. CASE m - 1 \in i+1..j
      BY <3>2
    <3> QED
      BY <1>5, <3>1, <3>2
  <2>4. \E u \in S : GotoSource(t, u)
    <3>1. CASE m = j
      <4>1. stack[i+1].block \in S /\ GotoSource(stack[(i+1)-1].block, stack[i+1].block)
        BY <1>5, <1>6
      <4>2. GotoSource(stack[i].block, stack[i+1].block)
        BY <1>5, <4>1
      <4> QED
        BY <2>1, <3>1, <4>1, <4>2
    <3>2. CASE m # j
      <4>1. stack[m+1].block \in S /\ GotoSource(stack[(m+1)-1].block, stack[m+1].block)
        BY <1>5, <1>6, <3>2
      <4>2. GotoSource(stack[m].block, stack[m+1].block)
        BY <1>5, <4>1
      <4> QED
        BY <2>1, <4>1, <4>2
    <3> QED
      BY <3>1, <3>2
  <2>5. /\ t # Entry
        /\ \/ t \in Headers \/ HasSinglePredecessor(g, t) \/ NoSuccessors(t)
           \/ t \in RotatedLatches
    BY <1>1, <1>3, <2>2, LoneLeadsNowhere DEF MarkedInv
  <2> QED
    BY <2>2, <2>3, <2>4, <2>5
<1>8. stack[j].block \in S
  BY <1>2
<1> HIDE DEF S
<1>9. \A t \in S : t \notin Reachable(g)
  BY <1>1, <1>4, <1>7, CycleUnreachable
<1> QED
  BY <1>8, <1>9

LEMMA InliningInvariant == CFSpec => []InliningInv
<1>1. CFInit => InliningInv
  BY TranslationInit, MarkedInvInit, StackInvInit DEF InliningInv
<1>2. InliningInv /\ [CFNext]_cfVars => InliningInv'
  BY InliningInvStep
<1> QED
  BY <1>1, <1>2, PTL DEF CFSpec

\* The block that is visited anew while it is being visited already.
ReenteredUnreachable ==
  \A i, j \in DOMAIN stack :
    i # j /\ stack[i].block = stack[j].block => stack[i].block \notin Reachable(g)

\* InliningVisitor does not check whether it is visiting a block already when
\* it visits the target of a goto.  It comes back to a block it is in the
\* middle of - and then never ends - in a part of the function that no path
\* from its entry leads into, and nowhere else.
THEOREM ReentryInDeadCodeOnly == CFSpec => []ReenteredUnreachable
<1>1. InliningInv => ReenteredUnreachable
  <2> SUFFICES ASSUME InliningInv, NEW i \in DOMAIN stack, NEW j \in DOMAIN stack, i # j,
                      stack[i].block = stack[j].block
               PROVE  stack[i].block \notin Reachable(g)
    BY DEF ReenteredUnreachable
  <2>1. stack \in Seq(Activations)
    BY DEF InliningInv, TranslationInv, ParseInv, HandledInv, TypeInv, CFTypeOK
  <2>2. i < j \/ j < i
    BY <2>1
  <2> QED
    BY <2>2, ReentryUnreachable
<1> QED
  BY <1>1, InliningInvariant, PTL
=============================================================================
