------------------------------ MODULE LoopInfo ------------------------------
(***************************************************************************)
(* What llvm2c takes from LLVM about the control-flow graph of a function: *)
(* predecessors, reachability, dominance and the natural loops that        *)
(* llvm::LoopAnalysis reports after the LoopSimplify and LoopRotate passes *)
(* of ProgramParser::run_llvm_passes.  LLVM is not under src/: these       *)
(* definitions are the contract the passes of llvm2c rely on.              *)
(*                                                                         *)
(* A graph is a record with the terminator kind of every block and its     *)
(* successors in LLVM's order (getSuccessor(0) of a conditional branch is  *)
(* the target taken when the condition is true).                           *)
(***************************************************************************)
EXTENDS Integers, Sequences, FiniteSets

CONSTANT N          \* number of basic blocks of the function

ASSUME NAssumption == N \in Nat \ {0}

Blocks == 1..N
Entry == 1          \* Function::getEntryBlock
NoBlock == 0

TermKinds == {"ret", "unreachable", "br", "cond", "switch"}

Succs(g, b) == {g.succ[b][i] : i \in DOMAIN g.succ[b]}

PredEdges(g, b) ==
  UNION {{p} \X {i \in DOMAIN g.succ[p] : g.succ[p][i] = b} : p \in Blocks}

Preds(g, b) == {p \in Blocks : b \in Succs(g, p)}

\* BasicBlock::getSinglePredecessor: one incoming edge, not one incoming block.
HasSinglePredecessor(g, b) == Cardinality(PredEdges(g, b)) = 1

\* Blocks reachable from a set of blocks along paths inside "within".
ReachWithin(g, from, within) ==
  LET R[n \in 0..N] ==
        IF n = 0 THEN {b \in within : b \in from}
        ELSE LET r == R[n-1]
             IN  {b \in within : b \in r \/ \E a \in r : b \in Succs(g, a)}
  IN  R[N]

Reachable(g) == ReachWithin(g, {Entry}, Blocks)

\* The predecessors of h that h dominates: the sources of its back edges.
Latches(g, h) ==
  IF Cardinality(Preds(g, h)) < 2 THEN {}
  ELSE LET reachable == Reachable(g)
           around == ReachWithin(g, {Entry}, Blocks \ {h})
       IN  {u \in Preds(g, h) : u \in reachable /\ u \notin around}

\* The natural loop of h: its body is what reaches a latch without passing h,
\* and it is rotated (Loop::isRotatedForm) if the latch is an exiting block.
LoopOf(g, h) ==
  LET latches == Latches(g, h)
      latch == CHOOSE u \in latches : TRUE
      reachable == Reachable(g)
      body == {b \in Blocks :
                 \/ b = h
                 \/ b \in reachable /\ ReachWithin(g, {b}, Blocks \ {h}) \cap latches # {}}
  IN  [header    |-> h,
       latch     |-> latch,
       preheader |-> CHOOSE p \in Preds(g, h) : p \notin body,
       blocks    |-> body,
       rotated   |-> ~(Succs(g, latch) \subseteq body)]

Loops(g) == {LoopOf(g, h) : h \in {b \in Blocks : Latches(g, b) # {}}}

IsSubLoop(inner, outer) == inner.blocks \subseteq outer.blocks /\ inner # outer

-----------------------------------------------------------------------------
(* LoopSimplify form: one latch, a preheader whose only successor is the   *)
(* header, exits entered from the loop only, and no edge from outside to a *)
(* block of the loop other than the header.  The latch of a rotated loop   *)
(* ends in a branch (parseLoop reads its condition).                       *)
IsSimplified(g, l) ==
  /\ Preds(g, l.header) = {l.latch, l.preheader}
  /\ l.latch \in l.blocks
  /\ l.preheader \notin l.blocks
  /\ g.term[l.preheader] = "br"
  /\ \A b \in l.blocks \ {l.header} : Preds(g, b) \subseteq l.blocks
  /\ \A b \in l.blocks : \A e \in Succs(g, b) \ l.blocks : Preds(g, e) \subseteq l.blocks
  /\ l.rotated => g.term[l.latch] = "cond"

\* Two natural loops are disjoint or one is inside the other.
LoopsNest(ls) ==
  \A k, l \in ls : \/ k.blocks \cap l.blocks = {}
                   \/ k.blocks \subseteq l.blocks
                   \/ l.blocks \subseteq k.blocks

\* The terminators have the successors their kind calls for.
TerminatorsOK(g) ==
  \A b \in Blocks : CASE g.term[b] = "br" -> Len(g.succ[b]) = 1
                      [] g.term[b] = "cond" -> Len(g.succ[b]) = 2
                      [] g.term[b] = "switch" -> Len(g.succ[b]) > 0
                      [] OTHER -> g.succ[b] = <<>>

\* The inputs of parseBreaks: the entry block has no predecessor.
WellFormed(g) ==
  /\ TerminatorsOK(g)
  /\ Preds(g, Entry) = {}
  /\ \A h \in Blocks :
       Latches(g, h) # {} => /\ Cardinality(Latches(g, h)) = 1
                             /\ Cardinality(Preds(g, h)) = 2
                             /\ IsSimplified(g, LoopOf(g, h))
  /\ LoopsNest(Loops(g))
=============================================================================
