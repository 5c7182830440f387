------------------------------- MODULE LoopPhis -------------------------------
(***************************************************************************)
(* The phi nodes of the header of an LLVM loop with one latch, what        *)
(* PhiValues has to implement: an iteration evaluates the branch once and  *)
(* gives all phi nodes their next values at the same time.                 *)
(***************************************************************************)
EXTENDS Naturals

CONSTANTS
  P,       \* the header has the phi nodes 1..P, in this order
  Nums,    \* their values
  Step,    \* the instruction of the loop that uses a phi node
  Test     \* the comparison the branch uses

Phis == 1..P

\* A value from outside the loop, a phi node, or Step of a phi node.
Outside == [kind : {"outside"}, n : Nums]
Inside == [kind : {"phi", "var"}, p : Phis]

\* first, back: what the phi nodes receive from the preheader and the latch;
\* test: what the branch looks at, kept: through a C variable of its own,
\* inlined: without a C variable for Step; exit: what the phi node behind the
\* loop receives; rotated: the branch ends the latch, else the header;
\* neg: the loop goes on when the condition is false.
Loops ==
  [first : [Phis -> Nums], back : [Phis -> Outside \cup Inside],
   test : Inside, kept : BOOLEAN, inlined : BOOLEAN, exit : Outside \cup Inside,
   rotated : BOOLEAN, neg : BOOLEAN]

\* Step is inlined into the condition only if nothing else uses it.
InlinesItsOnlyUse(l) ==
  l.inlined => l.test.kind = "var" /\ l.test # l.exit /\ \A p \in Phis : l.back[p] # l.test

VARIABLES
  loop,      \* the loop, one of Loops
  at,        \* "outside", "inside" or "behind" it
  phi,       \* the values of the phi nodes
  exitPhi    \* the value of the phi node behind the loop

lpVars == <<loop, at, phi, exitPhi>>

Operand(x) ==
  CASE x.kind = "outside" -> x.n
    [] x.kind = "phi"     -> phi[x.p]
    [] x.kind = "var"     -> Step[phi[x.p]]

GoesOn == Test[Operand(loop.test)] # loop.neg

EnterLoop ==
  /\ at = "outside" /\ at' = "inside"
  /\ phi' = loop.first
  /\ UNCHANGED <<loop, exitPhi>>

Iterate ==
  /\ at = "inside" /\ GoesOn
  /\ phi' = [p \in Phis |-> Operand(loop.back[p])]
  /\ UNCHANGED <<loop, at, exitPhi>>

LeaveLoop ==
  /\ at = "inside" /\ ~GoesOn
  /\ at' = "behind" /\ exitPhi' = Operand(loop.exit)
  /\ UNCHANGED <<loop, phi>>

LPNext == EnterLoop \/ Iterate \/ LeaveLoop
===============================================================================
