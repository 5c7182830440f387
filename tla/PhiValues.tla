------------------------------ MODULE PhiValues ------------------------------
(***************************************************************************)
(* The values of phi variables in the C text of a loop.  parseBreaks turns *)
(* the phi nodes of a loop header into assignments, one after the other:   *)
(* at the end of the latch, or, for a rotated loop, in the do-while after  *)
(* the latch and before its condition.  There every assignment keeps the   *)
(* old value unless the loop goes on, and the condition's expression is    *)
(* printed in each of them and in the while.                               *)
(*                                                                         *)
(* A loop is as in LoopPhis.  A value a phi node uses is a C variable      *)
(* (canInline does not reach the phi node); the condition's expression is  *)
(* inlined unless it has other uses, and so is Step inside it.             *)
(***************************************************************************)
EXTENDS Naturals

CONSTANTS P, Nums, Step, Test, LoopsChecked

VARIABLES
  loop,      \* the loop that is translated
  pc,        \* where its C program is: "before", "body", "branch", "assign",
             \* "after" or "end"
  phi,       \* the phi variables
  var,       \* the variables for Step
  cond,      \* the variable for the condition
  next,      \* the assignment that runs next
  exitPhi,   \* the phi variable of the block behind the loop
  top        \* the phi variables when the iteration began

pvVars == <<loop, pc, phi, var, cond, next, exitPhi, top>>

LLVM == INSTANCE LoopPhis WITH
  at <- CASE pc = "before" -> "outside" [] pc = "end" -> "behind" [] OTHER -> "inside",
  phi <- IF pc = "body" THEN phi ELSE top

ASSUME LoopAssumption ==
  /\ P \in Nat /\ Step \in [Nums -> Nums] /\ Test \in [Nums -> BOOLEAN]
  /\ LoopsChecked \subseteq {l \in LLVM!Loops : LLVM!InlinesItsOnlyUse(l)}

Phis == 1..P

-----------------------------------------------------------------------------
(* The C expressions *)

\* What a phi node or the condition uses, evaluated now.
Operand(x) ==
  CASE x.kind = "outside" -> x.n
    [] x.kind = "phi"     -> phi[x.p]
    [] x.kind = "var"     -> var[x.p]

Compare(ph, v) ==
  CASE loop.test.kind = "phi" -> Test[ph[loop.test.p]]
    [] loop.test.kind = "var" /\ loop.inlined -> Test[Step[ph[loop.test.p]]]
    [] OTHER -> Test[v[loop.test.p]]

Condition == IF loop.kept THEN cond ELSE Compare(phi, var)

\* mutant of GoesOn
GoesOnNotNegated == Condition

GoesOn == Condition # loop.neg

-----------------------------------------------------------------------------
(* The C program *)

\* The preheader's assignments, of values from outside the loop.
EnterLoop ==
  /\ pc = "before" /\ pc' = "body"
  /\ phi' = loop.first /\ top' = loop.first
  /\ UNCHANGED <<loop, var, cond, next, exitPhi>>

\* mutant of RunBody
RunBodyFromZero ==
  /\ pc = "body"
  /\ pc' = IF loop.rotated THEN "assign" ELSE "branch"
  /\ top' = phi
  /\ var' = [p \in Phis |-> Step[phi[p]]]
  /\ cond' = Compare(phi, var')
  /\ next' = 0
  /\ UNCHANGED <<loop, phi, exitPhi>>

\* The instructions of the loop.
RunBody ==
  /\ pc = "body"
  /\ pc' = IF loop.rotated THEN "assign" ELSE "branch"
  /\ top' = phi
  /\ var' = [p \in Phis |-> Step[phi[p]]]
  /\ cond' = Compare(phi, var')
  /\ next' = 1
  /\ UNCHANGED <<loop, phi, exitPhi>>

\* parseIF at the end of a header.
BranchOfHeader ==
  /\ pc = "branch"
  /\ pc' = IF GoesOn THEN "assign" ELSE "after"
  /\ UNCHANGED <<loop, phi, var, cond, next, exitPhi, top>>

\* mutant of AssignPhi
AssignPhiAlways ==
  /\ pc = "assign" /\ next \in Phis
  /\ phi' = [phi EXCEPT ![next] = Operand(loop.back[next])]
  /\ next' = next + 1
  /\ UNCHANGED <<loop, pc, var, cond, exitPhi, top>>

\* generatePhiAssignments: a select in a rotated loop.
AssignPhi ==
  /\ pc = "assign" /\ next \in Phis
  /\ phi' = [phi EXCEPT ![next] =
               IF loop.rotated /\ ~GoesOn THEN @ ELSE Operand(loop.back[next])]
  /\ next' = next + 1
  /\ UNCHANGED <<loop, pc, var, cond, exitPhi, top>>

\* A goto to the header, or the condition of the do-while.
EndIteration ==
  /\ pc = "assign" /\ next \notin Phis
  /\ pc' = IF loop.rotated /\ ~GoesOn THEN "after" ELSE "body"
  /\ UNCHANGED <<loop, phi, var, cond, next, exitPhi, top>>

\* The assignments for the edge out of the loop.
AssignExitPhi ==
  /\ pc = "after" /\ pc' = "end"
  /\ exitPhi' = Operand(loop.exit)
  /\ UNCHANGED <<loop, phi, var, cond, next, top>>

-----------------------------------------------------------------------------
PVInit ==
  /\ loop \in LoopsChecked
  /\ pc = "before"
  /\ phi = loop.first /\ top = phi        \* anything: not initialised in C
  /\ var = [p \in Phis |-> Step[phi[p]]]
  /\ cond = FALSE /\ next = 1
  /\ exitPhi \in Nums

PVNext ==
  EnterLoop \/ RunBody \/ BranchOfHeader \/ AssignPhi \/ EndIteration \/ AssignExitPhi

PVSpec == PVInit /\ [][PVNext]_pvVars /\ WF_pvVars(PVNext)

-----------------------------------------------------------------------------
(* Properties *)

\* Every variable of the C program has a value of its type.
PVTypeOK ==
  /\ loop \in LLVM!Loops
  /\ pc \in {"before", "body", "branch", "assign", "after", "end"}
  /\ phi \in [Phis -> Nums] /\ top \in [Phis -> Nums]
  /\ var \in [Phis -> Nums] /\ cond \in BOOLEAN
  /\ next \in 1..(P + 1) /\ exitPhi \in Nums

\* No phi node receives one that is assigned before it.
AssignedInOrder ==
  \A p \in Phis : loop.back[p].kind = "phi" => loop.back[p].p >= p

\* The condition of a rotated loop does not read a phi variable that changes.
ConditionStays ==
  loop.rotated /\ ~loop.kept /\ (loop.test.kind = "phi" \/ loop.inlined) =>
    loop.back[loop.test.p] = [kind |-> "phi", p |-> loop.test.p]

Sequential == AssignedInOrder /\ ConditionStays

\* If that is so, the C program does with its phi variables what LLVM does
\* with the phi nodes: every iteration gives all of them the values the last
\* iteration computed, and the phi node behind the loop its value.
SequentialLoopsImplementLlvm == [][Sequential => LLVM!LPNext]_(LLVM!lpVars)

\* ... and it leaves the loop when LLVM does.
LeavesWithLlvm == (Sequential /\ pc = "body" /\ ~LLVM!GoesOn) ~> (pc = "end")
===============================================================================
