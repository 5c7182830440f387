--------------------------- MODULE PhiValuesProofs ---------------------------
(***************************************************************************)
(* For any number of phi nodes, any values and any instruction and         *)
(* comparison: a loop whose phi nodes are assigned in an order that suits  *)
(* them does in C what it does in LLVM.                                    *)
(*                                                                         *)
(* The values LLVM computes from are those the iteration began with, top.  *)
(* While the C program assigns one phi variable after the other, those     *)
(* assigned already have LLVM's next values and the others still the old   *)
(* ones, unless the loop is left: then all have the old ones.              *)
(***************************************************************************)
EXTENDS PhiValues, TLAPS

\* A value of the iteration that began with the phi nodes ph.
ValueIn(ph, x) ==
  CASE x.kind = "outside" -> x.n
    [] x.kind = "phi"     -> ph[x.p]
    [] x.kind = "var"     -> Step[ph[x.p]]

Compared(ph) == Test[ValueIn(ph, loop.test)]

Continues(ph) == Compared(ph) # loop.neg

ValueKinds == LLVM!Outside \cup LLVM!Inside

\* What the phi variables hold before the assignment to next.
Assigned ==
  \A p \in Phis :
    phi[p] = IF p < next /\ Continues(top) THEN ValueIn(top, loop.back[p]) ELSE top[p]

Computed ==
  /\ var = [p \in Phis |-> Step[top[p]]]
  /\ cond = Compared(top)

LoopRuns ==
  /\ pc \in {"branch", "assign", "after"} => Computed
  /\ pc \in {"branch", "after"} => phi = top
  /\ pc = "assign" => Assigned /\ (loop.rotated \/ Continues(top))
  /\ pc = "after" => ~Continues(top)
  /\ pc = "branch" => next = 1 /\ ~loop.rotated

PVInv == PVTypeOK /\ (Sequential => LoopRuns)

LEMMA LoopParts ==
  ASSUME loop \in LLVM!Loops
  PROVE  /\ loop.first \in [Phis -> Nums]
         /\ loop.back \in [Phis -> ValueKinds]
         /\ loop.test \in LLVM!Inside /\ loop.exit \in ValueKinds
         /\ loop.kept \in BOOLEAN /\ loop.inlined \in BOOLEAN
         /\ loop.rotated \in BOOLEAN /\ loop.neg \in BOOLEAN
BY DEF LLVM!Loops, LLVM!Phis, Phis, ValueKinds

LEMMA ValueCases ==
  ASSUME NEW x \in ValueKinds
  PROVE  \/ x.kind = "outside" /\ x.n \in Nums
         \/ x.kind = "phi" /\ x.p \in Phis
         \/ x.kind = "var" /\ x.p \in Phis
BY DEF ValueKinds, LLVM!Outside, LLVM!Inside, LLVM!Phis, Phis

LEMMA ValueType ==
  ASSUME NEW x \in ValueKinds, NEW ph \in [Phis -> Nums]
  PROVE  ValueIn(ph, x) \in Nums
BY LoopAssumption, ValueCases DEF ValueIn

LEMMA OperandType ==
  ASSUME PVTypeOK, NEW x \in ValueKinds
  PROVE  Operand(x) \in Nums
BY ValueCases DEF Operand, PVTypeOK

LEMMA TestKind ==
  ASSUME loop \in LLVM!Loops
  PROVE  /\ loop.test \in ValueKinds /\ loop.test.p \in Phis
         /\ loop.test.kind = "phi" \/ loop.test.kind = "var"
BY LoopParts DEF ValueKinds, LLVM!Inside, LLVM!Phis, Phis

LEMMA ComparedType ==
  ASSUME loop \in LLVM!Loops, NEW ph \in [Phis -> Nums]
  PROVE  Compared(ph) \in BOOLEAN
BY LoopAssumption, TestKind, ValueType DEF Compared

\* The C text of the condition, evaluated with the variables of the iteration.
LEMMA CompareIs ==
  ASSUME loop \in LLVM!Loops, NEW ph \in [Phis -> Nums], NEW old \in [Phis -> Nums],
         ph[loop.test.p] = old[loop.test.p] \/ (loop.test.kind = "var" /\ ~loop.inlined)
  PROVE  Compare(ph, [p \in Phis |-> Step[old[p]]]) = Compared(old)
BY TestKind DEF Compare, Compared, ValueIn

LEMMA InitType == PVInit => PVInv
<1> SUFFICES ASSUME PVInit PROVE PVInv
  OBVIOUS
<1>1. loop \in LLVM!Loops
  BY LoopAssumption DEF PVInit
<1>2. PVTypeOK
  <2>1. phi \in [Phis -> Nums] /\ top = phi
    BY <1>1, LoopParts DEF PVInit
  <2>2. var \in [Phis -> Nums]
    BY <2>1, LoopAssumption DEF PVInit
  <2>3. next \in 1..P + 1
    <3>1. P \in Nat
      BY LoopAssumption
    <3> QED
      BY <3>1 DEF PVInit
  <2>4. exitPhi \in Nums /\ cond \in BOOLEAN /\ pc = "before"
    BY DEF PVInit
  <2> QED
    BY <1>1, <2>1, <2>2, <2>3, <2>4 DEF PVTypeOK
<1>3. LoopRuns
  BY DEF PVInit, LoopRuns
<1> QED
  BY <1>2, <1>3 DEF PVInv

LEMMA TypeStep ==
  ASSUME PVTypeOK, [PVNext]_pvVars
  PROVE  PVTypeOK'
<1>1. loop' = loop /\ loop \in LLVM!Loops
  BY DEF PVNext, EnterLoop, RunBody, BranchOfHeader, AssignPhi, EndIteration, AssignExitPhi,
         pvVars, PVTypeOK
<1>2. LLVM!Loops' = LLVM!Loops
  BY DEF LLVM!Loops, LLVM!Outside, LLVM!Inside, LLVM!Phis
<1>3. CASE EnterLoop
  BY <1>1, <1>2, <1>3, LoopParts DEF EnterLoop, PVTypeOK
<1>4. CASE RunBody
  <2>1. var' \in [Phis -> Nums]
    BY <1>4, LoopAssumption DEF RunBody, PVTypeOK
  <2>2. cond' \in BOOLEAN
    <3>1. cond' = Compare(phi, var') /\ phi \in [Phis -> Nums]
      BY <1>4 DEF RunBody, PVTypeOK
    <3>2. loop.test.p \in Phis
      BY <1>1, TestKind
    <3>3. Step[phi[loop.test.p]] \in Nums /\ phi[loop.test.p] \in Nums /\ var'[loop.test.p] \in Nums
      BY <2>1, <3>1, <3>2, LoopAssumption
    <3>4. \A x \in Nums : Test[x] \in BOOLEAN
      BY LoopAssumption
    <3> QED
      BY <3>1, <3>3, <3>4 DEF Compare
  <2>3. next' \in 1..P + 1
    BY <1>4, LoopAssumption DEF RunBody
  <2> QED
    BY <1>1, <1>2, <1>4, <2>1, <2>2, <2>3 DEF RunBody, PVTypeOK
<1>5. CASE BranchOfHeader
  BY <1>1, <1>2, <1>5 DEF BranchOfHeader, PVTypeOK
<1>6. CASE AssignPhi
  <2>1. next \in Phis /\ loop.back[next] \in ValueKinds
    BY <1>1, <1>6, LoopParts DEF AssignPhi
  <2>2. Operand(loop.back[next]) \in Nums
    BY <2>1, OperandType
  <2>3. phi' \in [Phis -> Nums]
    BY <1>6, <2>1, <2>2 DEF AssignPhi, PVTypeOK
  <2>4. next' \in 1..P + 1
    BY <1>6, <2>1, LoopAssumption DEF AssignPhi, Phis
  <2> QED
    BY <1>1, <1>2, <1>6, <2>3, <2>4 DEF AssignPhi, PVTypeOK
<1>7. CASE EndIteration
  BY <1>1, <1>2, <1>7 DEF EndIteration, PVTypeOK
<1>8. CASE AssignExitPhi
  <2>1. Operand(loop.exit) \in Nums
    BY <1>1, LoopParts, OperandType
  <2> QED
    BY <1>1, <1>2, <1>8, <2>1 DEF AssignExitPhi, PVTypeOK
<1>9. CASE UNCHANGED pvVars
  BY <1>1, <1>2, <1>9 DEF pvVars, PVTypeOK
<1> QED
  BY <1>3, <1>4, <1>5, <1>6, <1>7, <1>8, <1>9 DEF PVNext

-----------------------------------------------------------------------------
(* The steps of the C program. *)

\* The condition printed in the C text is LLVM's, wherever it is evaluated.
LEMMA GoesOnIs ==
  ASSUME PVTypeOK, Sequential, LoopRuns, pc = "branch" \/ (pc = "assign" /\ loop.rotated)
  PROVE  GoesOn = Continues(top)
<1>1. /\ loop \in LLVM!Loops /\ phi \in [Phis -> Nums] /\ top \in [Phis -> Nums]
      /\ var = [p \in Phis |-> Step[top[p]]] /\ cond = Compared(top)
  BY DEF PVTypeOK, LoopRuns, Computed
<1>2. CASE loop.kept
  BY <1>1, <1>2 DEF GoesOn, Condition, Continues
<1>3. CASE ~loop.kept
  <2>1. /\ loop.test.p \in Phis
        /\ loop.test.kind = "phi" \/ loop.test.kind = "var"
    BY <1>1, TestKind
  <2>2. phi[loop.test.p] = top[loop.test.p] \/ (loop.test.kind = "var" /\ ~loop.inlined)
    <3>1. CASE pc = "branch"
      BY <3>1 DEF LoopRuns
    <3>2. CASE pc = "assign" /\ loop.rotated
      <4>1. phi[loop.test.p] = IF loop.test.p < next /\ Continues(top)
                               THEN ValueIn(top, loop.back[loop.test.p])
                               ELSE top[loop.test.p]
        BY <2>1, <3>2 DEF LoopRuns, Assigned
      <4>2. loop.test.kind = "phi" \/ loop.inlined =>
              loop.back[loop.test.p] = [kind |-> "phi", p |-> loop.test.p]
        BY <1>3, <3>2 DEF Sequential, ConditionStays
      <4>3. ValueIn(top, [kind |-> "phi", p |-> loop.test.p]) = top[loop.test.p]
        BY DEF ValueIn
      <4> QED
        BY <2>1, <4>1, <4>2, <4>3
    <3> QED
      BY <3>1, <3>2
  <2>3. Compare(phi, var) = Compared(top)
    BY <1>1, <2>2, CompareIs
  <2> QED
    BY <1>3, <2>3 DEF GoesOn, Condition, Continues
<1> QED
  BY <1>2, <1>3

\* What is assigned to a phi variable is the value LLVM gives it.
LEMMA OperandIs ==
  ASSUME PVTypeOK, Sequential, LoopRuns, pc = "assign", next \in Phis
  PROVE  Operand(loop.back[next]) = ValueIn(top, loop.back[next])
<1> DEFINE x == loop.back[next]
<1>1. x \in ValueKinds /\ loop \in LLVM!Loops
  BY LoopParts DEF PVTypeOK
<1>2. CASE x.kind = "outside"
  BY <1>2 DEF Operand, ValueIn
<1>3. CASE x.kind = "phi" /\ x.p \in Phis
  <2>1. x.p >= next /\ next \in Nat /\ x.p \in Nat
    BY <1>3 DEF Sequential, AssignedInOrder, Phis
  <2>2. phi[x.p] = top[x.p]
    BY <1>3, <2>1 DEF LoopRuns, Assigned
  <2> QED
    BY <1>3, <2>2 DEF Operand, ValueIn
<1>4. CASE x.kind = "var" /\ x.p \in Phis
  BY <1>4 DEF Operand, ValueIn, LoopRuns, Computed
<1> QED
  BY <1>1, <1>2, <1>3, <1>4, ValueCases

LEMMA RunsStep ==
  ASSUME PVInv, [PVNext]_pvVars, Sequential
  PROVE  LoopRuns'
<1>1. PVTypeOK /\ LoopRuns /\ loop \in LLVM!Loops
  BY DEF PVInv, PVTypeOK
<1>2. loop' = loop
  BY DEF PVNext, EnterLoop, RunBody, BranchOfHeader, AssignPhi, EndIteration, AssignExitPhi, pvVars
<1>3. CASE EnterLoop
  BY <1>3 DEF EnterLoop, LoopRuns
<1>4. CASE RunBody
  <2>1. /\ pc' = IF loop.rotated THEN "assign" ELSE "branch"
        /\ top' = phi /\ phi' = phi /\ next' = 1
        /\ var' = [p \in Phis |-> Step[phi[p]]] /\ cond' = Compare(phi, var')
    BY <1>4 DEF RunBody
  <2>2. cond' = Compared(phi)
    BY <1>1, <2>1, CompareIs DEF PVTypeOK
  <2>3. Computed'
    BY <1>2, <2>1, <2>2 DEF Computed, Compared
  <2>4. Assigned'
    <3>1. \A p \in Phis : ~(p < 1)
      BY DEF Phis
    <3> QED
      BY <2>1, <3>1 DEF Assigned
  <2>5. loop.rotated \in BOOLEAN
    BY <1>1, LoopParts
  <2> QED
    BY <1>2, <2>1, <2>3, <2>4, <2>5 DEF LoopRuns
<1>5. CASE BranchOfHeader
  <2>1. /\ pc = "branch" /\ phi' = phi /\ top' = top /\ var' = var /\ cond' = cond
        /\ next' = next /\ pc' = IF GoesOn THEN "assign" ELSE "after"
    BY <1>5 DEF BranchOfHeader
  <2>2. phi = top /\ next = 1 /\ Computed
    BY <1>1, <2>1 DEF LoopRuns
  <2>3. GoesOn = Continues(top)
    BY <1>1, <2>1, GoesOnIs
  <2>4. Computed' /\ Continues(top)' = Continues(top)
    BY <1>2, <2>1, <2>2 DEF Computed, Compared, Continues
  <2>5. Assigned'
    <3>1. \A p \in Phis : ~(p < 1)
      BY DEF Phis
    <3> QED
      BY <2>1, <2>2, <3>1 DEF Assigned
  <2>6. Continues(top) \in BOOLEAN
    BY DEF Continues
  <2> QED
    BY <2>1, <2>2, <2>3, <2>4, <2>5, <2>6 DEF LoopRuns
<1>6. CASE AssignPhi
  <2>1. /\ pc = "assign" /\ pc' = pc /\ next \in Phis /\ next' = next + 1
        /\ top' = top /\ var' = var /\ cond' = cond
        /\ phi' = [phi EXCEPT ![next] =
                     IF loop.rotated /\ ~GoesOn THEN @ ELSE Operand(loop.back[next])]
    BY <1>6 DEF AssignPhi
  <2>2. Computed /\ Assigned /\ (loop.rotated \/ Continues(top))
    BY <1>1, <2>1 DEF LoopRuns
  <2>3. Computed' /\ Continues(top)' = Continues(top)
    BY <1>2, <2>1, <2>2 DEF Computed, Compared, Continues
  <2>4. loop.rotated /\ ~GoesOn <=> ~Continues(top)
    <3>1. loop.rotated => GoesOn = Continues(top)
      BY <1>1, <2>1, GoesOnIs
    <3> QED
      BY <2>2, <3>1
  <2>5. Operand(loop.back[next]) = ValueIn(top, loop.back[next])
    BY <1>1, <2>1, OperandIs
  <2>6. Assigned'
    <3> SUFFICES ASSUME NEW p \in Phis
                 PROVE  phi'[p] = IF p < next + 1 /\ Continues(top) THEN ValueIn(top, loop.back[p])
                                  ELSE top[p]
      BY <1>2, <2>1, <2>3 DEF Assigned
    <3>1. phi[p] = IF p < next /\ Continues(top) THEN ValueIn(top, loop.back[p]) ELSE top[p]
      BY <2>2 DEF Assigned
    <3>2. p \in Nat /\ next \in Nat
      BY <2>1 DEF Phis
    <3>3. phi \in [Phis -> Nums]
      BY <1>1 DEF PVTypeOK
    <3>4. CASE p = next
      <4>1. phi'[p] = IF ~Continues(top) THEN phi[p] ELSE ValueIn(top, loop.back[p])
        BY <2>1, <2>4, <2>5, <3>3, <3>4
      <4>2. ~(p < next) /\ p < next + 1
        BY <3>2, <3>4
      <4> QED
        BY <3>1, <4>1, <4>2
    <3>5. CASE p # next
      <4>1. phi'[p] = phi[p]
        BY <2>1, <3>3, <3>5
      <4>2. p < next + 1 <=> p < next
        BY <3>2, <3>5
      <4> QED
        BY <3>1, <4>1, <4>2
    <3> QED
      BY <3>4, <3>5
  <2> QED
    BY <1>2, <2>1, <2>2, <2>3, <2>6 DEF LoopRuns
<1>7. CASE EndIteration
  <2>1. /\ pc = "assign" /\ next \notin Phis
        /\ pc' = IF loop.rotated /\ ~GoesOn THEN "after" ELSE "body"
        /\ phi' = phi /\ top' = top /\ var' = var /\ cond' = cond
    BY <1>7 DEF EndIteration
  <2>2. CASE loop.rotated /\ ~GoesOn
    <3>1. Computed /\ Assigned
      BY <1>1, <2>1 DEF LoopRuns
    <3>2. ~Continues(top)
      BY <1>1, <2>1, <2>2, GoesOnIs
    <3>3. phi = top
      <4>1. phi \in [Phis -> Nums] /\ top \in [Phis -> Nums]
        BY <1>1 DEF PVTypeOK
      <4>2. \A p \in Phis : phi[p] = top[p]
        BY <3>1, <3>2 DEF Assigned
      <4> QED
        BY <4>1, <4>2
    <3>4. Computed' /\ ~Continues(top)'
      BY <1>2, <2>1, <3>1, <3>2 DEF Computed, Compared, Continues
    <3> QED
      BY <2>1, <2>2, <3>3, <3>4 DEF LoopRuns
  <2>3. CASE ~(loop.rotated /\ ~GoesOn)
    BY <2>1, <2>3 DEF LoopRuns
  <2> QED
    BY <2>2, <2>3
<1>8. CASE AssignExitPhi
  BY <1>8 DEF AssignExitPhi, LoopRuns
<1>9. CASE UNCHANGED pvVars
  BY <1>1, <1>9 DEF pvVars, LoopRuns, Computed, Assigned, Continues, Compared
<1> QED
  BY <1>3, <1>4, <1>5, <1>6, <1>7, <1>8, <1>9 DEF PVNext

LEMMA InvStep == PVInv /\ [PVNext]_pvVars => PVInv'
<1> SUFFICES ASSUME PVInv, [PVNext]_pvVars PROVE PVInv'
  OBVIOUS
<1>1. PVTypeOK'
  BY TypeStep DEF PVInv
<1>2. Sequential' = Sequential
  <2>1. loop' = loop
    BY DEF PVNext, EnterLoop, RunBody, BranchOfHeader, AssignPhi, EndIteration, AssignExitPhi,
           pvVars
  <2> QED
    BY <2>1 DEF Sequential, AssignedInOrder, ConditionStays
<1>3. Sequential => LoopRuns'
  BY RunsStep
<1> QED
  BY <1>1, <1>2, <1>3 DEF PVInv

-----------------------------------------------------------------------------
(* LLVM's values, read off the C program. *)

MappedPhi == IF pc = "body" THEN phi ELSE top

MappedAt ==
  CASE pc = "before" -> "outside" [] pc = "end" -> "behind" [] OTHER -> "inside"

LEMMA LlvmOperandIs ==
  ASSUME NEW x \in ValueKinds
  PROVE  LLVM!Operand(x) = ValueIn(MappedPhi, x)
BY DEF LLVM!Operand, ValueIn, MappedPhi

LEMMA LlvmGoesOnIs ==
  ASSUME loop \in LLVM!Loops
  PROVE  LLVM!GoesOn = Continues(MappedPhi)
BY LlvmOperandIs, TestKind DEF LLVM!GoesOn, Continues, Compared

LEMMA MappedVars ==
  (UNCHANGED LLVM!lpVars) = (UNCHANGED <<loop, MappedAt, MappedPhi, exitPhi>>)
BY DEF LLVM!lpVars, MappedAt, MappedPhi

LEMMA StepImplements ==
  ASSUME PVInv, [PVNext]_pvVars
  PROVE  [Sequential => LLVM!LPNext]_(LLVM!lpVars)
<1> SUFFICES ASSUME Sequential, ~UNCHANGED LLVM!lpVars
             PROVE  LLVM!LPNext
  OBVIOUS
<1>1. PVTypeOK /\ LoopRuns /\ loop \in LLVM!Loops
  BY DEF PVInv, PVTypeOK
<1>2. ~UNCHANGED <<loop, MappedAt, MappedPhi, exitPhi>>
  BY MappedVars
<1>3. CASE EnterLoop
  <2>1. LLVM!EnterLoop
    BY <1>3 DEF EnterLoop, LLVM!EnterLoop
  <2> QED
    BY <2>1 DEF LLVM!LPNext
<1>4. CASE RunBody
  <2>1. UNCHANGED <<loop, MappedAt, MappedPhi, exitPhi>>
    BY <1>4 DEF RunBody, MappedAt, MappedPhi
  <2> QED
    BY <1>2, <2>1
<1>5. CASE BranchOfHeader \/ AssignPhi
  <2>1. UNCHANGED <<loop, MappedAt, MappedPhi, exitPhi>>
    BY <1>5 DEF BranchOfHeader, AssignPhi, MappedAt, MappedPhi
  <2> QED
    BY <1>2, <2>1
<1>6. CASE EndIteration
  <2>1. /\ pc = "assign" /\ next \notin Phis /\ loop' = loop /\ exitPhi' = exitPhi
        /\ phi' = phi /\ top' = top
        /\ pc' = IF loop.rotated /\ ~GoesOn THEN "after" ELSE "body"
    BY <1>6 DEF EndIteration
  <2>2. CASE loop.rotated /\ ~GoesOn
    <3>1. UNCHANGED <<loop, MappedAt, MappedPhi, exitPhi>>
      BY <2>1, <2>2 DEF MappedAt, MappedPhi
    <3> QED
      BY <1>2, <3>1
  <2>3. CASE ~(loop.rotated /\ ~GoesOn)
    <3>1. Continues(top)
      <4>1. loop.rotated => GoesOn = Continues(top)
        BY <1>1, <2>1, GoesOnIs
      <4>2. loop.rotated \/ Continues(top)
        BY <1>1, <2>1 DEF LoopRuns
      <4> QED
        BY <2>3, <4>1, <4>2
    <3>2. phi = [p \in Phis |-> ValueIn(top, loop.back[p])]
      <4>1. phi \in [Phis -> Nums] /\ next \in 1..P + 1 /\ P \in Nat
        BY <1>1, LoopAssumption DEF PVTypeOK
      <4>2. \A p \in Phis : p < next
        BY <2>1, <4>1 DEF Phis
      <4>3. \A p \in Phis : phi[p] = ValueIn(top, loop.back[p])
        BY <1>1, <2>1, <3>1, <4>2 DEF LoopRuns, Assigned
      <4> QED
        BY <4>1, <4>3
    <3>3. MappedPhi = top /\ MappedPhi' = phi /\ MappedAt = "inside" /\ MappedAt' = "inside"
      BY <2>1, <2>3 DEF MappedPhi, MappedAt
    <3>4. LLVM!GoesOn
      BY <1>1, <3>1, <3>3, LlvmGoesOnIs
    <3>5. \A p \in Phis : LLVM!Operand(loop.back[p]) = ValueIn(top, loop.back[p])
      BY <1>1, <3>3, LlvmOperandIs, LoopParts
    <3>6. MappedPhi' = [p \in Phis |-> LLVM!Operand(loop.back[p])]
      BY <3>2, <3>3, <3>5
    <3>7. LLVM!Iterate
      BY <2>1, <3>3, <3>4, <3>6 DEF LLVM!Iterate, LLVM!Phis, Phis, MappedPhi, MappedAt
    <3> QED
      BY <3>7 DEF LLVM!LPNext
  <2> QED
    BY <2>2, <2>3
<1>7. CASE AssignExitPhi
  <2>1. /\ pc = "after" /\ pc' = "end" /\ exitPhi' = Operand(loop.exit)
        /\ loop' = loop /\ phi' = phi /\ top' = top
    BY <1>7 DEF AssignExitPhi
  <2>2. Computed /\ phi = top /\ ~Continues(top)
    BY <1>1, <2>1 DEF LoopRuns
  <2>3. /\ MappedPhi = top /\ MappedPhi' = top
        /\ MappedAt = "inside" /\ MappedAt' = "behind"
    BY <2>1 DEF MappedPhi, MappedAt
  <2>4. ~LLVM!GoesOn
    BY <1>1, <2>2, <2>3, LlvmGoesOnIs
  <2>5. loop.exit \in ValueKinds
    BY <1>1, LoopParts
  <2>6. Operand(loop.exit) = ValueIn(top, loop.exit)
    BY <2>2, <2>5, ValueCases DEF Operand, ValueIn, Computed
  <2>7. exitPhi' = LLVM!Operand(loop.exit)
    BY <2>1, <2>3, <2>5, <2>6, LlvmOperandIs
  <2>8. LLVM!LeaveLoop
    BY <2>1, <2>3, <2>4, <2>7 DEF LLVM!LeaveLoop, MappedPhi, MappedAt
  <2> QED
    BY <2>8 DEF LLVM!LPNext
<1>8. CASE UNCHANGED pvVars
  <2>1. UNCHANGED <<loop, MappedAt, MappedPhi, exitPhi>>
    BY <1>8 DEF pvVars, MappedAt, MappedPhi
  <2> QED
    BY <1>2, <2>1
<1> QED
  BY <1>3, <1>4, <1>5, <1>6, <1>7, <1>8 DEF PVNext

-----------------------------------------------------------------------------
\* Every variable of the C program keeps a value of its type.
THEOREM ValuesInType == PVSpec => []PVTypeOK
<1>1. PVInit => PVInv
  BY InitType
<1>2. PVInv /\ [PVNext]_pvVars => PVInv'
  BY InvStep
<1>3. PVInv => PVTypeOK
  BY DEF PVInv
<1> QED
  BY <1>1, <1>2, <1>3, PTL DEF PVSpec

\* generatePhiAssignments' assignments, made one after the other, give all phi
\* nodes of a loop the values LLVM gives them at the same time, and the select
\* in front of a do-while's condition keeps the last values for the code
\* behind the loop: for every loop with an order of its phi nodes that suits
\* the assignments, whatever it computes.
THEOREM LoopValuesImplementLlvm == PVSpec => SequentialLoopsImplementLlvm
<1>1. PVInit => PVInv
  BY InitType
<1>2. PVInv /\ [PVNext]_pvVars => PVInv'
  BY InvStep
<1>3. PVInv /\ [PVNext]_pvVars => [Sequential => LLVM!LPNext]_(LLVM!lpVars)
  BY StepImplements
<1> QED
  BY <1>1, <1>2, <1>3, PTL DEF PVSpec, SequentialLoopsImplementLlvm
==============================================================================
