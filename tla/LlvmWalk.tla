------------------------------ MODULE LlvmWalk ------------------------------
(***************************************************************************)
(* What a call of an LLVM function does at the level of basic blocks, the  *)
(* specification the emitted C has to implement: blocks run one at a time, *)
(* each follows the edge its terminator selects, and the phi nodes of a    *)
(* block take their values for the edge it was entered by.                 *)
(***************************************************************************)
EXTENDS Integers, Sequences

CONSTANTS Entry, NoBlock

VARIABLES
  term,     \* terminator kind of every block
  succ,     \* successors of every block
  phis,     \* blocks that start with phi nodes
  at,       \* the block that runs, NoBlock before the entry block
  src,      \* the predecessor the phi nodes of "at" were evaluated for
  out,      \* the outcome of at's terminator: an index of succ[at]
  returned  \* whether the function returned

walkVars == <<term, succ, phis, at, src, out, returned>>

Init ==
  /\ at = NoBlock
  /\ src = NoBlock
  /\ out = 0
  /\ returned = FALSE

EntersFrom(b) ==
  IF at = NoBlock THEN b = Entry
                  ELSE out \in DOMAIN succ[at] /\ b = succ[at][out]

Enter(b) ==
  /\ ~returned
  /\ EntersFrom(b)
  /\ at' = b
  /\ src' = IF b \in phis THEN at ELSE NoBlock
  /\ IF succ[b] = <<>> THEN out' = 0 ELSE out' \in DOMAIN succ[b]
  /\ UNCHANGED <<term, succ, phis, returned>>

Return ==
  /\ ~returned
  /\ at # NoBlock
  /\ term[at] = "ret"
  /\ returned' = TRUE
  /\ UNCHANGED <<term, succ, phis, at, src, out>>

Next == Return \/ \E b \in DOMAIN succ : Enter(b)

Spec == Init /\ [][Next]_walkVars
=============================================================================
