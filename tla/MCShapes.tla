------------------------------ MODULE MCShapes ------------------------------
(* The translation of chosen functions of up to N blocks: deeper loop      *)
(* nests, switches, blocks LLVM calls unreachable or cannot reach.         *)
EXTENDS EmittedC

CONSTANTS
  Shapes,      \* the functions: a tuple of terminators with their successors
  SwitchPhis   \* whether the targets of a switch may start with phi nodes

Ret == [term |-> "ret", succ |-> <<>>]
Unreachable == [term |-> "unreachable", succ |-> <<>>]
Br(a) == [term |-> "br", succ |-> <<a>>]
Cond(a, b) == [term |-> "cond", succ |-> <<a, b>>]
Switch(s) == [term |-> "switch", succ |-> s]

LoopShapes ==
  {\* three nested loops, the inner one a single block
   <<Br(2), Br(3), Br(4), Cond(4, 5), Cond(6, 3), Cond(2, 7), Ret>>,
   \* a loop around an if with both arms, header and latch apart
   <<Br(2), Cond(3, 4), Br(5), Br(5), Cond(2, 6), Ret>>,
   \* breaks from the header and from the middle to one exit
   <<Br(2), Cond(3, 6), Cond(4, 6), Br(5), Cond(6, 2), Ret>>,
   \* two loops in a row inside a loop: an exit block is the next preheader
   <<Br(2), Br(3), Cond(3, 4), Br(5), Cond(5, 6), Cond(2, 7), Ret>>,
   \* an inner loop of two blocks the outer loop leaves by a return
   <<Br(2), Br(3), Cond(4, 7), Cond(3, 5), Br(6), Cond(2, 8), Ret, Ret>>,
   \* a loop without exit around a rotated loop
   <<Br(2), Br(3), Cond(3, 4), Br(2)>>,
   \* an inner loop of a header and the latch it leads to; the outer loop's
   \* header is the inner one's preheader
   <<Br(2), Br(3), Br(4), Cond(3, 5), Cond(2, 6), Ret>>,
   \* both edges of a branch to one block, in a loop
   <<Br(2), Cond(3, 3), Cond(2, 4), Ret>>,
   \* a cycle with two entries, no loop for LLVM
   <<Cond(2, 3), Cond(3, 4), Cond(2, 4), Ret>>}

OtherShapes ==
  {\* a switch with a merge, one in a loop, one with two cases for one block
   <<Switch(<<2, 3, 4>>), Br(5), Br(5), Br(5), Ret>>,
   <<Br(2), Switch(<<3, 4, 5>>), Br(6), Br(6), Br(6), Cond(2, 7), Ret>>,
   <<Switch(<<2, 2, 3>>), Br(3), Ret>>,
   \* a call that does not return
   <<Cond(2, 3), Unreachable, Ret>>,
   \* one in a loop
   <<Br(2), Cond(3, 4), Unreachable, Cond(5, 6), Br(6), Cond(2, 7), Ret>>,
   \* unreachable blocks in front of a reachable one
   <<Br(2), Ret, Br(2), Br(3)>>}

AllShapes == LoopShapes \cup OtherShapes

\* unsigned r; switch (x) { case 1: r = ..; break; case 2: ..}: the default
\* edge enters the merge directly.
SwitchMerge == {<<Switch(<<4, 2, 3>>), Br(4), Br(4), Ret>>}

\* Code after a return that a label and a goto keep alive.
DeadLoop == {<<Ret, Br(2)>>, <<Ret, Br(3), Br(2)>>, <<Ret, Br(2), Br(2)>>}

SwitchTargets(s) == UNION {{s[b].succ[i] : i \in DOMAIN s[b].succ} :
                             b \in {c \in DOMAIN s : s[c].term = "switch"}}

\* The blocks a shape leaves over are unreachable.
Padded(s) == [b \in Blocks |-> IF b \in DOMAIN s THEN s[b] ELSE Unreachable]

Function(s, bare) ==
  [term |-> [b \in Blocks |-> Padded(s)[b].term],
   succ |-> [b \in Blocks |-> Padded(s)[b].succ],
   phis |-> (2..N) \ (IF SwitchPhis THEN {} ELSE SwitchTargets(s)),
   bare |-> bare]

MCInit ==
  /\ \E s \in Shapes : \E bare \in {{}, {b \in DOMAIN s : s[b].term = "ret"}} :
       g = Function(s, bare)
  /\ EmInit

MCSpec == MCInit /\ [][EmNext]_emVars /\ WF_emVars(Translate)
=============================================================================
