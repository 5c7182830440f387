----------------------------- MODULE MCPhiValues -----------------------------
(* Two phi nodes that count modulo 3; the branch tells one value apart. *)
EXTENDS PhiValues

MCNums == 0..2
MCStep == [x \in MCNums |-> (x + 1) % 3]
MCTest == [x \in MCNums |-> x # 2]

MCInside == [kind : {"phi", "var"}, p : 1..P]
MCValues == [kind : {"outside"}, n : {0}] \cup MCInside

MCLoops ==
  {l \in [first : [1..P -> {0, 1}], back : [1..P -> MCValues],
          test : MCInside, kept : BOOLEAN, inlined : BOOLEAN, exit : MCInside,
          rotated : BOOLEAN, neg : BOOLEAN] : LLVM!InlinesItsOnlyUse(l)}
===============================================================================
