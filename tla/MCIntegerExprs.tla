---------------------------- MODULE MCIntegerExprs ----------------------------
(* Two instructions over two parameters, in every combination.  *)
EXTENDS IntegerExprs

MCBits == [bool |-> 1, char |-> 2, int |-> 4, long |-> 5]

Leaf(op, k, dbg, v) == [op |-> op, k |-> k, dbg |-> dbg, args |-> <<>>, nsw |-> FALSE, v |-> v]
Param(k, dbg) == Leaf("param", k, dbg, 0)
Const(k, v) == Leaf("const", k, "none", v)

\* Unsigned, signed and mixed programs; literals 1 and, as an i1, true.
MCLeaves == {<<Param("int", "signed"), Const("int", 1)>>,
             <<Param("bool", "none"), Const("bool", 1), Param("long", "none")>>,
             <<Param("char", "none"), Param("int", "unsigned")>>,
             <<Param("int", "signed"), Param("long", "signed")>>,
             <<Param("char", "signed"), Param("int", "none")>>}

\* A comparison of an int with a long converted to int.
TwoWidths == {<<Param("int", "signed"), Param("long", "signed")>>}
===============================================================================
