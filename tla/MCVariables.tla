---------------------------- MODULE MCVariables ----------------------------
(* A function with every sequence of debug intrinsics for its variables, and *)
(* functions with one or two arrays and every order of their statements.     *)
EXTENDS Variables

MCNoNumber == 0 - 1

Name(t, n) == [text |-> t, n |-> n, suffix |-> ""]
Plain(kind) == [kind |-> kind, size |-> 0, copied |-> FALSE]
Array(size, copied) == [kind |-> "vla", size |-> size, copied |-> copied]

Phi(n) == [text |-> "var", n |-> n, suffix |-> "_phi"]

\* The last variable of the functions is a phi node's, var5_phi or var6_phi.
LocalNames ==
  {Name("x", MCNoNumber), Name("x", 2), Var(1), Phi(5), Name("var", MCNoNumber), Argc}
Debugs == [v : {1}, name : LocalNames, declare : {FALSE}]
            \cup [v : {2}, name : LocalNames, declare : {TRUE}]
            \cup [v : {3}, name : LocalNames, declare : {FALSE}]

Naming ==
  {[globals |-> gs,
    funcs |-> <<[vars |-> <<Plain("param"), Plain("alloca"), Plain("temp"), Plain("phi")>>,
                 debug |-> d, code |-> <<>>, isMain |-> m]>>] :
     gs \in {{Var(0), Var(2)}, {Var(0), Var(2), Phi(5)}}, d \in UNION {[1..n -> Debugs] : n \in 0..3},
     m \in BOOLEAN}

St(op, v) == [op |-> op, v |-> v]
Before(c, s, t) == \A i, j \in DOMAIN c : c[i] = s /\ c[j] = t => i < j

\* Every array is allocated once, before its uses.
Codes(codes, arrays) ==
  {c \in codes : \A v \in arrays :
     /\ Before(c, St("alloca", v), St("use", v))
     /\ Cardinality({i \in DOMAIN c : c[i] = St("alloca", v)}) = 1}

\* The code in two blocks.
Split(c) == {<<SubSeq(c, 1, i), SubSeq(c, i + 1, Len(c))>> : i \in 1..(Len(c) - 1)}

OneArray(kind, copied) ==
  {[vars |-> <<Plain(kind), Array(1, copied)>>, debug |-> d, code |-> c, isMain |-> FALSE] :
     c \in UNION {Split(x) : x \in Codes(UNION {[1..n -> {St("alloca", 2), St("use", 2)} \cup
             (IF kind = "alloca" THEN {St("assign", 1)} ELSE {})] : n \in 2..4}, {2})},
     d \in {<<>>, <<[v |-> 1, name |-> Name("x", MCNoNumber), declare |-> TRUE]>>}}

TwoArrays(size) ==
  {[vars |-> <<Plain("alloca"), Plain("alloca"), Array(1, TRUE), Array(size, FALSE)>>,
    debug |-> <<>>, code |-> s, isMain |-> FALSE] :
     s \in UNION {Split(c) : c \in Codes(SetToSeqs({St("assign", 1), St("assign", 2),
             St("alloca", 3), St("use", 3), St("alloca", 4), St("use", 4)}), {3, 4})}}

Functions == OneArray("alloca", TRUE) \cup OneArray("alloca", FALSE)
               \cup OneArray("param", FALSE) \cup TwoArrays(1) \cup TwoArrays(2)

NoArray ==
  [vars |-> <<Plain("alloca")>>, debug |-> <<>>, code |-> <<<<St("assign", 1)>>>>, isMain |-> TRUE]

TwoFunctions == {[globals |-> {}, funcs |-> <<g, NoArray>>] : g \in OneArray("alloca", FALSE)}

MCPrograms ==
  Naming \cup TwoFunctions \cup {[globals |-> {}, funcs |-> <<g>>] : g \in Functions}
===============================================================================
