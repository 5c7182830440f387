--------------------------- MODULE MCDeclarations ---------------------------
(* Modules with three structs, with four globals, with the functions of every *)
(* list, with debug information, with a union; each without the others.      *)
EXTENDS DebugTypes

A == <<"struct", "A">>
B == <<"struct", "B">>
C == <<"struct", "C">>
Num == <<"int">>
Ptr(t) == <<"pointer", t>>
Arr(t) == <<"array", t>>
Fun(t) == <<"function", <<t>>, Num>>

OfA == {Num, Arr(B), Ptr(A), Ptr(Arr(B)), <<"literal", <<B>>>>, Arr(Arr(C)), Fun(Ptr(A)),
        Fun(Fun(Ptr(A))), Arr(Ptr(Arr(C)))}
OfB == {Ptr(Ptr(A)), C, Ptr(Arr(C)), <<"literal", <<Num, Fun(Ptr(A))>>>>, Ptr(Ptr(Arr(C)))}
OfC == {Num, Ptr(Ptr(Fun(Ptr(A))))}

U == <<"unsigned">>
Vla(t) == <<"vla", t>>
DFun(t) == <<"debug function", <<t>>, Num>>

DebugOfA == {Ptr(B), DFun(Ptr(A)), DFun(DFun(Ptr(A))), Arr(Ptr(A)), Vla(DFun(Num))}
DebugOfB == {<<U, U>>, <<DFun(Ptr(A))>>, <<Arr(Ptr(Arr(A)))>>}
Union == <<"union", "U">>
DebugOfUnion == {U, Ptr(A), Arr(Ptr(A)), DFun(Ptr(A))}
DebugOfUser == {Union, Ptr(Union), Arr(Union), DFun(Ptr(Union))}
UnionRoots == {<<Ptr(Union)>>, <<A>>, <<DFun(Ptr(A)), A>>, <<Ptr(Union), DFun(Ptr(A))>>}

DebugRoots == {DFun(DFun(Ptr(A))), Arr(Ptr(A)), DFun(U)}

Below(t) ==
  CASE t[1] \in {"array", "pointer", "vla"} -> {t, t[2]}
    [] t[1] = "literal" -> {t} \cup Range(t[2])
    [] t[1] \in {"function", "debug function"} -> {t, t[3]} \cup Range(t[2])
    [] OTHER -> {t}
Closed1(ts) == UNION {Below(t) : t \in ts}

LlvmTypes == {Arr(Num), Fun(Ptr(Union)), Arr(Union), Union, Fun(Ptr(A)), Fun(Fun(Ptr(A))),
              Fun(Num), Arr(Ptr(A)), Arr(Fun(Num)), Arr(Ptr(Arr(A)))}
MCTypes == Closed1(Closed1(Closed1(Closed1(OfA \cup OfB \cup OfC \cup {A, B, C, VaListTag}
             \cup DebugOfA \cup DebugOfUnion \cup DebugOfUser
             \cup UNION {Range(b) : b \in DebugOfB} \cup DebugRoots \cup LlvmTypes))))

MCDepth ==
  LET depth[t \in MCTypes] ==
        LET parts == CASE Is(t, "literal") -> Range(t[2])
                       [] Is(t, "union") -> DebugOfUnion
                       [] OTHER -> Below(t) \ {t}
        IN IF parts = {} THEN 0 ELSE 1 + Max({depth[p] : p \in parts})
  IN depth

Empty ==
  [structs |-> <<>>, items |-> [s \in {} |-> <<>>], uses |-> <<>>, globals |-> <<>>,
   initializer |-> [g \in {} |-> <<>>], functions |-> {"main"}, defined |-> {"main"},
   calls |-> {}, overflow |-> {}, compares |-> FALSE,
   debug |-> <<>>, debugItems |-> [s \in {} |-> <<>>]]

Distinct(S) == {q \in UNION {[1..k -> S] : k \in 0..2} : IsInjective(q)}
UpTo(n, S) == UNION {[1..k -> S] : k \in 0..n}

WithStructs ==
  {[Empty EXCEPT !.structs = o, !.uses = <<Fun(Fun(Ptr(A)))>>,
      !.items = [s \in {A, B, C} |-> CASE s = A -> a [] s = B -> b [] OTHER -> c]] :
    o \in {<<A, B, C>>, <<C, B, A>>}, a \in UpTo(2, OfA), b \in UpTo(1, OfB), c \in UpTo(1, OfC)}

Globals == <<"g", "h", "k", "stdout">>
Refs == {<<>>, <<"g">>, <<"h">>, <<"k">>, <<"g", "h">>, <<"k", "h">>, <<"h", "k", "stdout">>}
WithGlobals ==
  {[Empty EXCEPT !.globals = Globals, !.functions = {"main", "printf"},
      !.calls = {"printf"},
      !.initializer = [x \in Range(Globals) |->
                        CASE x = "g" -> g [] x = "h" -> h [] x = "k" -> k [] OTHER -> <<>>]] :
    g \in Refs, h \in Refs, k \in Refs}

External == {"malloc", "strlen", "memcpy", "printf", "pthread_create", "floor", "isnan", "helper",
             "llvm.memcpy.i64", "llvm.floor.f64", "llvm.minnum.f64", "llvm.va_start",
             "llvm.bswap.i32", "llvm.dbg.value", "llvm.uadd.with.overflow.i32"}
WithFunctions ==
  {[Empty EXCEPT !.functions = {"main"} \cup fs, !.calls = fs \ {"llvm.dbg.value"},
      !.structs = IF "llvm.va_start" \in fs THEN <<VaListTag>> ELSE <<>>,
      !.items = [s \in {VaListTag} |-> <<Num>>],
      !.overflow = o, !.compares = c, !.defined = {"main"} \cup (fs \cap {"helper"})] :
    fs \in UNION {kSubset(n, External) : n \in 0..3}, o \in SUBSET Overflows, c \in BOOLEAN}

\* The members have the LLVM types of the debug types, but two unsigned members
\* of B are bit-fields in one int.
WithDebug ==
  {[Empty EXCEPT !.structs = <<A, B>>, !.debug = r,
      !.uses = [i \in DOMAIN r |-> Llvm[r[i]]],
      !.debugItems = [s \in {A, B} |-> IF s = A THEN a ELSE b],
      !.items = [s \in {A, B} |->
                  IF s = A THEN [i \in DOMAIN a |-> Llvm[a[i]]] ELSE <<Llvm[b[1]]>>]] :
    r \in Distinct(DebugRoots) \ {<<>>}, a \in Distinct(DebugOfA), b \in DebugOfB}

\* A struct without a name has a function pointer in LLVM that comes before
\* those of the debug information.
WithLiterals ==
  {[Empty EXCEPT !.structs = <<A>>, !.items = [s \in {A} |-> <<Num>>], !.debug = r,
      !.debugItems = [s \in {A} |-> <<U>>],
      !.uses = <<<<"literal", <<Num, Fun(Ptr(A))>>>>>> \o [i \in DOMAIN r |-> Llvm[r[i]]]] :
    r \in Distinct(DebugRoots) \ {<<>>}}

\* A struct and a union that lead to each other.  LLVM may have the union's
\* member as an int and padding.
WithUnions ==
  {[Empty EXCEPT !.structs = o, !.debug = r,
      !.uses = [i \in DOMAIN r |-> Llvm[r[i]]],
      !.debugItems = [s \in {A, Union} |-> IF s = A THEN a ELSE <<u>>],
      !.items = [s \in {A, Union} |->
                  IF s = A THEN [i \in DOMAIN a |-> Llvm[a[i]]]
                  ELSE IF padded THEN <<Num, Arr(Num)>> ELSE <<Llvm[u]>>]] :
    o \in {<<A, Union>>, <<Union, A>>}, r \in UnionRoots,
    a \in Distinct(DebugOfUser) \ {<<>>}, u \in DebugOfUnion, padded \in BOOLEAN}

\* int (*)(int) and int (*)(unsigned), which are one type in LLVM.
SameLlvmType ==
  [mod : {[Empty EXCEPT !.debug = <<DFun(Num), DFun(U)>>, !.uses = <<Fun(Num), Fun(Num)>>]},
   includes : {FALSE}]

MCInputs == [mod : WithGlobals \cup WithFunctions, includes : BOOLEAN]
              \cup [mod : WithStructs \cup WithDebug \cup WithLiterals \cup WithUnions, includes : {FALSE}]
=============================================================================
