----------------------------- MODULE PointerExprs -----------------------------
(***************************************************************************)
(* Pointers, from LLVM's loads, stores, getelementptr and memcpy to the    *)
(* text refDeref, memcpyToAssignment and arrowify leave.  A state holds    *)
(* one statement, a memory for it and the text as the passes make it.      *)
(*                                                                         *)
(* Memory holds structs S of a number a and a pointer f to an S, arrays of *)
(* two S, and pointers.  A place is a variable and a path into it.         *)
(* Integers are 2 bits wide, longs 4.                                      *)
(***************************************************************************)
EXTENDS Integers, Sequences, SequencesExt

CONSTANTS
  Statements,     \* the statements to translate
  Memories,       \* what memory holds before
  Undef           \* the result of what LLVM or C gives no meaning

S == <<"S">>
Arr == <<"array of S">>
Number == <<"number">>
Byte == <<"byte">>
Ptr(t) == <<"pointer", t>>
Pointee(t) == t[2]
IsPtr(t) == t[1] = "pointer"

VarTypes == [s |-> S, t |-> S, c |-> Arr, p |-> Ptr(S), q |-> Ptr(S), pp |-> Ptr(Ptr(S)),
             r |-> Ptr(Arr)]
FieldTypes == [a |-> Number, f |-> Ptr(S)]

\* In units of a number or a pointer.
SizeOf(t) == CASE t = S -> 2 [] t = Arr -> 4 [] OTHER -> 1

VARIABLES
  stmt,       \* the LLVM instruction with the values it is made of
  signed,     \* the type of the integer variable n is int, not unsigned
  memory,     \* of the variables, n with them
  pass,       \* the pass that comes next
  text        \* the statement in C

peVars == <<stmt, signed, memory, pass, text>>

-----------------------------------------------------------------------------
(* Memory *)

Place(v, path) == [var |-> v, path |-> path]

At(value, path) ==
  CASE path = <<>> -> value
    [] Len(path) = 1 -> value[path[1]]
    [] OTHER -> value[path[1]][path[2]]

Load(place) == IF place = Undef THEN Undef ELSE At(memory[place.var], place.path)

Store(place, x) ==
  IF place = Undef \/ x = Undef THEN Undef
  ELSE [memory EXCEPT ![place.var] =
          CASE place.path = <<>> -> x
            [] Len(place.path) = 1 -> [@ EXCEPT ![place.path[1]] = x]
            [] OTHER -> [@ EXCEPT ![place.path[1]][place.path[2]] = x]]

Into(place, step) == IF place = Undef THEN Undef ELSE [place EXCEPT !.path = Append(@, step)]

Elements == <<"e0", "e1">>

\* n elements further in the array c
Shifted(place, n) ==
  IF place = Undef \/ n = 0 THEN place
  ELSE IF \E i \in 1..2 : i + n \in 1..2 /\ place = Place("c", <<Elements[i]>>)
       THEN Place("c", <<Elements[IF n = 1 THEN 2 ELSE 1]>>) ELSE Undef

TypeAt(place) ==
  LET fields == SelectSeq(place.path, LAMBDA x : x \in DOMAIN FieldTypes)
  IN IF fields # <<>> THEN FieldTypes[fields[1]]
     ELSE IF place.var = "c" /\ place.path # <<>> THEN S ELSE VarTypes[place.var]

\* memcpy of size units; a part of a struct is its first field, of an array
\* its first element.
Copied(dst, src, size) ==
  IF dst = Undef \/ src = Undef THEN Undef
  ELSE CASE size = SizeOf(TypeAt(src)) -> Store(dst, Load(src))
         [] TypeAt(src) = S -> Store(Into(dst, "a"), Load(Into(src, "a")))
         [] TypeAt(src) = Arr -> Store(Into(dst, "e0"), Load(Into(src, "e0")))
         [] OTHER -> Undef

Signed(x, w) == IF x % 2^w < 2^(w - 1) THEN x % 2^w ELSE (x % 2^w) - 2^w

-----------------------------------------------------------------------------
(* What the LLVM statement does *)

\* <<"const", k>>, <<"n">>, <<"sext">>, <<"zext">> (of n), <<"neg", index>>
RECURSIVE LlvmIndex(_)
LlvmIndex(x) ==
  CASE x[1] = "const" -> x[2]
    [] x[1] \in {"n", "sext"} -> Signed(memory.n, 2)
    [] x[1] = "zext" -> memory.n
    [] x[1] = "neg" -> Signed(0 - LlvmIndex(x[2]), 4)

\* <<"alloca", variable>>, <<"load", pointer>>, <<"gep", pointer, index, steps>>,
\* <<"bitcast", pointer>>
RECURSIVE LlvmType(_), LlvmValue(_)
LlvmType(v) ==
  CASE v[1] = "alloca" -> Ptr(VarTypes[v[2]])
    [] v[1] = "load" -> Pointee(LlvmType(v[2]))
    [] v[1] = "bitcast" -> Ptr(Byte)
    [] v[1] = "gep" ->
         FoldLeft(LAMBDA t, step : Ptr(IF step \in DOMAIN FieldTypes THEN FieldTypes[step] ELSE S),
                  LlvmType(v[2]), v[4])

LlvmValue(v) ==
  CASE v[1] = "alloca" -> Place(v[2], <<>>)
    [] v[1] = "load" -> Load(LlvmValue(v[2]))
    [] v[1] = "bitcast" -> LlvmValue(v[2])
    [] v[1] = "gep" -> FoldLeft(Into, Shifted(LlvmValue(v[2]), LlvmIndex(v[3])), v[4])

\* <<"store", value, pointer>>, <<"memcpy", to, from, size>>
LlvmMemory ==
  IF stmt[1] = "store" THEN Store(LlvmValue(stmt[3]), LlvmValue(stmt[2]))
  ELSE Copied(LlvmValue(stmt[2]), LlvmValue(stmt[3]), stmt[4])

-----------------------------------------------------------------------------
(* createExpressions *)

\* A sign extension casts to the signed integer first, a zero extension to the
\* unsigned one.
RECURSIVE IndexExpr(_)
IndexExpr(x) ==
  CASE x[1] = "const" -> <<"value", x[2]>>
    [] x[1] = "n" -> <<"n">>
    [] x[1] = "sext" -> <<"cast", <<"cast", <<"n">>, "int">>, "long">>
    [] x[1] = "zext" -> <<"cast", <<"cast", <<"n">>, "unsigned">>, "unsigned long">>
    [] x[1] = "neg" -> <<"sub", <<"value", 0>>, IndexExpr(x[2])>>

\* The type at the time of translation: a variable is unsigned, a number unless
\* it is negative.
IsUnsigned(e) ==
  CASE e[1] = "value" -> e[2] >= 0
    [] e[1] = "n" -> TRUE
    [] e[1] = "cast" -> e[3] \in {"unsigned", "unsigned long"}
    [] OTHER -> TRUE

RECURSIVE WithoutCasts(_)
WithoutCasts(e) == IF e[1] = "cast" THEN WithoutCasts(e[2]) ELSE e

\* mutant of NormalizeIndexForPointerShift
NormalizeIndexLate(e) ==
  IF e[1] = "sub" /\ e[2] = <<"value", 0>>
  THEN <<"cast", <<"cast", <<"minus", WithoutCasts(e[3])>>, "unsigned">>, "unsigned long">>
  ELSE <<"cast", e, IF IsUnsigned(e) THEN "unsigned long" ELSE "long">>

\* 0 - x becomes -(long)x without the casts x had.
NormalizeIndexForPointerShift(e) ==
  IF e[1] = "sub" /\ e[2] = <<"value", 0>>
  THEN <<"minus", <<"cast", WithoutCasts(e[3]), "long">>>>
  ELSE <<"cast", e, IF IsUnsigned(e) THEN "unsigned long" ELSE "long">>

\* The first index shifts the pointer or, if it is 0, only follows it; each
\* other one is an element of what the one before it reached.
ParseGep(pointer, index, steps) ==
  <<"ref", <<"gep",
    FoldLeft(LAMBDA e, step : <<IF step \in DOMAIN FieldTypes THEN "field" ELSE "element", e, step>>,
             IF index = <<"value", 0>> THEN <<"deref", pointer>>
             ELSE <<"shift", pointer, NormalizeIndexForPointerShift(index)>>,
             steps)>>>>

\* An alloca is a reference to its variable, a load follows the pointer.
RECURSIVE Translated(_)
Translated(v) ==
  CASE v[1] = "alloca" -> <<"ref", <<"var", v[2]>>>>
    [] v[1] = "load" -> <<"deref", Translated(v[2])>>
    [] v[1] = "bitcast" -> <<"cast", Translated(v[2]), "i8*">>
    [] v[1] = "gep" -> ParseGep(Translated(v[2]), IndexExpr(v[3]), v[4])

CreateExpressions ==
  /\ pass = "createExpressions" /\ pass' = "refDeref"
  /\ text' = IF stmt[1] = "store"
             THEN <<"assign", <<"deref", Translated(stmt[3])>>, Translated(stmt[2])>>
             ELSE <<"memcpy", Translated(stmt[2]), Translated(stmt[3]), stmt[4]>>
  /\ UNCHANGED <<stmt, signed, memory>>

\* The C type of an expression, a cast's aside.
RECURSIVE ExprType(_)
ExprType(e) ==
  CASE e[1] = "var" -> VarTypes[e[2]]
    [] e[1] = "ref" -> Ptr(ExprType(e[2]))
    [] e[1] \in {"deref", "shift"} -> Pointee(ExprType(e[2]))
    [] e[1] = "gep" -> ExprType(e[2])
    [] e[1] \in {"field", "arrow"} -> FieldTypes[e[3]]
    [] e[1] = "element" -> S
    [] e[1] = "cast" -> Ptr(Byte)

-----------------------------------------------------------------------------
(* The passes over the expressions *)

\* mutant of RefDerefSimplify
RefDerefSimplifyOuter(e) ==
  IF \/ e[1] = "ref" /\ e[2][1] = "deref"
     \/ e[1] = "deref" /\ e[2][1] = "ref"
  THEN e[2] ELSE e

\* *&x and &*x are x
RefDerefSimplify(e) ==
  IF \/ e[1] = "ref" /\ e[2][1] = "deref"
     \/ e[1] = "deref" /\ e[2][1] = "ref"
  THEN e[2][2] ELSE e

\* ( *p).f is p->f
ArrowifySimplify(e) ==
  IF e[1] = "field" /\ e[2][1] = "deref" THEN <<"arrow", e[2][2], e[3]>> ELSE e

Simplify(by, e) == IF by = "refDeref" THEN RefDerefSimplify(e) ELSE ArrowifySimplify(e)

\* mutant of Visited: the right side of an assignment is not visited
RECURSIVE VisitedOnTheLeft(_, _)
VisitedOnTheLeft(by, e) ==
  IF e[1] \in {"var", "value", "n"} THEN e
  ELSE [e EXCEPT ![2] = Simplify(by, VisitedOnTheLeft(by, @))]

\* SimplifyingExprVisitor: the parts of an expression are visited, then
\* simplified; the expression itself is left to the one it is a part of.
RECURSIVE Visited(_, _)
Visited(by, e) ==
  CASE e[1] \in {"var", "value", "n"} -> e
    [] e[1] \in {"assign", "memcpy"} ->
         [e EXCEPT ![2] = Simplify(by, Visited(by, @)), ![3] = Simplify(by, Visited(by, @))]
    [] OTHER -> [e EXCEPT ![2] = Simplify(by, Visited(by, @))]

RefDeref ==
  /\ pass = "refDeref" /\ pass' = "memcpyToAssignment"
  /\ text' = Visited("refDeref", text)
  /\ UNCHANGED <<stmt, signed, memory>>

StripCast(v) == IF v[1] = "bitcast" THEN v[2] ELSE v

\* What the program's table has for a value by now: its parts are simplified,
\* it is not.
GetExpr(v) == Visited("refDeref", Translated(v))

RECURSIVE Unwrap(_), InnerExpr(_)
Unwrap(e) ==
  IF e[1] = "cast" \/ (e[1] = "ref" /\ e[2][1] = "ref") THEN Unwrap(e[2]) ELSE e
InnerExpr(e) == IF e[1] \in {"ref", "deref"} THEN InnerExpr(e[2]) ELSE e

\* The left or right side of an assignment for a pointer given to memcpy.
ForAssign(e) ==
  CASE e[1] = "ref" /\ IsPtr(Pointee(ExprType(e))) -> <<"deref", InnerExpr(e[2])>>
    [] e[1] = "ref" /\ ~IsPtr(Pointee(ExprType(e))) -> InnerExpr(e[2])
    [] e[1] = "deref" -> e
    [] OTHER -> IF IsPtr(ExprType(e)) THEN <<"deref", e>> ELSE e

CopiesWholeType(d, s, size) ==
  /\ LlvmType(StripCast(d)) = LlvmType(StripCast(s))
  /\ size = SizeOf(Pointee(LlvmType(StripCast(d))))

MemcpyToAssignment ==
  /\ pass = "memcpyToAssignment" /\ pass' = "arrowify"
  /\ text' = IF stmt[1] = "memcpy" /\ CopiesWholeType(stmt[2], stmt[3], stmt[4])
             THEN <<"assign", ForAssign(Unwrap(GetExpr(stmt[2]))),
                              ForAssign(Unwrap(GetExpr(stmt[3])))>>
             ELSE text
  /\ UNCHANGED <<stmt, signed, memory>>

Arrowify ==
  /\ pass = "arrowify" /\ pass' = "end"
  /\ text' = Visited("arrowify", text)
  /\ UNCHANGED <<stmt, signed, memory>>

Stop == pass = "end" /\ UNCHANGED peVars

PEInit ==
  /\ stmt \in Statements /\ memory \in Memories /\ signed \in BOOLEAN
  /\ pass = "createExpressions" /\ text = <<"none">>

PENext == CreateExpressions \/ RefDeref \/ MemcpyToAssignment \/ Arrowify \/ Stop

PESpec == PEInit /\ [][PENext]_peVars

-----------------------------------------------------------------------------
(* What the C statement does *)

RECURSIVE CIndex(_)
CIndex(e) ==
  CASE e[1] = "value" -> e[2]
    [] e[1] = "n" -> IF signed THEN Signed(memory.n, 2) ELSE memory.n
    [] e[1] = "minus" -> 0 - CIndex(e[2])
    [] e[1] = "cast" ->
         CASE e[3] = "int" -> Signed(CIndex(e[2]), 2)
           [] e[3] = "unsigned" -> CIndex(e[2]) % 4
           [] OTHER -> Signed(CIndex(e[2]), 4)    \* an address wraps

RECURSIVE CPlace(_), CValue(_)
CPlace(e) ==
  CASE e[1] = "var" -> Place(e[2], <<>>)
    [] e[1] = "deref" -> CValue(e[2])
    [] e[1] = "gep" -> CPlace(e[2])
    [] e[1] \in {"field", "element"} -> Into(CPlace(e[2]), e[3])
    [] e[1] = "arrow" -> Into(CValue(e[2]), e[3])
    [] e[1] = "shift" -> Shifted(CValue(e[2]), CIndex(e[3]))
    [] OTHER -> Undef

CValue(e) ==
  CASE e[1] = "ref" -> CPlace(e[2])
    [] e[1] = "cast" -> CValue(e[2])
    [] OTHER -> Load(CPlace(e))

\* C assigns values of one type, no arrays.
CMemory ==
  IF text[1] = "memcpy" THEN Copied(CValue(text[2]), CValue(text[3]), text[4])
  ELSE IF ExprType(text[2]) = ExprType(text[3]) /\ ExprType(text[2]) # Arr
       THEN Store(CPlace(text[2]), CValue(text[3])) ELSE Undef

-----------------------------------------------------------------------------
(* Properties *)

RECURSIVE Parts(_)
Parts(e) ==
  {e} \cup CASE e[1] \in {"var", "none"} -> {}
             [] e[1] \in {"assign", "memcpy"} -> Parts(e[2]) \cup Parts(e[3])
             [] OTHER -> Parts(e[2])

\* The text is made of the expressions the writer can write, and every one has
\* a type.
PETypeOK ==
  /\ pass \in {"createExpressions", "refDeref", "memcpyToAssignment", "arrowify", "end"}
  /\ \A e \in Parts(text) :
       CASE e[1] = "none" -> pass = "createExpressions"
         [] e[1] \in {"assign", "memcpy"} -> e = text
         [] e[1] \in {"deref", "shift"} -> IsPtr(ExprType(e[2]))
         [] e[1] = "field" -> ExprType(e[2]) = S
         [] e[1] = "arrow" -> ExprType(e[2]) = Ptr(S)
         [] e[1] = "element" -> ExprType(e[2]) = Arr
         [] OTHER -> e[1] \in {"var", "ref", "gep", "cast"}

\* One walk over an expression leaves nothing for a second one: no *&x, no
\* &*x behind refDeref, no ( *p).f behind arrowify (SimplifyingExprVisitor).
NothingLeftToSimplify ==
  \A e \in Parts(text) \ {text} :
    /\ pass \in {"memcpyToAssignment", "arrowify", "end"} => RefDerefSimplify(e) = e
    /\ pass = "end" => ArrowifySimplify(e) = e

\* The pointers and indices of the statement
RECURSIVE Values(_)
Values(v) == {v} \cup IF v[1] = "alloca" THEN {} ELSE Values(v[2])
Indices == {v[3] : v \in {u \in Values(stmt[2]) \cup Values(stmt[3]) : u[1] = "gep"}}

\* The pass dereferences both pointers of a copied pointer, assigns arrays, and
\* takes a pointer that is itself read through a pointer for what it points to.
CopiesAsMeant ==
  stmt[1] = "memcpy" /\ CopiesWholeType(stmt[2], stmt[3], stmt[4]) =>
    /\ Pointee(LlvmType(StripCast(stmt[2]))) \in {S, Number}
    /\ \A i \in {2, 3} : Unwrap(GetExpr(stmt[i]))[1] # "deref"

\* The narrow index is extended by its C type, the negated one has lost the
\* cast that said how.
IndexKeepsSign(x) ==
  CASE x[1] = "n" -> signed
    [] x = <<"neg", <<"sext">>>> -> signed
    [] x = <<"neg", <<"zext">>>> -> ~signed
    [] OTHER -> TRUE

\* The C statement changes memory as the LLVM statement does, whichever passes
\* have run (parseGepInstruction, refDeref, memcpyToAssignment, arrowify).
TextDoesWhatLlvmDoes ==
  text # <<"none">> /\ LlvmMemory # Undef /\ CopiesAsMeant /\ (\A x \in Indices : IndexKeepsSign(x))
    => CMemory = LlvmMemory
=============================================================================
