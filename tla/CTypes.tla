-------------------------------- MODULE CTypes --------------------------------
(***************************************************************************)
(* C types for LLVM types.  An LLVM type is a term,                        *)
(*                                                                         *)
(*   <<"int">>  <<"struct", name>>  <<"union", name>>  <<"literal", items>> *)
(*   <<"array", type>>  <<"pointer", type>>  <<"function", params, return>> *)
(*                                                                         *)
(* where "function" is a pointer to a function, and "union" the struct     *)
(* LLVM has for a union of the program.  LLVM makes each type              *)
(* once, so the term is its identity.  The size of an array is left out:   *)
(* what counts is whether it is printed at all.  The types of the debug    *)
(* information are the same terms with "debug function" for "function",    *)
(* <<"unsigned">> and, for an array without a size, <<"vla", type>>.       *)
(***************************************************************************)
EXTENDS Naturals, Sequences, SequencesExt

CONSTANTS
  Types,     \* the types of the programs, each with the types it is made of
  Depth      \* how deep the terms are

Is(t, kind) == t[1] = kind
IsStruct(t) == t[1] \in {"struct", "union", "literal"}
IsFunction(t) == t[1] \in {"function", "debug function"}

\* A type is made of types that are less deep; a named struct of nothing.
ASSUME TypesAssumption ==
  /\ Depth \in [Types -> Nat]
  /\ \A t \in Types :
       CASE t[1] \in {"array", "vla", "pointer"} ->
              t = <<t[1], t[2]>> /\ t[2] \in Types /\ Depth[t[2]] < Depth[t]
         [] Is(t, "literal") ->
              t[2] \in Seq(Types) /\ \A p \in Range(t[2]) : Depth[p] < Depth[t]
         [] IsFunction(t) ->
              /\ t = <<t[1], t[2], t[3]>> /\ t[2] \in Seq(Types) /\ t[3] \in Types
              /\ \A p \in Range(t[2]) \cup {t[3]} : Depth[p] < Depth[t]
         [] OTHER -> t[1] \in {"int", "unsigned", "struct", "union"}

\* The structs without a name and the typedefs of function pointers that
\* TypeHandler::getType makes on its way, as if nothing had been made before.
\* A named struct is found in Program::structs and ends the recursion.
GetType[t \in Types] ==
  CASE t[1] \in {"array", "pointer"} -> GetType[t[2]]
    [] Is(t, "literal") -> FlattenSeq([i \in DOMAIN t[2] |-> GetType[t[2][i]]]) \o <<t>>
    [] Is(t, "function") ->
         FlattenSeq([i \in DOMAIN t[2] |-> GetType[t[2][i]]]) \o GetType[t[3]] \o <<t>>
    [] OTHER -> <<>>

\* The function pointers whose names are in a type's text.
FunctionsIn[t \in Types] ==
  CASE t[1] \in {"array", "vla", "pointer"} -> FunctionsIn[t[2]]
    [] IsFunction(t) -> {t}
    [] OTHER -> {}

\* The function pointers a type is made of.
FunctionTypes[t \in Types] ==
  CASE t[1] \in {"array", "vla", "pointer"} -> FunctionTypes[t[2]]
    [] Is(t, "literal") -> UNION {FunctionTypes[p] : p \in Range(t[2])}
    [] IsFunction(t) -> {t} \cup UNION {FunctionTypes[p] : p \in Range(t[2]) \cup {t[3]}}
    [] OTHER -> {}

Reached(types) == FlattenSeq([i \in DOMAIN types |-> GetType[types[i]]])

\* The structs that C wants complete where a variable or member of the type is
\* declared: it has no arrays of incomplete types, not even behind a pointer.
CompleteIn[t \in Types] ==
  CASE IsStruct(t) -> {t}
    [] t[1] \in {"array", "vla"} -> CompleteIn[t[2]]
    [] Is(t, "pointer") /\ ~IsStruct(t[2]) -> CompleteIn[t[2]]
    [] OTHER -> {}

\* The types LLVM has, and those of the debug information.
IsLlvm[t \in Types] ==
  CASE t[1] \in {"array", "pointer"} -> IsLlvm[t[2]]
    [] Is(t, "literal") -> \A p \in Range(t[2]) : IsLlvm[p]
    [] Is(t, "function") -> \A p \in Range(t[2]) \cup {t[3]} : IsLlvm[p]
    [] OTHER -> t[1] \in {"int", "struct", "union"}
IsDebug[t \in Types] ==
  CASE t[1] \in {"array", "vla", "pointer"} -> IsDebug[t[2]]
    [] Is(t, "debug function") -> \A p \in Range(t[2]) \cup {t[3]} : IsDebug[p]
    [] OTHER -> t[1] \in {"int", "unsigned", "struct", "union"}

-----------------------------------------------------------------------------
(* What the constructors of ArrayType and PointerType work out *)

None == <<"none">>

\* ArrayType::isStructArray and structName
StructArray[t \in Types] ==
  IF ~Is(t, "array") THEN None
  ELSE IF IsStruct(t[2]) THEN t[2] ELSE StructArray[t[2]]

\* ArrayType::isPointerArray and pointer
PointerArray[t \in Types] ==
  IF ~Is(t, "array") THEN None
  ELSE IF Is(t[2], "pointer") THEN t[2] ELSE PointerArray[t[2]]

IsArrayPointer[t \in Types] ==
  Is(t, "pointer") /\ (Is(t[2], "array") \/ IsArrayPointer[t[2]])

\* PointerType::isStructPointer and structName
StructPointer[t \in Types] ==
  CASE ~Is(t, "pointer") -> None
    [] Is(t, "pointer") /\ Is(t[2], "array") -> StructArray[t[2]]
    [] Is(t, "pointer") /\ IsStruct(t[2]) -> t[2]
    [] OTHER -> StructPointer[t[2]]

Levels[t \in Types] == IF Is(t, "pointer") THEN Levels[t[2]] + 1 ELSE 0

-----------------------------------------------------------------------------
(* The text of a declaration *)

\* ArrayType::sizeToString: the number of sizes printed
Sizes[t \in Types] == IF Is(t, "array") THEN 1 + Sizes[t[2]] ELSE 0

\* toString: the type a declaration starts with and its stars
TypeText[t \in Types] ==
  CASE Is(t, "array") -> TypeText[t[2]]
    [] Is(t, "pointer") /\ (IsArrayPointer[t] \/ IsFunction(t[2])) -> TypeText[t[2]]
    [] Is(t, "pointer") /\ ~(IsArrayPointer[t] \/ IsFunction(t[2])) ->
         [TypeText[t[2]] EXCEPT !.stars = @ + 1]
    [] OTHER -> [base |-> t, stars |-> 0]

\* mutant of SurroundArrayName
SurroundArrayNameOnce(t) ==
  [levels |-> IF PointerArray[t] # None /\ IsArrayPointer[PointerArray[t]]
              THEN Levels[PointerArray[t]] ELSE 0,
   inside |-> 1, behind |-> 0]

\* ArrayType::surroundName: (**name[n]) or name[n]
SurroundArrayName(t) ==
  [levels |-> IF PointerArray[t] # None /\ IsArrayPointer[PointerArray[t]]
              THEN Levels[PointerArray[t]] ELSE 0,
   inside |-> Sizes[t], behind |-> 0]

\* PointerType::surroundName: (**name)[n], the sizes only where the pointer
\* itself points to an array
SurroundPointerName(t) ==
  [levels |-> Levels[t], inside |-> 0, behind |-> Sizes[t[2]]]

SurroundName(t) ==
  CASE Is(t, "array") -> SurroundArrayName(t)
    [] Is(t, "pointer") /\ IsArrayPointer[t] -> SurroundPointerName(t)
    [] OTHER -> [levels |-> 0, inside |-> 0, behind |-> 0]

-----------------------------------------------------------------------------
(* How C reads the declaration *)

Wrapped(kind, n, t) ==
  LET w[k \in 0..n] == IF k = 0 THEN t ELSE <<kind, w[k - 1]>>
  IN w[n]

\* base **( **name [inside] )[behind]
Declared(t) ==
  LET s == SurroundName(t)
  IN Wrapped("array", s.inside,
       Wrapped("pointer", s.levels,
         Wrapped("array", s.behind,
           Wrapped("pointer", TypeText[t].stars, TypeText[t].base))))

\* The structs that must be complete where the declaration stands: C has no
\* arrays of incomplete structs, not even behind a pointer.
NeedsComplete(t) ==
  LET s == SurroundName(t)
  IN IF IsStruct(TypeText[t].base) /\ TypeText[t].stars = 0 /\ (s.levels = 0 \/ s.behind > 0)
     THEN {TypeText[t].base} ELSE {}

\* The types whose declarations say what they should: a pointer to a pointer
\* to an array or to a function, and an array of pointers to arrays, lose a
\* part of the type.
SaysItAll[t \in Types] ==
  CASE Is(t, "array") ->
         SaysItAll[t[2]] /\ (PointerArray[t] = None \/ ~IsArrayPointer[PointerArray[t]])
    [] Is(t, "pointer") ->
         SaysItAll[t[2]] /\ ~IsFunction(t[2]) /\ (IsArrayPointer[t] => Is(t[2], "array"))
    [] OTHER -> TRUE
=============================================================================
