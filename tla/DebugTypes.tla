------------------------------- MODULE DebugTypes -------------------------------
(***************************************************************************)
(* parseMetadataTypes: the types a program's variables, functions and      *)
(* struct members have in its source replace those made from LLVM's.       *)
(* fixType makes them, recursively along the pointers, arrays, functions   *)
(* and structs of the debug information, which may lead back to where they *)
(* started; what is made is remembered in two caches.                      *)
(*                                                                         *)
(* A union has one member here, the largest, which is the one fixType      *)
(* looks at.  Names, qualifiers and typedefs, which it passes through, are *)
(* left out, and so are unions and structs without a name.                 *)
(***************************************************************************)
EXTENDS Declarations

\* LLVM's type for a type of the debug information.
Llvm[t \in Types] ==
  CASE Is(t, "unsigned") -> <<"int">>
    [] Is(t, "pointer") -> <<"pointer", Llvm[t[2]]>>
    [] t[1] \in {"array", "vla"} -> <<"array", Llvm[t[2]]>>
    [] IsFunction(t) -> <<"function", [i \in DOMAIN t[2] |-> Llvm[t[2][i]]], Llvm[t[3]]>>
    [] OTHER -> t

\* mutant of Parts
PartsWithoutParameters(t) ==
  IF t = Loop THEN roots
  ELSE CASE t[1] \in {"struct", "union"} -> mod.debugItems[t]
         [] t[1] \in {"pointer", "array", "vla"} -> <<t[2]>>
         [] Is(t, "debug function") -> <<t[3]>>
         [] OTHER -> <<>>

\* What fixType calls itself for; a function's return type comes first.
Parts(t) ==
  IF t = Loop THEN roots
  ELSE CASE t[1] \in {"struct", "union"} -> mod.debugItems[t]
         [] t[1] \in {"pointer", "array", "vla"} -> <<t[2]>>
         [] Is(t, "debug function") -> <<t[3]>> \o t[2]
         [] OTHER -> <<>>

\* Type::getKind
Kind(t) ==
  CASE IsFunction(t) -> "function" [] Is(t, "unsigned") -> "int"
    [] IsStruct(t) -> "struct" [] OTHER -> t[1]

\* fixType gives no type for a struct it does not find or that has another
\* number of members in LLVM, for a union whose member is of another kind there,
\* for an array without a size, and for what is made of one of these.
Fixable[t \in Types] ==
  /\ ~Is(t, "vla") /\ (IsStruct(t) => t \in DOMAIN mod.debugItems)
  /\ Is(t, "struct") => Len(Parts(t)) = Len(items[t])
  /\ Is(t, "union") => Kind(Parts(t)[1]) = Kind(mod.items[t][1])
  /\ ~Is(t, "struct") => \A p \in Range(Parts(t)) : Fixable[p]

\* fixType returns at once.  For a union it never does.
Known(t) ==
  \/ t \in Range(diTypes) \cup visited
  \/ IsStruct(t) /\ t \notin DOMAIN mod.debugItems
  \/ Is(t, "struct") /\ ~Fixable[t]
  \/ ~IsStruct(t) /\ Parts(t) = <<>>

\* The type of a struct's member, or of the union's, becomes t, if there is
\* such a type.
SetMember(s, i, t) ==
  items' = IF (s \in visited \/ (s # Loop /\ Is(s, "union") /\ Fixable[s])) /\ Fixable[t]
           THEN [items EXCEPT ![s][i] = t] ELSE items

\* mutant of Make
MakeAgain(t) ==
  IF ~Fixable[t] \/ IsStruct(t) THEN UNCHANGED <<diTypes, pass>>
  ELSE /\ diTypes' = Append(diTypes, t)
       /\ pass' \in IF Is(t, "debug function") /\ Len(DebugTypedefs) >= Len(typeDefs)
                    THEN {pass, "crash"} ELSE {pass}

\* A type is put into ditypeCache, if it is not there by now; an array in any
\* case.  A function pointer's place in sortedTypeDefs may be behind its end:
\* the write fails, or the typedef is lost.
Make(t) ==
  IF ~Fixable[t] \/ IsStruct(t) \/ (t \in Range(diTypes) /\ ~Is(t, "array"))
  THEN UNCHANGED <<diTypes, pass>>
  ELSE /\ diTypes' = Append(diTypes, t)
       /\ pass' \in IF Is(t, "debug function") /\ Len(DebugTypedefs) >= Len(typeDefs)
                    THEN {pass, "crash"} ELSE {pass}

StartDebugTypes ==
  /\ pass = "parseMetadataTypes" /\ stack = <<>>
  /\ roots' = mod.debug /\ stack' = <<Call(Loop)>>
  /\ UNCHANGED <<mod, useIncludes, diTypes, pass, collected, visited, written>>

\* A call of fixType looks at its next part, calls fixType for it, or returns.
FixType ==
  /\ pass = "parseMetadataTypes" /\ stack # <<>>
  /\ LET t == Last(stack).node
         i == Last(stack).i
         failed == t # Loop /\ ~IsStruct(t) /\ \E j \in 1..(i - 1) : ~Fixable[Parts(t)[j]]
         more == i <= Len(Parts(t)) /\ ~failed
     IN \/ /\ more /\ Known(Parts(t)[i])
           /\ Advance /\ SetMember(t, i, Parts(t)[i])
           /\ UNCHANGED <<visited, diTypes, pass>>
        \/ /\ more /\ ~Known(Parts(t)[i])
           /\ Push(Parts(t)[i])
           /\ visited' = visited \cup {s \in {Parts(t)[i]} : Is(s, "struct")}
           /\ UNCHANGED <<items, diTypes, pass>>
        \/ /\ ~more /\ t # Loop
           /\ LET caller == stack[Len(stack) - 1] IN SetMember(caller.node, caller.i - 1, t)
           /\ Make(t) /\ Return /\ UNCHANGED visited
        \/ /\ ~more /\ t = Loop
           /\ Return /\ visited' = {} /\ pass' = "includes"
           /\ UNCHANGED <<items, diTypes>>
  /\ UNCHANGED <<mod, useIncludes, headers, structs, unnamedStructs, typeDefs, functions,
                 globalVars, values, intrinsics, roots, written>>

DTNext == DENext \/ StartDebugTypes \/ FixType

DTSpec == DEInit /\ [][DTNext]_deVars

-----------------------------------------------------------------------------
(* Properties *)

\* A type once made for a node of the debug information is not made again,
\* whatever was made while it was being made: other types refer to the first.
\* (An array may be: fixType does not look whether it is there by now.)
TypesStay ==
  \A j, k \in DOMAIN diTypes : diTypes[j] = diTypes[k] => j = k \/ Is(diTypes[j], "array")

\* The types whose text names function pointers.
Uses ==
  Range(mod.uses) \cup {t \in Range(mod.debug) : Fixable[t]}
    \cup UNION {Range(items[s]) : s \in DOMAIN items} \cup UNION {Range(s[2]) : s \in unnamedStructs}
    \cup UNION {Range(f[2]) \cup {f[3]} : f \in Range(SortedTypeDefs)}

\* Every name of a function pointer is that of a typedef with its own type.
TypedefsMeanTheirTypes ==
  /\ pass # "crash"
  /\ pass = "end" =>
       \A f \in UNION {FunctionsIn[t] : t \in Uses} :
         Number(f) \in DOMAIN typeDefs /\ Llvm[SortedTypeDefs[Number(f)]] = Llvm[f]

LlvmFunctionTypes ==
  UNION {FunctionTypes[t] :
           t \in Range(mod.uses) \cup UNION {Range(mod.items[s]) : s \in Range(mod.structs)}}
DebugFunctionTypes ==
  UNION {FunctionTypes[t] :
           t \in Range(mod.debug) \cup UNION {Range(mod.debugItems[s]) : s \in DOMAIN mod.debugItems}}

\* LLVM's function pointer types are each made of the others, and the debug
\* information has no two types for one of them.
FunctionTypesNest ==
  /\ \A f, g \in LlvmFunctionTypes : f \in FunctionTypes[g] \/ g \in FunctionTypes[f]
  /\ \A f, g \in DebugFunctionTypes : Llvm[f] = Llvm[g] => f = g
  /\ \A f \in DebugFunctionTypes : Llvm[f] \in LlvmFunctionTypes

\* Then it is so: both number them from the inside out, through whatever cycle
\* of structs fixType comes upon one.
NestedTypedefsMeanTheirTypes == FunctionTypesNest => TypedefsMeanTheirTypes
=============================================================================
