----------------------------- MODULE Declarations -----------------------------
(***************************************************************************)
(* The types, global variables and functions of a program: the passes that *)
(* collect them and the order in which the writer declares and defines     *)
(* them.  C wants everything before its use.                               *)
(*                                                                         *)
(* The two recursions of the code, over the members of structs and over    *)
(* the initializers of global variables, are stacks of calls <<node, i>>,  *)
(* i the next thing the call looks at.                                     *)
(***************************************************************************)
EXTENDS CTypes, FiniteSets

CONSTANTS
  Inputs,     \* the LLVM modules to translate, each with --add-includes or without
  Loop        \* the loop over the roots, as the outermost call

-----------------------------------------------------------------------------
(* Function names: some of every list *)

C_MATH == {"floor", "minnum"}
C_FUNCTIONS == C_MATH \cup {"memcpy", "va_start"}
Lists == [stdlib |-> {"malloc"}, string |-> {"memcpy", "strlen"}, stdio |-> {"printf"},
          pthread |-> {"pthread_create"}, math |-> C_MATH]

\* trimPrefix: the word behind "llvm."
TrimPrefix(n) ==
  CASE n = "llvm.memcpy.i64" -> "memcpy" [] n = "llvm.floor.f64" -> "floor"
    [] n = "llvm.minnum.f64" -> "minnum" [] n = "llvm.va_start" -> "va_start"
    [] n = "llvm.uadd.with.overflow.i32" -> "uadd" [] n = "llvm.bswap.i32" -> "bswap"
    [] n = "llvm.dbg.value" -> "dbg" [] OTHER -> ""

\* Names of LLVM's functions that are no C functions have their dots replaced.
Underscored(n) ==
  CASE n = "llvm.uadd.with.overflow.i32" -> "llvm_uadd_with_overflow_i32"
    [] n = "llvm.bswap.i32" -> "llvm_bswap_i32" [] OTHER -> n

Overflows == {"llvm.uadd.with.overflow.i32"}
DebugFunctions == {"llvm.dbg.value"}

-----------------------------------------------------------------------------
(* The modules of LLVM *)

\* The structs of a module that have no name.
Literals(m) ==
  {t \in Range(Reached(m.uses)) \cup UNION {Range(Reached(m.items[s])) : s \in Range(m.structs)} :
     Is(t, "literal")}

\* The types the members of a struct have in LLVM and in the debug information.
MembersOf(m, s) ==
  IF Is(s, "literal") THEN Range(s[2])
  ELSE Range(m.items[s]) \cup IF s \in DOMAIN m.debugItems THEN Range(m.debugItems[s]) ELSE {}

\* A name of the program's own, and none of C's library or of LLVM.
OwnName(n) ==
  /\ TrimPrefix(n) = "" /\ n \notin {Underscored(o) : o \in Overflows}
  /\ n \notin C_FUNCTIONS \cup {"isnan"} \cup UNION {Lists[h] : h \in DOMAIN Lists}

VaListTag == <<"struct", "__va_list_tag">>

\* The globals of a module differ, and their initializers refer to globals
\* of the module; so do its structs and their members.  No struct contains
\* itself, and no union leads to itself but by way of a struct.  A module
\* calls and defines functions of its own; it has no function with the name of
\* one that is defined in the text, and none that is a macro in C.
ModuleOK(m) ==
  LET globals == Range(m.globals)
      all == Range(m.structs) \cup Literals(m)
  IN /\ Loop \notin globals /\ Loop \notin Types
     /\ m.globals \in Seq(globals) /\ IsInjective(m.globals)
     /\ m.initializer \in [globals -> Seq(globals)]
     /\ m.structs \in Seq({t \in Types : t[1] \in {"struct", "union"}}) /\ IsInjective(m.structs)
     /\ Range(m.structs) \subseteq DOMAIN m.items
     /\ m.items \in [DOMAIN m.items -> Seq({t \in Types : IsLlvm[t]})]
     /\ m.uses \in Seq({t \in Types : IsLlvm[t]})
     /\ m.debug \in Seq({t \in Types : IsDebug[t]})
     /\ m.debugItems \in [DOMAIN m.debugItems -> Seq({t \in Types : IsDebug[t]})]
     /\ \A s \in all : \A t \in MembersOf(m, s) : \A c \in CompleteIn[t] :
          Is(c, "literal") \/ c \in Range(m.structs)
     /\ \A S \in SUBSET all : S # {} =>
          \E s \in S : \A t \in MembersOf(m, s) : CompleteIn[t] \cap S = {}
     /\ DOMAIN m.debugItems \subseteq Range(m.structs)
     /\ \A u \in DOMAIN m.debugItems : Is(u, "union") =>
          /\ Len(m.debugItems[u]) = 1
          /\ \A t \in Range(m.debugItems[u]) : Depth[t] < Depth[u]
     /\ IsFiniteSet(m.functions) /\ m.defined \cup m.calls \subseteq m.functions
     /\ m.functions \cap {"__isnan", "minnum", "va_start"} = {} /\ \A n \in m.defined : OwnName(n)
     /\ "llvm.va_start" \in m.calls => VaListTag \in Range(m.structs)

ASSUME InputsAssumption == \A in \in Inputs : ModuleOK(in.mod) /\ in.includes \in BOOLEAN

VARIABLES
  mod,         \* the module: structs (in the order of its types), items, uses (types of
               \* functions and globals), globals, initializer, functions, defined, calls,
               \* overflow (calls of overflow functions that are found), compares (it
               \* compares floating-point numbers), debug (the debug types of variables
               \* and functions, as parseMetadataTypes meets them), debugItems (those of
               \* the structs' members)
  useIncludes, \* the flag --add-includes
  pass,        \* the pass, or what the writer writes next
  headers,     \* Program::hasStdLib, hasString, ...
  structs, unnamedStructs, typeDefs,
  items,       \* the members of the structs
  functions,   \* Program::functions: from LLVM's name to C's name
  globalVars,  \* Program::globalVars
  values,      \* GlobalValue::value of those that have one: the globals it refers to
  intrinsics,  \* Program::intrinsicsNeedingDefinitions
  diTypes,     \* what is put into TypeHandler::ditypeCache, in this order
  roots,       \* what the outermost loop of the recursion goes through
  visited,     \* computeTopo's set of globals, TypeHandler::StructTypeDiCache,
               \* structDefinition's set of printed structs
  stack,       \* the calls of computeTopo, of fixType, of structDefinition
  written      \* what is written in each section of the text

collected == <<headers, structs, unnamedStructs, typeDefs, items, functions, globalVars,
               values, intrinsics>>
Sections == {"include", "struct declaration", "typedef", "struct", "function declaration",
             "global", "function"}

deVars == <<mod, useIncludes, pass, collected, diTypes, roots, visited, stack, written>>

-----------------------------------------------------------------------------
(* The passes *)

\* The name determineIncludes looks up in its lists.
ListedName(n) == IF TrimPrefix(n) \in C_FUNCTIONS THEN TrimPrefix(n) ELSE n

\* mutant of DetermineIncludes
DetermineIncludesByFullName ==
  /\ pass = "determineIncludes" /\ pass' = "parseStructDeclarations"
  /\ headers' = {h \in DOMAIN Lists : mod.functions \cap Lists[h] # {}}
  /\ UNCHANGED <<mod, useIncludes, diTypes, structs, unnamedStructs, typeDefs, items, functions,
                 globalVars, values, intrinsics, roots, visited, stack, written>>

DetermineIncludes ==
  /\ pass = "determineIncludes" /\ pass' = "parseStructDeclarations"
  /\ headers' = {h \in DOMAIN Lists : \E n \in mod.functions : ListedName(n) \in Lists[h]}
  /\ UNCHANGED <<mod, useIncludes, diTypes, structs, unnamedStructs, typeDefs, items, functions,
                 globalVars, values, intrinsics, roots, visited, stack, written>>

\* initVarargStruct gives __va_list_tag the members it has in LLVM.
ParseStructDeclarations ==
  /\ pass = "parseStructDeclarations" /\ pass' = "parseStructItems"
  /\ structs' = mod.structs
  /\ headers' = headers \cup IF VaListTag \in Range(mod.structs) THEN {"stdarg"} ELSE {}
  /\ items' = [s \in Range(mod.structs) |-> IF s = VaListTag THEN mod.items[s] ELSE <<>>]
  /\ UNCHANGED <<mod, useIncludes, diTypes, unnamedStructs, typeDefs, functions, globalVars, values,
                 intrinsics, roots, visited, stack, written>>

\* A typedef for each function pointer of a sequence that has none yet.
WithTypeDefs(types) ==
  LET defs[n \in 0..Len(types)] ==
        IF n = 0 THEN typeDefs
        ELSE IF Is(types[n], "function") /\ types[n] \notin Range(defs[n - 1])
        THEN Append(defs[n - 1], types[n])
        ELSE defs[n - 1]
  IN defs[Len(types)]

\* mutant of MakeTypes
MakeTypesUnnamed(types) ==
  /\ typeDefs' = WithTypeDefs(Reached(types))
  /\ UNCHANGED unnamedStructs

\* The types and what getType makes on the way.
MakeTypes(types) ==
  /\ typeDefs' = WithTypeDefs(Reached(types))
  /\ unnamedStructs' = unnamedStructs \cup {t \in Range(Reached(types)) : Is(t, "literal")}

\* The members are added to those a struct has by now.
ParseStructItems ==
  /\ pass = "parseStructItems" /\ pass' = "findDeclaredFunctions"
  /\ items' = [s \in Range(structs) |-> items[s] \o mod.items[s]]
  /\ MakeTypes(FlattenSeq([i \in DOMAIN structs |-> mod.items[structs[i]]]))
  /\ UNCHANGED <<mod, useIncludes, diTypes, headers, structs, functions, globalVars, values,
                 intrinsics, roots, visited, stack, written>>

\* All but the debug functions and isnan, with the types of the module's
\* functions and globals.
FindDeclaredFunctions ==
  /\ pass = "findDeclaredFunctions" /\ pass' = "computeGlobalVarsOrder"
  /\ functions' = [n \in mod.functions \ (DebugFunctions \cup {"isnan"}) |-> n]
  /\ MakeTypes(mod.uses)
  /\ UNCHANGED <<mod, useIncludes, diTypes, headers, structs, items, globalVars, values, intrinsics,
                 roots, visited, stack, written>>

-----------------------------------------------------------------------------
(* The recursions *)

Call(n) == [node |-> n, i |-> 1]
Push(n) == stack' = Append([stack EXCEPT ![Len(stack)].i = @ + 1], Call(n))
Advance == stack' = [stack EXCEPT ![Len(stack)].i = @ + 1]
Return == stack' = Front(stack)

Operands(g) == IF g = Loop THEN roots ELSE mod.initializer[g]

StartGlobals ==
  /\ pass = "computeGlobalVarsOrder" /\ stack = <<>>
  /\ roots' = mod.globals /\ stack' = <<Call(Loop)>>
  /\ UNCHANGED <<mod, useIncludes, diTypes, pass, collected, visited, written>>

\* mutant of ComputeTopo: the initializers are not looked into
ComputeTopoShallow ==
  /\ pass = "computeGlobalVarsOrder" /\ stack # <<>>
  /\ LET g == Last(stack).node
         i == Last(stack).i
     IN IF i <= Len(Operands(g))
        THEN IF g = Loop THEN Push(Operands(g)[i]) /\ UNCHANGED <<globalVars, pass>>
             ELSE Advance /\ UNCHANGED <<globalVars, pass>>
        ELSE /\ Return
             /\ globalVars' = IF g = Loop THEN globalVars ELSE Append(globalVars, g)
             /\ pass' = IF g = Loop THEN "nameFunctions" ELSE pass
  /\ visited' = {}
  /\ UNCHANGED <<mod, useIncludes, diTypes, headers, structs, unnamedStructs, typeDefs, items,
                 functions, values, intrinsics, roots, written>>

\* computeTopo: a global is visited once, and follows the globals its
\* initializer refers to; parseGlobalVar keeps the order.
ComputeTopo ==
  /\ pass = "computeGlobalVarsOrder" /\ stack # <<>>
  /\ LET g == Last(stack).node
         i == Last(stack).i
     IN \/ /\ i <= Len(Operands(g)) /\ Operands(g)[i] \notin visited
           /\ visited' = visited \cup {Operands(g)[i]} /\ Push(Operands(g)[i])
           /\ UNCHANGED <<globalVars, pass>>
        \/ /\ i <= Len(Operands(g)) /\ Operands(g)[i] \in visited
           /\ Advance /\ UNCHANGED <<visited, globalVars, pass>>
        \/ /\ i > Len(Operands(g)) /\ g # Loop
           /\ globalVars' = Append(globalVars, g) /\ Return
           /\ UNCHANGED <<visited, pass>>
        \/ /\ i > Len(Operands(g)) /\ g = Loop
           /\ visited' = {} /\ Return /\ pass' = "nameFunctions"
           /\ UNCHANGED globalVars
  /\ UNCHANGED <<mod, useIncludes, diTypes, headers, structs, unnamedStructs, typeDefs, items,
                 functions, values, intrinsics, roots, written>>

-----------------------------------------------------------------------------
(* The passes behind it *)

\* createFunctions and nameFunctions
NameFunctions ==
  /\ pass = "nameFunctions" /\ pass' = "initializeGlobalVars"
  /\ functions' = [n \in DOMAIN functions |-> Underscored(ListedName(n))]
  /\ UNCHANGED <<mod, useIncludes, diTypes, headers, structs, unnamedStructs, typeDefs, items,
                 globalVars, values, intrinsics, roots, visited, stack, written>>

\* createConstants and initializeGlobalVars: what a value refers to is a
\* global that has an expression by now.
InitializeGlobalVars ==
  /\ pass = "initializeGlobalVars" /\ pass' = "createExpressions"
  /\ values' = [g \in {h \in Range(mod.globals) : mod.initializer[h] # <<>>} |->
                  Range(mod.initializer[g]) \cap Range(globalVars)]
  /\ UNCHANGED <<mod, useIncludes, diTypes, headers, structs, unnamedStructs, typeDefs, items,
                 functions, globalVars, intrinsics, roots, visited, stack, written>>

\* What the calls leave for the writer.
CreateExpressions ==
  /\ pass = "createExpressions"
  /\ pass' = IF mod.debug = <<>> THEN "includes" ELSE "parseMetadataTypes"
  /\ intrinsics' = mod.calls \cap Overflows
  /\ headers' = headers \cup IF mod.compares THEN {"math"} ELSE {}
  /\ UNCHANGED <<mod, useIncludes, diTypes, structs, unnamedStructs, typeDefs, items, functions,
                 globalVars, values, roots, visited, stack, written>>

-----------------------------------------------------------------------------
(* The writer *)

Write(section, whats, next) ==
  /\ written' = [written EXCEPT ![section] = @ \o whats] /\ pass' = next
  /\ UNCHANGED <<mod, useIncludes, diTypes, collected, roots, visited, stack>>

WriteIncludes ==
  /\ pass = "includes"
  /\ IF useIncludes THEN Write("include", SetToSeq(headers), "structDeclarations")
     ELSE Write("function", IF "math" \in headers THEN <<"__isnan">> ELSE <<>>,
                "structDeclarations")

WriteStructDeclarations ==
  /\ pass = "structDeclarations"
  /\ Write("struct declaration", structs \o SetToSeq(unnamedStructs), "typedefs")

\* The function pointers of the debug information count their names from the
\* first one again, and take the places LLVM's have in sortedTypeDefs.
DebugTypedefs ==
  LET D[n \in 0..Len(diTypes)] ==
        IF n = 0 THEN <<>>
        ELSE IF Is(diTypes[n], "debug function") THEN Append(D[n - 1], diTypes[n])
        ELSE D[n - 1]
  IN D[Len(diTypes)]
SortedTypeDefs ==
  [n \in DOMAIN typeDefs |->
     IF n \in DOMAIN DebugTypedefs THEN DebugTypedefs[n] ELSE typeDefs[n]]

\* The number in the name of a function pointer.
Number(f) == SelectInSeq(IF Is(f, "function") THEN typeDefs ELSE DebugTypedefs, LAMBDA t : t = f)

WriteTypedefs ==
  /\ pass = "typedefs"
  /\ Write("typedef", [n \in DOMAIN typeDefs |-> <<n, SortedTypeDefs[n]>>],
           "structDefinitions")

Members(s) ==
  IF s = Loop THEN roots ELSE IF s \in DOMAIN items THEN items[s] ELSE s[2]

\* mutant of ContainedStruct: every pointer to a struct is followed
PointedStruct(t) ==
  CASE Is(t, "array") -> StructArray[t]
    [] Is(t, "pointer") -> StructPointer[t]
    [] IsStruct(t) -> t
    [] OTHER -> None

\* mutant of ContainedStruct: pointers to arrays are not followed
ValueStruct(t) ==
  CASE Is(t, "array") -> StructArray[t]
    [] IsStruct(t) -> t
    [] OTHER -> None

\* The struct that has to be defined before one with a member of the type.
ContainedStruct(t) ==
  CASE Is(t, "array") -> StructArray[t]
    [] Is(t, "pointer") /\ IsArrayPointer[t] -> StructPointer[t]
    [] IsStruct(t) -> t
    [] OTHER -> None

StartStructs ==
  /\ pass = "structDefinitions" /\ stack = <<>>
  /\ \E order \in SetToSeqs(unnamedStructs) : roots' = structs \o order
  /\ stack' = <<Call(Loop)>>
  /\ UNCHANGED <<mod, useIncludes, diTypes, pass, collected, visited, written>>

\* mutant of StructDefinition
StructDefinitionOfMembersTwice ==
  /\ pass = "structDefinitions" /\ stack # <<>>
  /\ LET s == Last(stack).node
         i == Last(stack).i
     IN \/ /\ i <= Len(Members(s))
           /\ LET c == ContainedStruct(Members(s)[i])
              IN IF c = None THEN Advance ELSE Push(c)
           /\ UNCHANGED <<visited, written, pass>>
        \/ /\ i > Len(Members(s)) /\ s # Loop
           /\ written' = [written EXCEPT !["struct"] = Append(@, s)]
           /\ Return /\ UNCHANGED <<visited, pass>>
        \/ /\ i > Len(Members(s)) /\ s = Loop
           /\ visited' = {} /\ Return /\ pass' = "functionDeclarations"
           /\ UNCHANGED written
  /\ UNCHANGED <<mod, useIncludes, diTypes, collected, roots>>

\* structDefinition: first the structs the members contain, whether or not
\* this one is printed already.
StructDefinition ==
  /\ pass = "structDefinitions" /\ stack # <<>>
  /\ LET s == Last(stack).node
         i == Last(stack).i
     IN \/ /\ i <= Len(Members(s))
           /\ LET c == ContainedStruct(Members(s)[i])
              IN IF c = None THEN Advance ELSE Push(c)
           /\ UNCHANGED <<visited, written, pass>>
        \/ /\ i > Len(Members(s)) /\ s # Loop
           /\ IF s \in visited THEN UNCHANGED <<visited, written>>
              ELSE /\ visited' = visited \cup {s}
                   /\ written' = [written EXCEPT !["struct"] = Append(@, s)]
           /\ Return /\ UNCHANGED pass
        \/ /\ i > Len(Members(s)) /\ s = Loop
           /\ visited' = {} /\ Return /\ pass' = "functionDeclarations"
           /\ UNCHANGED written
  /\ UNCHANGED <<mod, useIncludes, diTypes, collected, roots>>

IsFunctionPrinted(name) ==
  /\ name \notin C_FUNCTIONS
  /\ useIncludes => name \notin UNION {Lists[h] : h \in DOMAIN Lists}

Printed(ns) == {n \in ns \cap DOMAIN functions : IsFunctionPrinted(functions[n])}
Names(ns) == {functions[n] : n \in ns}

WriteFunctionDeclarations ==
  /\ pass = "functionDeclarations"
  /\ Write("function declaration",
           SetToSeq(Names(Printed(DOMAIN functions) \ intrinsics)), "intrinsics")

\* An overflow function is defined when the struct it returns is found at a
\* call of it.
WriteIntrinsicDefinitions ==
  /\ pass = "intrinsics"
  /\ Write("function", SetToSeq(Names(intrinsics \cap mod.overflow)), "globals")

\* Without the streams that stdio.h declares.
DefinedGlobals ==
  LET D[n \in 0..Len(globalVars)] ==
        IF n = 0 THEN <<>>
        ELSE IF useIncludes /\ globalVars[n] = "stdout" THEN D[n - 1]
        ELSE Append(D[n - 1], globalVars[n])
  IN D[Len(globalVars)]

WriteGlobalVarDefinitions ==
  /\ pass = "globals"
  /\ Write("global", DefinedGlobals, "functions")

WriteFunctionDefinitions ==
  /\ pass = "functions"
  /\ Write("function", SetToSeq(Names(Printed(mod.defined))), "end")

Stop == pass \in {"end", "crash"} /\ UNCHANGED deVars

DEInit ==
  /\ \E in \in Inputs : mod = in.mod /\ useIncludes = in.includes
  /\ pass = "determineIncludes"
  /\ headers = {} /\ structs = <<>> /\ unnamedStructs = {} /\ typeDefs = <<>>
  /\ items = [s \in {} |-> <<>>] /\ functions = [n \in {} |-> n]
  /\ globalVars = <<>> /\ values = [g \in {} |-> {}] /\ intrinsics = {} /\ diTypes = <<>>
  /\ roots = <<>> /\ visited = {} /\ stack = <<>>
  /\ written = [section \in Sections |-> <<>>]

DENext ==
  \/ DetermineIncludes \/ ParseStructDeclarations \/ ParseStructItems
  \/ FindDeclaredFunctions \/ StartGlobals \/ ComputeTopo \/ NameFunctions
  \/ InitializeGlobalVars \/ CreateExpressions
  \/ WriteIncludes \/ WriteStructDeclarations \/ WriteTypedefs
  \/ StartStructs \/ StructDefinition
  \/ WriteFunctionDeclarations \/ WriteIntrinsicDefinitions
  \/ WriteGlobalVarDefinitions \/ WriteFunctionDefinitions
  \/ Stop

-----------------------------------------------------------------------------
(* Properties *)

Defines(section) == Range(written[section])
Before(k, section, what) == \E j \in 1..(k - 1) : written[section][j] = what

\* Every variable has its type: the calls of a recursion are for globals or
\* structs of the program, and only while its pass runs.
DETypeOK ==
  /\ headers \subseteq DOMAIN Lists \cup {"stdarg"}
  /\ Range(structs) \cup unnamedStructs \cup Range(typeDefs) \subseteq Types
  /\ \A s \in DOMAIN items : Range(items[s]) \subseteq Types
  /\ Range(globalVars) \cup DOMAIN values \subseteq Range(mod.globals)
  /\ DOMAIN functions \subseteq mod.functions
  /\ Range(diTypes) \subseteq Types
  /\ stack # <<>> =>
       pass \in {"computeGlobalVarsOrder", "parseMetadataTypes", "structDefinitions", "crash"}
  /\ \A c \in Range(stack) :
       CASE pass = "computeGlobalVarsOrder" ->
              c.node \in Range(mod.globals) \cup {Loop} /\ c.i \in 1..(1 + Len(Operands(c.node)))
         [] pass = "structDefinitions" ->
              /\ c.node \in Range(structs) \cup unnamedStructs \cup {Loop}
              /\ c.i \in 1..(1 + Len(Members(c.node)))
         [] OTHER -> c.node \in Types \cup {Loop}

\* Every global is defined, once, but for the streams stdio.h declares
\* (computeGlobalVarsOrder).
GlobalsDefinedOnce ==
  /\ IsInjective(written["global"])
  /\ pass = "end" => Defines("global") \cup {"stdout"} = Range(mod.globals) \cup {"stdout"}

\* Nothing is written twice; at the end every struct, typedef, global and
\* function body of the module is there (Writer::writeProgram).
DefinedOnce ==
  /\ \A section \in Sections : IsInjective(written[section])
  /\ pass = "end" =>
       /\ Defines("struct") = Range(mod.structs) \cup unnamedStructs
       /\ {d[1] : d \in Defines("typedef")} = DOMAIN typeDefs
       /\ Range(typeDefs) =
            {t \in Range(Reached(mod.uses))
                    \cup UNION {Range(Reached(mod.items[s])) : s \in Range(mod.structs)} :
               Is(t, "function")}
       /\ Names(mod.defined) \subseteq Defines("function")
  /\ GlobalsDefinedOnce

\* A struct is defined, and a typedef is, behind everything its declaration
\* needs (structDefinition, TypeHandler::getType, getFnctnPtrType), but for
\* typedefs that are not written at all.
DefinedBeforeNeeded ==
  /\ \A k \in DOMAIN written["struct"] : \A t \in Range(Members(written["struct"][k])) :
       SaysItAll[t] => \A s \in NeedsComplete(t) : Before(k, "struct", s)
  /\ \A k \in DOMAIN written["typedef"] :
       LET d == written["typedef"][k]
       IN \A t \in Range(d[2][2]) \cup {d[2][3]} : \A f \in FunctionsIn[t] :
            Number(f) \in DOMAIN typeDefs =>
              \E j \in 1..(k - 1) : written["typedef"][j][1] = Number(f)

\* The declaration of a member has the member's type, but for the kinds of
\* types that lose a level or a size (toString and surroundName).
MembersKeepTheirTypes ==
  \A s \in Defines("struct") : \A t \in Range(Members(s)) : SaysItAll[t] => Declared(t) = t

\* structDefinition and computeTopo never start for a node, and fixType never
\* for a struct, whose call has not returned.  fixType comes back to another
\* type only by way of a struct, so the recursion ends.
NoCallWithinItself ==
  \A j, k \in DOMAIN stack :
    j < k /\ stack[j].node = stack[k].node =>
      /\ pass \in {"parseMetadataTypes", "crash"} /\ ~Is(stack[j].node, "struct")
      /\ \E i \in j..k : Is(stack[i].node, "struct")

\* g's initializer leads to h
LeadsTo(g, h) ==
  \A seen \in SUBSET Range(mod.globals) :
    g \in seen /\ (\A x \in seen : Range(mod.initializer[x]) \subseteq seen) => h \in seen

\* A global's initializer refers to globals that are defined above it, or to
\* one whose own initializer leads back to it (computeTopo).
GlobalsInOrder ==
  \A k \in DOMAIN written["global"] :
    LET x == written["global"][k]
    IN x \in DOMAIN values =>
         \A g \in values[x] :
           LeadsTo(g, x) \/ Before(k, "global", g) \/ (g = "stdout" /\ useIncludes)

\* What the C headers declare, and what a C compiler knows without them.
Header == [stdlib |-> {"malloc"}, string |-> {"memcpy", "strlen"}, stdio |-> {"printf"},
           pthread |-> {"pthread_create"}, math |-> {"floor", "__isnan"},
           stdarg |-> {"va_start"}]
Builtins == {"memcpy", "floor", "isnan"}

\* The names in the text of the calls.  minnum is no C function, va_start and
\* isnan are declared in one of the modes only, an overflow function needs a
\* call the writer finds.
CalledNames ==
  LET unknown == {"llvm.minnum.f64", "llvm.dbg.value"} \cup (Overflows \ mod.overflow)
                   \cup {IF useIncludes THEN "isnan" ELSE "llvm.va_start"}
  IN {Underscored(ListedName(n)) : n \in mod.calls \ unknown}
       \cup (IF mod.compares THEN {"__isnan"} ELSE {})

\* A called function is declared by the text or by a header the text
\* includes, and not by both (determineIncludes, isFunctionPrinted).
CallsDeclared ==
  pass = "end" =>
    LET included == UNION {Header[h] : h \in Defines("include")}
        printed == Defines("function declaration") \cup Defines("function")
    IN /\ CalledNames \subseteq included \cup printed \cup (IF useIncludes THEN {} ELSE Builtins)
       /\ included \cap printed = {}
=============================================================================
