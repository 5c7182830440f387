------------------------------ MODULE Variables ------------------------------
(***************************************************************************)
(* The names of a function's C variables and the places of its             *)
(* variable-length arrays.  Names are made when the values are             *)
(* translated and changed once more for the debug information; the         *)
(* declaration of an array is put behind an assignment to its size, which  *)
(* is found by name, in between.                                           *)
(*                                                                         *)
(* A name is a text, a number and what is behind the number: "x", "x2",    *)
(* "var0_phi".  The code of a function is what matters to its arrays:      *)
(* straight-line blocks of assignments to variables, allocas and uses of   *)
(* the arrays.                                                             *)
(***************************************************************************)
EXTENDS Naturals, Sequences, FiniteSets, SequencesExt

CONSTANTS
  Programs,      \* the programs to translate
  NoNumber       \* of a name without one

ASSUME NoNumberAssumption == NoNumber \notin Nat

\* A number has no zeros in front, they belong to the text; the suffix is told
\* apart only behind a number.  Each string is one name.
Names ==
  {nm \in [text : STRING, n : Nat \cup {NoNumber}, suffix : {"", "_phi"}] :
     nm.n = NoNumber => nm.suffix = ""}
Var(n) == [text |-> "var", n |-> n, suffix |-> ""]
Suffix(kind) == IF kind = "phi" THEN "_phi" ELSE ""    \* Func::createPhiVariable
IsVarName(nm) ==                                       \* var[0-9]+
  nm.text = "var" /\ nm.n # NoNumber /\ nm.suffix = ""

\* A number behind another one, behind a zero, behind a suffix.
Continued(nm, n) ==
  LET shift == CHOOSE d \in 1..(10 * n) : n < d /\ \E k \in 1..n : d = 10^k /\ 10^(k - 1) <= n
  IN  CASE nm.suffix # "" ->
             [text |-> nm.text \o ToString(nm.n) \o nm.suffix, n |-> n, suffix |-> ""]
        [] nm.suffix = "" /\ nm.n = 0 -> [nm EXCEPT !.text = @ \o "0", !.n = n]
        [] OTHER -> [nm EXCEPT !.n = shift * @ + n]

\* name + std::to_string(n)
Appended(nm, n) == IF nm.n = NoNumber THEN [nm EXCEPT !.n = n] ELSE Continued(nm, n)

Kinds == {"param", "alloca", "vla", "phi", "temp"}

\* LLVM's functions: the debug intrinsics and the statements are about variables
\* of the function, the size of an array is a parameter or, if it is loaded
\* where the array is allocated, a local variable's; a function ends with a
\* statement.
ASSUME ProgramsAssumption ==
  \A p \in Programs :
    /\ p.globals \subseteq Names /\ IsFiniteSet(p.globals)
    /\ Len(p.funcs) \in Nat \ {0} /\ DOMAIN p.funcs = 1..Len(p.funcs)
    /\ \A g \in DOMAIN p.funcs :
         LET fn == p.funcs[g]
         IN /\ Len(fn.vars) \in Nat /\ DOMAIN fn.vars = 1..Len(fn.vars)
            /\ \A v \in DOMAIN fn.vars :
                 LET var == fn.vars[v]
                 IN /\ var.kind \in Kinds
                    /\ var.kind = "vla" =>
                         /\ var.size \in DOMAIN fn.vars
                         /\ fn.vars[var.size].kind \in
                              IF var.copied THEN {"alloca"} ELSE {"param", "alloca"}
                         /\ \E b \in DOMAIN fn.code : \E i \in DOMAIN fn.code[b] :
                              fn.code[b][i].op # "alloca"
            /\ fn.debug \in Seq([v : DOMAIN fn.vars, name : Names, declare : BOOLEAN])
            /\ fn.code \in Seq(Seq([op : {"alloca", "assign", "use"}, v : DOMAIN fn.vars]))
            /\ fn.isMain \in BOOLEAN

VARIABLES
  prog,       \* [globals: names of global variables, funcs: the functions]; of a
              \* function vars (kind; of an array size and copied), the debug
              \* intrinsics (a variable, its name, declare), code, isMain
  f,          \* the function the pass is working on
  pass,       \* the pass
  taken,      \* Func::metadataVarNames
  varCount,   \* Func::varCount
  names,      \* Value::valueName of the variables translated so far
  counters,   \* Func::variableCounters, 0 for a name without one
  sizeNames,  \* names of the Values made for the sizes of arrays
  text,       \* the expressions of the blocks: assignments, declarations, uses
  crashed     \* an iterator was used after an insertion had invalidated it

vaVars == <<prog, f, pass, taken, varCount, names, counters, sizeNames, text, crashed>>

Funcs == DOMAIN prog.funcs
Fn(g) == prog.funcs[g]
VarsOf(g, kinds) == {v \in DOMAIN Fn(g).vars : Fn(g).vars[v].kind \in kinds}
Arrays == UNION {{<<g, v>> : v \in VarsOf(g, {"vla"})} : g \in Funcs}
SizeOf(a) == Fn(a[1]).vars[a[2]].size

Passes == {"findMetadataFunctionNames", "createFunctionParameters", "createAllocas",
           "createExpressions", "insertVLADecls", "findMetadataVariableNames",
           "fixMainParameters", "end"}

Running(p) == pass = p /\ ~crashed

\* A pass visits the functions one after the other.
NextFunction(next) ==
  IF f < Len(prog.funcs) THEN f' = f + 1 /\ pass' = pass ELSE f' = 1 /\ pass' = next

-----------------------------------------------------------------------------
(* Names *)

\* mutant of FindMetadataFunctionNames
FindLocalNamesOnly ==
  /\ Running("findMetadataFunctionNames")
  /\ taken' = [taken EXCEPT ![f] =
       {nm \in {Fn(f).debug[i].name : i \in
                    {j \in DOMAIN Fn(f).debug : Fn(f).debug[j].declare}} : IsVarName(nm)}]
  /\ NextFunction("createFunctionParameters")
  /\ UNCHANGED <<prog, varCount, names, counters, sizeNames, text, crashed>>

\* The names getVarName has to avoid: global variables, and what is declared
\* by llvm.dbg.declare.
FindMetadataFunctionNames ==
  /\ Running("findMetadataFunctionNames")
  /\ taken' = [taken EXCEPT ![f] =
       {nm \in prog.globals \cup
                {Fn(f).debug[i].name : i \in
                    {j \in DOMAIN Fn(f).debug : Fn(f).debug[j].declare}} : IsVarName(nm)}]
  /\ NextFunction("createFunctionParameters")
  /\ UNCHANGED <<prog, varCount, names, counters, sizeNames, text, crashed>>

\* Func::getVarName, for one variable after the other: the least number from
\* varCount on whose name is not taken.
FreeNumber(from, used) ==
  CHOOSE n \in from..(from + Cardinality(used)) :
    Var(n) \notin used /\ \A m \in from..(n - 1) : Var(m) \in used

GetVarNames(vs) ==
  LET position(v) == Cardinality({w \in vs : w < v})
      count[k \in 0..Cardinality(vs)] ==
        IF k = 0 THEN varCount[f] ELSE FreeNumber(count[k - 1], taken[f]) + 1
  IN  /\ names' = [names EXCEPT ![f] = [v \in DOMAIN @ \cup vs |->
             IF v \in DOMAIN @ THEN @[v]
             ELSE [Var(FreeNumber(count[position(v)], taken[f]))
                     EXCEPT !.suffix = Suffix(Fn(f).vars[v].kind)]]]
      /\ varCount' = [varCount EXCEPT ![f] = count[Cardinality(vs)]]

CreateFunctionParameters ==
  /\ Running("createFunctionParameters")
  /\ GetVarNames(VarsOf(f, {"param"}))
  /\ NextFunction("createAllocas")
  /\ UNCHANGED <<prog, taken, counters, sizeNames, text, crashed>>

\* The type of an array refers to its size, or to a copy of the size's Value
\* if LLVM loads the size where it allocates the array.
CreateAllocas ==
  /\ Running("createAllocas")
  /\ GetVarNames(VarsOf(f, {"alloca", "vla"}))
  /\ sizeNames' = [a \in DOMAIN sizeNames \cup {<<f, v>> : v \in VarsOf(f, {"vla"})} |->
                     IF a[1] = f THEN names'[f][SizeOf(a)] ELSE sizeNames[a]]
  /\ NextFunction("createExpressions")
  /\ UNCHANGED <<prog, taken, counters, text, crashed>>

\* The statements are those of the code; an alloca is none.
Statements(code) ==
  LET kept[n \in 0..Len(code)] ==
        IF n = 0 THEN <<>>
        ELSE IF code[n].op = "alloca" THEN kept[n - 1]
        ELSE Append(kept[n - 1], [op |-> code[n].op, at |-> <<f, code[n].v>>])
  IN  kept[Len(code)]

\* mutant of CreateExpressions
CreateExpressionsOfBlocks ==
  /\ Running("createExpressions")
  /\ GetVarNames(VarsOf(f, {"temp"}))
  /\ text' = [text EXCEPT ![f] = [b \in DOMAIN Fn(f).code |-> Statements(Fn(f).code[b])]]
  /\ NextFunction("insertVLADecls")
  /\ UNCHANGED <<prog, taken, counters, sizeNames, crashed>>

\* Phi nodes and other values that get a variable.
CreateExpressions ==
  /\ Running("createExpressions")
  /\ GetVarNames(VarsOf(f, {"phi", "temp"}))
  /\ text' = [text EXCEPT ![f] = [b \in DOMAIN Fn(f).code |-> Statements(Fn(f).code[b])]]
  /\ NextFunction("insertVLADecls")
  /\ UNCHANGED <<prog, taken, counters, sizeNames, crashed>>

\* mutant of SetMetadataInfo
SetMetadataInfoUncounted(st, d) ==
  LET c == st.counters[d.name]
  IN  [names |-> [st.names EXCEPT ![d.v] = IF c = 0 THEN d.name ELSE Appended(d.name, c + 1)],
       counters |-> st.counters]

\* setMetadataInfo, for one debug intrinsic.
SetMetadataInfo(st, d) ==
  LET c == st.counters[d.name]
  IN  [names |-> [st.names EXCEPT ![d.v] = IF c = 0 THEN d.name ELSE Appended(d.name, c + 1)],
       counters |-> [st.counters EXCEPT ![d.name] = c + 1]]

FindMetadataVariableNames ==
  /\ Running("findMetadataVariableNames")
  /\ LET debug == Fn(f).debug
         st[k \in 0..Len(debug)] ==
           IF k = 0 THEN [names |-> names[f], counters |-> counters[f]]
           ELSE SetMetadataInfo(st[k - 1], debug[k])
     IN  /\ names' = [names EXCEPT ![f] = st[Len(debug)].names]
         /\ counters' = [counters EXCEPT ![f] = st[Len(debug)].counters]
  /\ NextFunction("fixMainParameters")
  /\ UNCHANGED <<prog, taken, varCount, sizeNames, text, crashed>>

Argc == [text |-> "argc", n |-> NoNumber, suffix |-> ""]
Argv == [text |-> "argv", n |-> NoNumber, suffix |-> ""]

FixMainParameters ==
  /\ Running("fixMainParameters")
  /\ names' = [names EXCEPT ![f] = [v \in DOMAIN @ |->
                 IF Fn(f).isMain /\ Fn(f).vars[v].kind = "param" /\ v \in {1, 2}
                 THEN <<Argc, Argv>>[v] ELSE @[v]]]
  /\ NextFunction("end")
  /\ UNCHANGED <<prog, taken, varCount, counters, sizeNames, text, crashed>>

-----------------------------------------------------------------------------
(* insertVLADecls *)

\* mutant of SizeName
SizeNameCopied(a) == sizeNames[a]

\* getSizeVariableName: the name in the size expression now.
SizeName(a) ==
  IF Fn(a[1]).vars[a[2]].copied THEN sizeNames[a] ELSE names[a[1]][SizeOf(a)]

AssignsToVariable(s, nm) == s.op = "assign" /\ names[s.at[1]][s.at[2]] = nm

Declare(a) == [op |-> "declare", at |-> a]

\* mutant of VisitStatement
VisitStatementBefore(st, s) ==
  LET hits == {i \in DOMAIN st.pending : AssignsToVariable(s, SizeName(st.pending[i]))}
  IN  IF hits = {} THEN [st EXCEPT !.block = Append(@, s)]
      ELSE LET i == CHOOSE k \in hits : \A j \in hits : k <= j
           IN  [pending |-> RemoveAt(st.pending, i),
                block |-> st.block \o <<Declare(st.pending[i]), s>>]

VisitStatement(st, s) ==
  LET hits == {i \in DOMAIN st.pending : AssignsToVariable(s, SizeName(st.pending[i]))}
  IN  IF hits = {} THEN [st EXCEPT !.block = Append(@, s)]
      ELSE LET i == CHOOSE k \in hits : \A j \in hits : k <= j
           IN  [pending |-> RemoveAt(st.pending, i),
                block |-> st.block \o <<s, Declare(st.pending[i])>>]

VisitBlock(st, b) ==
  LET statements == st.code[b]
      visit[i \in 0..Len(statements)] ==
        IF i = 0 THEN [pending |-> st.pending, block |-> <<>>]
        ELSE VisitStatement(visit[i - 1], statements[i])
      visited == visit[Len(statements)]
  IN  [pending |-> visited.pending, code |-> [st.code EXCEPT ![b] = visited.block]]

VisitBlocks(blocks, pending) ==
  LET visit[i \in 0..Len(blocks)] ==
        IF i = 0 THEN [pending |-> pending, code |-> text[f]]
        ELSE VisitBlock(visit[i - 1], blocks[i])
  IN  visit[Len(blocks)]

\* What is left is put in front of the first block that is not empty.
Fallback(st, blocks) ==
  LET filled == {i \in DOMAIN blocks : st.code[blocks[i]] # <<>>}
      first == CHOOSE i \in filled : \A j \in filled : i <= j
  IN  IF filled = {} THEN st.code
      ELSE [st.code EXCEPT ![blocks[first]] =
              Reverse([i \in DOMAIN st.pending |-> Declare(st.pending[i])]) \o @]

Orders(S) == {s \in [1..Cardinality(S) -> S] : \A i, j \in DOMAIN s : s[i] = s[j] => i = j}

\* The arrays of all functions are collected again for every function.  They
\* and the blocks are in the order of their addresses.  An insertion into a
\* vector that has to grow invalidates the iterator the loop goes on with.
InsertVLADecls ==
  /\ Running("insertVLADecls")
  /\ \E blocks \in Orders(DOMAIN text[f]), pending \in Orders(Arrays) :
       /\ text' = [text EXCEPT ![f] = Fallback(VisitBlocks(blocks, pending), blocks)]
       /\ crashed' \in IF text'[f] = text[f] THEN {FALSE} ELSE BOOLEAN
  /\ NextFunction("findMetadataVariableNames")
  /\ UNCHANGED <<prog, taken, varCount, names, counters, sizeNames>>

-----------------------------------------------------------------------------
VAInit ==
  /\ prog \in Programs
  /\ f = 1 /\ pass = "findMetadataFunctionNames"
  /\ taken = [g \in Funcs |-> {}]
  /\ varCount = [g \in Funcs |-> 0]
  /\ names = [g \in Funcs |-> <<>>]
  /\ counters = [g \in Funcs |-> [nm \in {Fn(g).debug[i].name : i \in DOMAIN Fn(g).debug} |-> 0]]
  /\ sizeNames = << >>
  /\ text = [g \in Funcs |-> <<>>]
  /\ crashed = FALSE

VANext ==
  \/ FindMetadataFunctionNames \/ CreateFunctionParameters \/ CreateAllocas
  \/ CreateExpressions \/ InsertVLADecls \/ FindMetadataVariableNames \/ FixMainParameters

VASpec == VAInit /\ [][VANext]_vaVars

-----------------------------------------------------------------------------
(* Properties *)

Ended == pass = "end" /\ ~crashed

\* Every variable has one name, every array a size's name, once translated.
VATypeOK ==
  /\ f \in Funcs /\ pass \in Passes
  /\ \A g \in Funcs : /\ DOMAIN names[g] \subseteq DOMAIN Fn(g).vars
                      /\ (\A nm \in taken[g] : IsVarName(nm)) /\ varCount[g] \in Nat
  /\ DOMAIN sizeNames \subseteq Arrays
  /\ Ended => /\ \A g \in Funcs : DOMAIN names[g] = DOMAIN Fn(g).vars
              /\ DOMAIN sizeNames = Arrays

\* The debug names of a function cannot meet a name that is made from another
\* one: none has a number, at its end or in front of "_phi", or is "var", except
\* for a declared "var7" that is used once; the locals of main are not called
\* argc and argv.
PlainDebugNames(g) ==
  \A i \in DOMAIN Fn(g).debug :
    LET d == Fn(g).debug[i]
    IN  \/ /\ d.name.n = NoNumber /\ d.name.text # "var"
           /\ Fn(g).isMain => d.name \notin {Argc, Argv}
        \/ /\ IsVarName(d.name) /\ d.declare
           /\ \A j \in DOMAIN Fn(g).debug : Fn(g).debug[j].name = d.name => j = i

\* Then no two variables of a function are declared with the same name.
NamesDistinct ==
  Ended => \A g \in Funcs :
    PlainDebugNames(g) =>
      \A v, w \in DOMAIN names[g] : names[g][v] = names[g][w] => v = w

\* The variables of a function that keep the name made for them.
KeepsMadeName(g, v) ==
  (\A i \in DOMAIN Fn(g).debug : Fn(g).debug[i].v # v) /\ ~Fn(g).isMain

\* Such a variable hides no global variable, which the function may use, unless
\* the global's name is like var0_phi: createPhiVariable puts its suffix behind a
\* name that was checked without it.
MadeNamesHideNoGlobal ==
  Ended => \A g \in Funcs : \A v \in DOMAIN names[g] :
    KeepsMadeName(g, v) => names[g][v] \notin {nm \in prog.globals : nm.suffix = ""}

\* Where a statement stands: blocks, and places in them.
PositionsIn(code, s) ==
  UNION {{b} \X {i \in DOMAIN code[b] : code[b][i] = s} : b \in DOMAIN code}

Earlier(p, q) == p[1] < q[1] \/ (p[1] = q[1] /\ p[2] < q[2])

\* The size is a local variable that is assigned once, before the uses of the
\* array, and is no other array's size.
SizedOnce(a) ==
  LET P(op, v) == PositionsIn(Fn(a[1]).code, [op |-> op, v |-> v])
  IN  /\ Fn(a[1]).vars[SizeOf(a)].kind = "alloca"
      /\ \A c \in Arrays : SizeOf(c) = SizeOf(a) => c = a
      /\ Cardinality(P("assign", SizeOf(a))) = 1
      /\ \A p \in P("assign", SizeOf(a)), q \in P("use", a[2]) : Earlier(p, q)

\* In a program of one function the declaration of every array is printed
\* once, however the blocks and the arrays are ordered in memory, and that of
\* such an array is after the assignment to its size and before its uses.
ArraysDeclaredInTime ==
  Ended /\ Len(prog.funcs) = 1 =>
    \A a \in Arrays :
      LET P(s) == PositionsIn(text[a[1]], s)
      IN /\ Cardinality(P(Declare(a))) = 1
         /\ SizedOnce(a) =>
              \A p \in P(Declare(a)) :
                /\ \A q \in P([op |-> "assign", at |-> <<a[1], SizeOf(a)>>]) : Earlier(q, p)
                /\ \A q \in P([op |-> "use", at |-> a]) : Earlier(p, q)

\* The declaration names the variable its size is in, if LLVM does not load
\* the size directly or the variable has no debug name.
SizeNamesCurrent ==
  Ended => \A a \in Arrays :
    (Fn(a[1]).vars[a[2]].copied => \A i \in DOMAIN Fn(a[1]).debug :
                                      Fn(a[1]).debug[i].v # SizeOf(a)) =>
      SizeName(a) = names[a[1]][SizeOf(a)]
===============================================================================
