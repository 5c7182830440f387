---------------------------- MODULE IntegerExprs ----------------------------
(***************************************************************************)
(* What llvm2c makes of LLVM's integer instructions.  createExpressions    *)
(* gives each instruction a C expression; parseMetadataTypes gives source  *)
(* variables the types of the debug information; propagateTypes carries    *)
(* types up the expressions, addSignCasts inserts casts so that operators  *)
(* see operands of their signedness, deleteRedundantCasts drops casts.     *)
(* LLVM's integers have no sign and wrap at their width; C's operands are  *)
(* promoted, signed or unsigned, and wrap or not.  Only the right casts    *)
(* in the right places make the text mean what the instruction means.      *)
(*                                                                         *)
(* A Value (LLVM) is a position in "insts".  Expressions are the nodes of  *)
(* a graph, created in order; an operand is a node under a chain of casts, *)
(* the outermost first (CastExpr changes no other field of its operand).   *)
(***************************************************************************)
EXTENDS CIntegers, Sequences, SequencesExt, FiniteSets

CONSTANTS
  Leaves,      \* sets of parameters and constants a program may start with
  MaxInsts     \* bound on the number of instructions

VARIABLES
  insts,       \* the LLVM instructions so far, parameters and constants first
  exprMap,     \* Program::exprMap: an operand for each of them
  nodes,       \* the expressions that are not casts
  temps,       \* variables made by inlineOrCreateVariable: node and initialiser
  used,        \* instructions that are an operand of a later one
  root,        \* the operand of the statement that uses the result
  place,       \* where that statement stands
  pass         \* the pass that ran last

ieVars == <<insts, exprMap, nodes, temps, used, root, place, pass>>

Places == {"assign", "if", "do", "switch"}
Passes == <<"create", "metadata", "propagate", "sign", "redundant">>

(***************************************************************************)
(* Expressions.                                                            *)
(***************************************************************************)
Operand(n) == [n |-> n, casts |-> <<>>]
Cast(t, e) == [e EXCEPT !.casts = <<t>> \o @]
TypeOfIn(ns, e) == IF e.casts = <<>> THEN ns[e.n].t ELSE Head(e.casts)
TypeOf(e) == TypeOfIn(nodes, e)

\* t: type, u: isUnsigned of the operators that have it, v: name of a literal
\* or the comparison, args: operands.
Node(op, t, u, v, args) == [op |-> op, t |-> t, u |-> u, v |-> v, args |-> args]
Literal(v, t) == Node("lit", t, FALSE, v, <<>>)

\* BinaryExpr: TypeHandler::getBinaryType takes the left operand's type.
Binary(op, u, a, b) == Node(op, TypeOf(a), u, 0, <<a, b>>)
Compares(cc, u, a, b) == Node("cmp", GetType("bool"), u, cc, <<a, b>>)

\* SelectExpr: the type of its first alternative.
Selects(t, c, a, b) == Node("select", t, FALSE, 0, <<c, a, b>>)

IsLiteral(e, v) ==
  /\ nodes[e.n].op = "lit"       \* removeCastsFromExpr looks below the casts
  /\ nodes[e.n].v = v

Top == Len(nodes)

(***************************************************************************)
(* createExpressions.  A leaf is a parameter of kind k, of which the debug *)
(* information says whether it is signed ("dbg": none, signed, unsigned),  *)
(* or a constant, printed as a signed number (getSExtValue).               *)
(***************************************************************************)
IsLeaf(i) == insts[i].op \in {"param", "const"}

LeafNode(l) ==
  IF l.op = "param" THEN Node("var", GetType(l.k), FALSE, 0, <<>>)
  ELSE IF l.k = "bool" THEN Literal(l.v, GetType("bool"))
  ELSE LET v == Signed(l.v, l.k)
       IN  Literal(v, IF v < 0 THEN SetSigned(GetType(l.k)) ELSE GetType(l.k))

\* An inlined value is one object with one user; a variable or a literal has
\* any number of them.
Shareable(i) == IsLeaf(i) \/ nodes[exprMap[i].n].op \in {"var", "lit"}
MayUse(i) == Shareable(i) \/ i \notin used

(***************************************************************************)
(* inlineOrCreateVariable: the value becomes the expression itself or a    *)
(* new variable of the expression's type, assigned once.                   *)
(***************************************************************************)
CreateVariable(ns, e) == Append(ns, Node("var", TypeOfIn(ns, e), FALSE, 0, <<>>))

\* mutant of VariableOf
VariableOfLast(ns) == Operand(Len(ns))

VariableOf(ns) == Operand(Len(ns) + 1)

InlineOrCreateVariable(inst, new, e) ==
  /\ \E j \in DOMAIN inst.args : insts[inst.args[j]].op # "const"   \* LLVM folds
  /\ insts' = Append(insts, inst)
  /\ used' = used \cup {inst.args[j] : j \in DOMAIN inst.args}
  /\ \/ /\ nodes' = nodes \o new
        /\ exprMap' = Append(exprMap, e)
        /\ UNCHANGED temps
     \/ /\ nodes' = CreateVariable(nodes \o new, e)
        /\ exprMap' = Append(exprMap, VariableOf(nodes \o new))
        /\ temps' = Append(temps, [n |-> VariableOf(nodes \o new).n, e |-> e])
  /\ UNCHANGED <<root, place, pass>>

CanParse == pass = "create" /\ root.n = 0 /\ Cardinality(
              {i \in DOMAIN insts : ~IsLeaf(i)}) < MaxInsts

Inst(op, k, args, nsw, v) == [op |-> op, k |-> k, args |-> args, nsw |-> nsw, v |-> v]

Ints(k) == {i \in DOMAIN insts : insts[i].k = k /\ MayUse(i)}
Pairs(k) == {p \in Ints(k) \X Ints(k) : p[1] # p[2] \/ Shareable(p[1])}

CastBoth(t, a, b) == <<Cast(t, a), Cast(t, b)>>

ParseBinaryInstruction(op, nsw, k, i, j) ==
  LET a == exprMap[i]  b == exprMap[j]
      signed == nsw \/ op \in {"sdiv", "srem"}
      x == IF signed THEN Cast(SetSigned(TypeOf(a)), a) ELSE a
      y == IF signed THEN Cast(SetSigned(TypeOf(b)), b) ELSE b
      One(n) == insts[n].op = "const" /\ insts[n].v = 1
      new == CASE op \in {"add", "sub", "mul"} -> Binary(op, ~nsw, x, y)
               [] op \in {"udiv", "sdiv"} -> Binary("div", op = "udiv", x, y)
               [] op \in {"urem", "srem"} -> Binary("rem", op = "urem", x, y)
               [] op = "xor" /\ k = "bool" /\ One(i) ->
                    Node("not", TypeOf(b), FALSE, 0, <<b>>)
               [] op = "xor" /\ k = "bool" /\ ~One(i) /\ One(j) ->
                    Node("not", TypeOf(a), FALSE, 0, <<a>>)
               [] OTHER -> Binary(op, FALSE, x, y)
  IN  /\ <<i, j>> \in Pairs(k)
      /\ InlineOrCreateVariable(Inst(op, k, <<i, j>>, nsw, 0), <<new>>, Operand(Top + 1))

\* The literal for the sign bit's position is 63 whatever the operand's width.
Sign63 == Bits["long"] - 1

ParseShiftInstruction(op, nsw, k, i, j) ==
  LET a == exprMap[i]  b == exprMap[j]
      x == IF nsw THEN Cast(SetSigned(TypeOf(a)), a) ELSE a
      y == IF nsw THEN Cast(SetSigned(TypeOf(b)), b) ELSE b
      core == TypeOf(Operand(b.n))
      new ==
        CASE op = "shl" /\ IsLiteral(b, 1) ->
               <<Literal(2, core), Binary("mul", ~nsw, x, Operand(Top + 1))>>
          [] op = "shl" /\ ~IsLiteral(b, 1) ->
               <<Binary("shl", ~nsw, x, Cast(SetUnsigned(TypeOf(y)), y))>>
          [] op = "lshr" /\ IsLiteral(b, Sign63) ->
               <<Literal(0, core), Compares("<", FALSE, b, Operand(Top + 1))>>
          [] op = "lshr" /\ ~IsLiteral(b, Sign63) -> <<Binary("lshr", FALSE, a, b)>>
          [] op = "ashr" -> <<Binary("ashr", FALSE, a, Cast(SetUnsigned(TypeOf(b)), b))>>
  IN  /\ <<i, j>> \in Pairs(k) /\ (nsw => op = "shl")
      /\ InlineOrCreateVariable(Inst(op, k, <<i, j>>, nsw, 0), new,
                                Operand(Top + Len(new)))

\* isIntegerCompareUnsigned: equality counts as unsigned.
ParseICmpInstruction(cc, unsigned, k, i, j) ==
  /\ <<i, j>> \in Pairs(k)
  /\ cc \in {"==", "!="} => unsigned
  /\ InlineOrCreateVariable(Inst("icmp", "bool", <<i, j>>, unsigned, cc),
                            <<Compares(cc, unsigned, exprMap[i], exprMap[j])>>,
                            Operand(Top + 1))

SignExtended(to, from, e) == Cast(SetSigned(to), Cast(SetSigned(from), e))

\* mutant of ZeroExtended
ZeroExtendedAsSigned(to, from, e) == Cast(SetSigned(to), Cast(SetSigned(from), e))

ZeroExtended(to, from, e) == Cast(SetUnsigned(to), Cast(SetUnsigned(from), e))

ParseCastInstruction(op, k, i) ==
  LET e == exprMap[i]
      from == GetType(insts[i].k)
      to == GetType(k)
      widens == Rank[insts[i].k] < Rank[k]
  IN  /\ MayUse(i)
      /\ IF op = "trunc" THEN Rank[k] < Rank[insts[i].k] ELSE widens
      /\ IF op = "sext" /\ insts[i].k = "bool"
         THEN InlineOrCreateVariable(Inst(op, k, <<i>>, FALSE, 0),
                <<Literal(0, to), Literal(-1, to),
                  Selects(to, e, Operand(Top + 2), Operand(Top + 1))>>,
                Operand(Top + 3))
         ELSE InlineOrCreateVariable(Inst(op, k, <<i>>, FALSE, 0), <<>>,
                CASE op = "sext"  -> SignExtended(to, from, e)
                  [] op = "zext"  -> ZeroExtended(to, from, e)
                  [] op = "trunc" -> Cast(to, e))

ParseSelectInstruction(k, c, i, j) ==
  /\ insts[c].k = "bool" /\ MayUse(c)
  /\ <<i, j>> \in Pairs(k) /\ Cardinality({c, i, j}) = 3
  /\ InlineOrCreateVariable(Inst("select", k, <<c, i, j>>, FALSE, 0),
       <<Selects(TypeOf(exprMap[i]), exprMap[c], exprMap[i], exprMap[j])>>,
       Operand(Top + 1))

\* The intrinsics llvm.abs, llvm.smin and its relatives (parseCallInstruction);
\* their operands become operands several times over.
ParseAbs(k, i) ==
  LET a == exprMap[i]
  IN  /\ insts[i].k = k /\ MayUse(i)
      /\ InlineOrCreateVariable(Inst("abs", k, <<i>>, FALSE, 0),
           <<Literal(0, GetType(k)), Compares("<", FALSE, a, Operand(Top + 1)),
             Node("minus", TypeOf(a), FALSE, 0, <<a>>),
             Selects(TypeOf(a), Operand(Top + 2), Operand(Top + 3), a)>>,
           Operand(Top + 4))

ParseMinMax(cc, unsigned, k, i, j) ==
  /\ cc \in {"<", ">"} /\ <<i, j>> \in Pairs(k)
  /\ InlineOrCreateVariable(Inst("minmax", k, <<i, j>>, unsigned, cc),
       <<Compares(cc, unsigned, exprMap[i], exprMap[j]),
         Selects(TypeOf(exprMap[i]), Operand(Top + 1), exprMap[i], exprMap[j])>>,
       Operand(Top + 2))

(***************************************************************************)
(* The last instruction's value goes to a statement of its block (a store, *)
(* a return), to the condition of an if or of the do-while a rotated loop  *)
(* became, or to a switch.                                                 *)
(***************************************************************************)
Use(p) ==
  /\ pass = "create" /\ root.n = 0 /\ ~IsLeaf(Len(insts))
  /\ \A i \in DOMAIN insts : IsLeaf(i) \/ i = Len(insts) \/ i \in used
  /\ p \in {"if", "do"} => insts[Len(insts)].k = "bool"
  /\ p = "switch" => insts[Len(insts)].k # "bool"
  /\ root' = exprMap[Len(insts)]
  /\ place' = p
  /\ UNCHANGED <<insts, exprMap, nodes, temps, used, pass>>

After(p, q) ==
  /\ root.n # 0 /\ pass = p /\ pass' = q
  /\ UNCHANGED <<insts, exprMap, used, place>>

\* mutant of ParseMetadataTypes
ParseNoMetadataTypes == After("create", "metadata") /\ UNCHANGED <<nodes, temps, root>>

\* parseMetadataTypes: variables of the source get their declared types.
ParseMetadataTypes ==
  /\ After("create", "metadata")
  /\ nodes' = [n \in DOMAIN nodes |->
                 IF n \in DOMAIN insts /\ insts[n].op = "param" /\ insts[n].dbg = "signed"
                 THEN [nodes[n] EXCEPT !.t = SetSigned(@)]
                 ELSE nodes[n]]
  /\ UNCHANGED <<temps, root>>

(***************************************************************************)
(* propagateTypes, children first.  A variable llvm2c made takes the type  *)
(* of its initialiser; casts, literals and comparisons keep theirs.        *)
(***************************************************************************)
Retyped ==
  LET temp(n) == CHOOSE d \in Range(temps) : d.n = n
      R[n \in 0..Top] ==
        IF n = 0 THEN <<>>
        ELSE LET ns == R[n-1]
                 x == nodes[n]
                 T(j) == TypeOfIn(ns, x.args[j])
             IN  Append(ns,
                   CASE x.op \in {"add", "sub", "mul", "div", "rem"} ->
                          [x EXCEPT !.t = T(1), !.u = T(1).u]
                     [] x.op \in {"and", "or", "xor", "shl", "lshr", "ashr",
                                  "not", "minus"} -> [x EXCEPT !.t = T(1)]
                     [] x.op = "select" ->
                          [x EXCEPT !.t = IF T(2).u THEN T(3) ELSE T(2)]
                     [] x.op = "var" /\ \E d \in Range(temps) : d.n = n ->
                          [x EXCEPT !.t = TypeOfIn(ns, temp(n).e)]
                     [] OTHER -> x)
  IN  R[Top]

PropagateTypes ==
  /\ After("metadata", "propagate")
  /\ nodes' = Retyped
  /\ UNCHANGED <<temps, root>>

(***************************************************************************)
(* addSignCasts.  SignCastsVisitor does not look below the operators whose *)
(* visit it inherits, nor at the condition of a do-while.                  *)
(***************************************************************************)
Opaque == {"lshr", "ashr", "not", "minus", "var", "lit"}
SignedOps == {"add", "sub", "mul", "div", "rem", "cmp", "shl"}

Visited ==
  LET roots == {d.e.n : d \in Range(temps)}
                 \cup (IF place = "do" THEN {} ELSE {root.n})
      V[n \in 1..Top+1] ==
        IF n = Top + 1 THEN roots
        ELSE LET above == V[n+1]
             IN  IF n \in above /\ nodes[n].op \notin Opaque
                 THEN above \cup {nodes[n].args[j].n : j \in DOMAIN nodes[n].args}
                 ELSE above
  IN  V[1]

CastIfNeeded(e, u) ==
  IF TypeOf(e).u # u THEN Cast(ToggleSignedness(TypeOf(e)), e) ELSE e

AddSignCasts ==
  /\ After("propagate", "sign")
  /\ nodes' = [n \in DOMAIN nodes |->
                 IF n \in Visited /\ nodes[n].op \in SignedOps
                 THEN [nodes[n] EXCEPT !.args =
                         [j \in DOMAIN @ |-> CastIfNeeded(@[j], nodes[n].u)]]
                 ELSE nodes[n]]
  /\ UNCHANGED <<temps, root>>

(***************************************************************************)
(* deleteRedundantCasts: RedundantCastsVisitor::simplify on every operand, *)
(* innermost casts first, then on the comparison itself.                   *)
(***************************************************************************)
SimplifyCasts(e) ==
  LET boolean == nodes[e.n].op \in {"cmp", "not"} \/ nodes[e.n].t.k = "bool"
      S[m \in 0..Len(e.casts)] ==      \* the m innermost casts
        IF m = 0 THEN <<>>
        ELSE LET c == e.casts[Len(e.casts) + 1 - m]
                 r == IF S[m-1] # <<>> /\ Head(S[m-1]) = c THEN Tail(S[m-1]) ELSE S[m-1]
             IN  IF IF r = <<>> THEN boolean ELSE Head(r).k = "bool"
                 THEN r ELSE <<c>> \o r
  IN  [e EXCEPT !.casts = S[Len(e.casts)]]

\* mutant of SimplifyCompare
SimplifyAnyCompare(x) ==
  IF \A j \in 1..2 : x.args[j].casts # <<>>
  THEN [x EXCEPT !.args = [j \in 1..2 |-> [@[j] EXCEPT !.casts = Tail(@)]]]
  ELSE x

SimplifyCompare(x) ==
  LET a == x.args[1]  b == x.args[2]
      Below(e) == [e EXCEPT !.casts = Tail(@)]
      from == TypeOf(Below(a))
  IN  IF /\ a.casts # <<>> /\ b.casts # <<>> /\ TypeOf(a) = TypeOf(b)
         /\ \/ x.v \in {"==", "!="}
            \/ x.u /\ from.u /\ TypeOf(a).u /\ TypeOf(Below(b)) = from
      THEN [x EXCEPT !.args = <<Below(a), Below(b)>>]
      ELSE x

DeleteRedundantCasts ==
  /\ After("sign", "redundant")
  /\ nodes' = [n \in DOMAIN nodes |->
                 LET x == [nodes[n] EXCEPT !.args =
                             [j \in DOMAIN @ |-> SimplifyCasts(@[j])]]
                 IN  IF x.op = "cmp" THEN SimplifyCompare(x) ELSE x]
  /\ temps' = [d \in DOMAIN temps |-> [temps[d] EXCEPT !.e = SimplifyCasts(@)]]
  /\ root' = SimplifyCasts(root)

----------------------------------------------------------------------------
IEInit ==
  /\ insts \in Leaves
  /\ exprMap = [i \in DOMAIN insts |-> Operand(i)]
  /\ nodes = [i \in DOMAIN insts |-> LeafNode(insts[i])]
  /\ temps = <<>> /\ used = {}
  /\ root = Operand(0) /\ place = "none" /\ pass = "create"

IntKinds == {"char", "int", "long"}
BinaryOps == {"add", "sub", "mul", "udiv", "sdiv", "urem", "srem", "and", "or", "xor"}

ParseInstruction == CanParse /\ (
  \/ \E k \in Kinds, i, j \in DOMAIN insts, nsw \in BOOLEAN :
       \/ \E op \in BinaryOps :
            /\ k = "bool" => op \in {"and", "or", "xor"}
            /\ nsw => op \in {"add", "sub", "mul"}
            /\ ParseBinaryInstruction(op, nsw, k, i, j)
       \/ \E op \in {"shl", "lshr", "ashr"} :
            k # "bool" /\ ParseShiftInstruction(op, nsw, k, i, j)
  \/ \E k \in Kinds, i, j \in DOMAIN insts, u \in BOOLEAN :
       \/ \E cc \in {"==", "!=", "<", ">"} :
            k # "bool" /\ ParseICmpInstruction(cc, u, k, i, j)
       \/ \E cc \in {"<", ">"} : k # "bool" /\ ParseMinMax(cc, u, k, i, j)
  \/ \E k \in Kinds, i \in DOMAIN insts :
       \/ \E op \in {"sext", "zext", "trunc"} : ParseCastInstruction(op, k, i)
       \/ k # "bool" /\ ParseAbs(k, i)
       \/ \E c, j \in DOMAIN insts : k # "bool" /\ ParseSelectInstruction(k, c, i, j))

RunPass ==
  ParseMetadataTypes \/ PropagateTypes \/ AddSignCasts \/ DeleteRedundantCasts

IENext == ParseInstruction \/ (\E p \in Places : Use(p)) \/ RunPass

IESpec == IEInit /\ [][IENext]_ieVars

(***************************************************************************)
(* The meaning of both programs for an environment that gives the bits of  *)
(* every parameter.                                                        *)
(***************************************************************************)
Samples(k) == {0, 1, Modulus(k) \div 2, Modulus(k) - 1}    \* bound on its values
Params == {i \in DOMAIN insts : insts[i].op = "param"}
Envs == {env \in [Params -> UNION {Samples(k) : k \in Kinds}] :
           \A i \in Params : env[i] \in Samples(insts[i].k)}

LlvmValues(env) ==
  LET L[n \in 0..Len(insts)] ==
        IF n = 0 THEN <<>>
        ELSE LET vs == L[n-1]
                 x == insts[n]
                 A(j) == vs[x.args[j]].v
                 from == insts[x.args[1]].k
                 clean == \A j \in DOMAIN x.args : vs[x.args[j]].ok
                 r == CASE x.op \in BinaryOps -> LArith(x.op, x.nsw, x.k, A(1), A(2))
                        [] x.op \in {"shl", "lshr", "ashr"} ->
                             LShift(x.op, x.nsw, x.k, A(1), A(2))
                        [] x.op = "icmp" ->
                             [v |-> LCompare(x.v, x.nsw, from, A(1), A(2)), ok |-> TRUE]
                        [] x.op = "minmax" ->
                             [v |-> IF LCompare(x.v, x.nsw, x.k, A(1), A(2)) = 1
                                    THEN A(1) ELSE A(2), ok |-> TRUE]
                        [] x.op = "select" ->
                             [v |-> IF A(1) = 1 THEN A(2) ELSE A(3), ok |-> TRUE]
                        [] x.op = "abs" ->
                             LET s == Signed(A(1), x.k)
                             IN  [v |-> IF s < 0 THEN -s ELSE s,
                                  ok |-> s # MinOf([k |-> x.k, u |-> FALSE])]
                        [] x.op = "sext" ->
                             [v |-> (IF from = "bool" THEN -A(1) ELSE Signed(A(1), from))
                                      % Modulus(x.k), ok |-> TRUE]
                        [] OTHER -> [v |-> A(1) % Modulus(x.k), ok |-> TRUE]
             IN  Append(vs, IF x.op = "param" THEN [v |-> env[n], ok |-> TRUE]
                            ELSE IF x.op = "const" THEN [v |-> x.v, ok |-> TRUE]
                            ELSE [r EXCEPT !.ok = @ /\ clean])
  IN  L[Len(insts)]

CastAll(casts, x) == FoldRight(CCast, casts, x)

\* The C type of a literal is not the one llvm2c keeps for it.
LiteralValue(v) == Val(IF v \in MinOf(SInt)..MaxOf(SInt) THEN SInt
                       ELSE [k |-> "long", u |-> FALSE], v)

CValues(ns, ts, env) ==
  LET C[n \in 0..Len(ns)] ==
        IF n = 0 THEN <<>>
        ELSE LET vs == C[n-1]
                 x == ns[n]
                 E(e) == CastAll(e.casts, vs[e.n])
                 A(j) == E(x.args[j])
                 T(j) == TypeOfIn(ns, x.args[j])
                 And2 == IF ~A(1).ok THEN Undefined
                         ELSE IF A(1).v = 0 THEN Val(SInt, 0)
                         ELSE IF ~A(2).ok THEN Undefined
                         ELSE Val(SInt, Truth(A(2).v # 0))
                 Chosen == IF A(1).v # 0 THEN A(2) ELSE A(3)
             IN  Append(vs,
                   CASE x.op = "lit" -> LiteralValue(x.v)
                     [] x.op = "var" /\ n \in DOMAIN env -> Val(x.t, ConvertTo(x.t, env[n]))
                     [] x.op = "var" /\ n \notin DOMAIN env ->
                          CCast(x.t, E((CHOOSE d \in Range(ts) : d.n = n).e))
                     [] x.op = "and" /\ T(1).k = "bool" /\ T(2).k = "bool" -> And2
                     [] x.op = "cmp" -> CCompare(x.v, A(1), A(2))
                     [] x.op = "lshr" ->
                          CShift("shr", IF T(1).u THEN A(1) ELSE CCast(SetUnsigned(T(1)), A(1)),
                                 A(2))
                     [] x.op = "ashr" -> CShift("shr", A(1), A(2))
                     [] x.op = "shl" -> CShift("shl", A(1), A(2))
                     [] x.op = "not" -> IF A(1).ok THEN Val(SInt, Truth(A(1).v = 0)) ELSE A(1)
                     [] x.op = "minus" -> CMinus(A(1))
                     [] x.op = "select" ->
                          IF A(1).ok /\ Chosen.ok
                          THEN CCast(Common(A(2).t, A(3).t), Chosen) ELSE Undefined
                     [] OTHER -> CArith(x.op, A(1), A(2)))
  IN  C[Len(ns)]

(***************************************************************************)
(* What the statement does with the value.  A store or a return keeps the  *)
(* bits of the LLVM type.  A case label is the signed number; C converts   *)
(* it to the promoted type of the controlling expression, and the map of   *)
(* cases holds ints.                                                       *)
(***************************************************************************)
CaseLabel(t, c, k) == ConvertTo(Promoted(t), Signed(Signed(c, k), "int"))

SameAction(l, c, k) ==
  /\ c.ok
  /\ CASE place = "assign" -> ConvertTo(GetType(k), c.v) = l
       [] place \in {"if", "do"} -> (c.v # 0) = (l = 1)
       [] place = "switch" ->
            \A d \in 0..(Modulus(k) - 1) : (CaseLabel(c.t, d, k) = c.v) = (d = l)

\* The C value of the operand e of the statement.
Result(ns, ts, e, env) == CastAll(e.casts, CValues(ns, ts, env)[e.n])

Agree(env) ==
  LET l == LlvmValues(env)[Len(insts)]
  IN  l.ok => SameAction(l.v, Result(nodes, temps, root, env), insts[Len(insts)].k)

----------------------------------------------------------------------------
(* The type invariant of the translation: an operand exists before the     *)
(* expression it is part of, so no expression contains itself, and each    *)
(* variable has one initialiser (inlineOrCreateVariable).                  *)
IETypeOK ==
  /\ Len(exprMap) = Len(insts)
  /\ \A n \in DOMAIN nodes :
       /\ nodes[n].t \in CType /\ nodes[n].u \in BOOLEAN
       /\ \A j \in DOMAIN nodes[n].args : nodes[n].args[j].n \in 1..(n - 1)
  /\ \A i \in DOMAIN exprMap : exprMap[i].n \in DOMAIN nodes
  /\ \A d, c \in DOMAIN temps :
       /\ nodes[temps[d].n].op = "var" /\ temps[d].e.n \in 1..(temps[d].n - 1)
       /\ temps[d].n = temps[c].n => d = c
  /\ pass \in Range(Passes) /\ place \in Places \cup {"none"}

Literals(low, high) == \A i \in DOMAIN insts :
                         insts[i].op = "const" => Signed(insts[i].v, insts[i].k) \in low..high
IsResult(i) == i = Len(insts)

\* Classes of input no translation in this style gets right: i1 as a number, a
\* switch on another width than int's, an equality of truncated values.
Supported ==
  /\ place = "switch" => insts[Len(insts)].k = "int"
  /\ \A i \in DOMAIN insts :
       LET x == insts[i]
       IN  /\ ~(x.op = "trunc" /\ x.k = "bool")
           /\ x.op = "icmp" /\ x.v \in {"==", "!="} =>
                \A j \in 1..2 : insts[x.args[j]].op # "trunc"

\* What clang makes of a program whose integers are all unsigned; nothing
\* narrower than int wraps below another operator.
UnsignedProgram ==
  /\ Literals(0, Modulus("long"))
  /\ \A i \in DOMAIN insts :
       LET x == insts[i]
       IN  CASE x.op = "param" -> x.dbg # "signed"
             [] x.op \in {"icmp", "minmax"} -> x.nsw
             [] x.op \in {"add", "sub", "mul", "shl"} ->
                  ~x.nsw /\ (x.k = "char" => IsResult(i) /\ x.op # "mul")
             [] OTHER -> x.op \notin {"sdiv", "srem", "ashr", "sext", "abs"}

\* And of one whose integers are all signed, with debug information; a
\* truncated value goes to the statement, a literal is a right operand.
SignedProgram ==
  \A i \in DOMAIN insts :
    LET x == insts[i]
    IN  /\ x.args # <<>> => insts[x.args[1]].op # "const"
        /\ CASE x.op = "param" -> x.dbg = "signed" \/ x.k = "bool"
             [] x.op \in {"icmp", "minmax"} -> x.nsw => x.v \in {"==", "!="}
             [] x.op \in {"add", "sub", "mul", "shl"} -> x.nsw
             [] x.op = "trunc" -> IsResult(i)
             [] OTHER -> x.op \notin {"udiv", "urem", "lshr", "zext"}

(* A program of unsigned integers acts as the LLVM program does: the casts *)
(* of createExpressions and addSignCasts and the types of propagateTypes   *)
(* together give every operator the operands LLVM's operator sees.         *)
UnsignedValuesKept ==
  pass = "redundant" /\ Supported /\ UnsignedProgram => \A env \in Envs : Agree(env)

(* So does a program of signed integers, whose types come from the debug   *)
(* information only (parseMetadataTypes).                                  *)
SignedValuesKept ==
  pass = "redundant" /\ Supported /\ SignedProgram => \A env \in Envs : Agree(env)

Source(e) == TypeOf([e EXCEPT !.casts = Tail(@)])

\* An equality of two casts that change no value compared.
CastsOnlyNormalize(x) ==
  LET S(j) == Source(x.args[j])
  IN  x.op = "cmp" /\ x.v \in {"==", "!="} /\ (\A j \in 1..2 : x.args[j].casts # <<>>) =>
        S(1).k = S(2).k /\ Rank[S(1).k] \in Rank["int"]..Rank[TypeOf(x.args[1]).k]

ValueAsBefore ==
  \A env \in Envs :
    LET before == Result(nodes, temps, root, env)
        after == Result(nodes', temps', root', env)
    IN  before.ok => after.ok /\ after.v = before.v

(* deleteRedundantCasts drops only casts that are redundant: whatever the  *)
(* program and the types, the statement gets the value it got before, when *)
(* casts below an equality only normalize, as the comment in               *)
(* RedundantCastsVisitor::simplify has it.                                 *)
RedundantCastsKeepValue ==
  [][pass' = "redundant" /\ <<nodes, temps, root>>' # <<nodes, temps, root>>
       /\ (\A n \in DOMAIN nodes : CastsOnlyNormalize(nodes[n]))
     => ValueAsBefore]_ieVars

(* The same without a look at what the casts below an equality do.         *)
EqualityCastsKeepValue ==
  [][pass' = "redundant" /\ <<nodes, temps, root>>' # <<nodes, temps, root>>
     => ValueAsBefore]_ieVars
============================================================================
