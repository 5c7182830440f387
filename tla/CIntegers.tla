----------------------------- MODULE CIntegers -----------------------------
(***************************************************************************)
(* The integer types llvm2c prints and what C does with them, next to what *)
(* LLVM does with its own.  A C type is a kind and a signedness; "char"    *)
(* stands for the types narrower than int, "long" for the wider ones.  The *)
(* widths are a parameter, so a few bits show every carry and every sign.  *)
(*                                                                         *)
(* C is the language the text is written in and LLVM IR the one it is read *)
(* from: neither is under src/.  What is: TypeHandler, which maps LLVM's   *)
(* types to C's and pairs signed with unsigned.                            *)
(***************************************************************************)
EXTENDS Integers, Bitwise

CONSTANT Bits       \* width of each kind

Kinds == {"bool", "char", "int", "long"}
Rank == [bool |-> 0, char |-> 1, int |-> 2, long |-> 3]

ASSUME BitsAssumption ==
  /\ Bits \in [Kinds -> Nat \ {0}]
  /\ Bits["bool"] = 1
  /\ Bits["char"] < Bits["int"] /\ Bits["int"] < Bits["long"]

CType == [k : Kinds, u : BOOLEAN]

(***************************************************************************)
(* TypeHandler.  LLVM's integers have no sign; all become unsigned types.  *)
(* BoolType is an IntegerType that says it is unsigned and has no signed   *)
(* partner.                                                                *)
(***************************************************************************)
GetType(k) == [k |-> k, u |-> TRUE]
SetSigned(t) == [t EXCEPT !.u = (t.k = "bool")]
SetUnsigned(t) == [t EXCEPT !.u = TRUE]
ToggleSignedness(t) == [t EXCEPT !.u = (t.k = "bool") \/ ~t.u]

(***************************************************************************)
(* C: a value has a type; "ok" is false once the program's behaviour is    *)
(* undefined.                                                              *)
(***************************************************************************)
Modulus(k) == 2^Bits[k]
MinOf(t) == IF t.u THEN 0 ELSE -(2^(Bits[t.k] - 1))
MaxOf(t) == IF t.u THEN Modulus(t.k) - 1 ELSE 2^(Bits[t.k] - 1) - 1

Signed(n, k) ==
  LET bits == n % Modulus(k)
  IN  IF bits > MaxOf([k |-> k, u |-> FALSE]) THEN bits - Modulus(k) ELSE bits

ConvertTo(t, n) ==
  IF t.k = "bool" THEN IF n = 0 THEN 0 ELSE 1
  ELSE IF t.u THEN n % Modulus(t.k) ELSE Signed(n, t.k)

Truth(b) == IF b THEN 1 ELSE 0
SInt == [k |-> "int", u |-> FALSE]
Val(t, n) == [t |-> t, v |-> n, ok |-> TRUE]
Undefined == [t |-> SInt, v |-> 0, ok |-> FALSE]

Promoted(t) == IF Rank[t.k] < Rank["int"] THEN SInt ELSE t

\* The usual arithmetic conversions.
Common(s, t) ==
  LET p == Promoted(s)  q == Promoted(t)
      wide == IF Rank[p.k] > Rank[q.k] THEN p ELSE q
  IN  IF p.k = q.k THEN [k |-> p.k, u |-> p.u \/ q.u] ELSE wide

QuotientTo0(a, b) ==
  LET Abs(n) == IF n < 0 THEN -n ELSE n
      q == Abs(a) \div Abs(b)
  IN  IF (a < 0) = (b < 0) THEN q ELSE -q

BitwiseOp(op, a, b, k) ==
  LET x == a % Modulus(k)  y == b % Modulus(k)
  IN  CASE op = "and" -> x & y
        [] op = "or"  -> x | y
        [] op = "xor" -> x ^^ y

CCast(t, x) == IF x.ok THEN Val(t, ConvertTo(t, x.v)) ELSE x

CArith(op, x, y) ==
  LET t == Common(x.t, y.t)
      a == ConvertTo(t, x.v)
      b == ConvertTo(t, y.v)
      r == CASE op = "add" -> a + b
             [] op = "sub" -> a - b
             [] op = "mul" -> a * b
             [] op = "div" -> QuotientTo0(a, b)
             [] op = "rem" -> a - b * QuotientTo0(a, b)
             [] OTHER      -> ConvertTo(t, BitwiseOp(op, a, b, t.k))
  IN  IF ~x.ok \/ ~y.ok \/ (op \in {"div", "rem"} /\ b = 0) THEN Undefined
      ELSE IF ~t.u /\ r \notin MinOf(t)..MaxOf(t) THEN Undefined
      ELSE Val(t, ConvertTo(t, r))

Compare(cc, a, b) ==
  CASE cc = "==" -> a = b
    [] cc = "!=" -> a # b
    [] cc = "<"  -> a < b
    [] cc = ">"  -> a > b

CCompare(cc, x, y) ==
  LET t == Common(x.t, y.t)
  IN  IF x.ok /\ y.ok
      THEN Val(SInt, Truth(Compare(cc, ConvertTo(t, x.v), ConvertTo(t, y.v))))
      ELSE Undefined

\* clang's reading of a left shift of a signed value: the bits move.
CShift(op, x, y) ==
  LET t == Promoted(x.t)
  IN  IF ~x.ok \/ ~y.ok \/ y.v \notin 0..(Bits[t.k] - 1) THEN Undefined
      ELSE IF op = "shl" THEN Val(t, ConvertTo(t, x.v * 2^y.v))
      ELSE Val(t, x.v \div 2^y.v)

CMinus(x) ==
  LET t == Promoted(x.t)
  IN  IF ~x.ok \/ (~t.u /\ x.v = MinOf(t)) THEN Undefined
      ELSE Val(t, ConvertTo(t, -x.v))

(***************************************************************************)
(* LLVM: a value is its bits, a number below 2^width; "ok" is false for    *)
(* poison and undefined behaviour.  nsw makes signed overflow poison.      *)
(***************************************************************************)
LArith(op, nsw, k, a, b) ==
  LET sa == Signed(a, k)  sb == Signed(b, k)
      min == MinOf([k |-> k, u |-> FALSE])
      Exact(f, g) == [v |-> f % Modulus(k),
                      ok |-> ~nsw \/ g \in min..(-min - 1)]
      Divide(f, g) == IF b = 0 \/ (op \in {"sdiv", "srem"} /\ sa = min /\ sb = -1)
                      THEN [v |-> 0, ok |-> FALSE]
                      ELSE [v |-> (IF op \in {"sdiv", "udiv"}
                                   THEN QuotientTo0(f, g)
                                   ELSE f - g * QuotientTo0(f, g)) % Modulus(k),
                            ok |-> TRUE]
  IN  CASE op = "add" -> Exact(a + b, sa + sb)
        [] op = "sub" -> Exact(a - b, sa - sb)
        [] op = "mul" -> Exact(a * b, sa * sb)
        [] op \in {"udiv", "urem"} -> Divide(a, b)
        [] op \in {"sdiv", "srem"} -> Divide(sa, sb)
        [] op \in {"and", "or", "xor"} ->
             [v |-> BitwiseOp(op, a, b, k), ok |-> TRUE]

LShift(op, nsw, k, a, b) ==
  IF b >= Bits[k] THEN [v |-> 0, ok |-> FALSE]
  ELSE CASE op = "shl" ->
              [v |-> (a * 2^b) % Modulus(k),
               ok |-> ~nsw \/ Signed(a, k) * 2^b = Signed(a * 2^b, k)]
         [] op = "lshr" -> [v |-> a \div 2^b, ok |-> TRUE]
         [] op = "ashr" -> [v |-> (Signed(a, k) \div 2^b) % Modulus(k), ok |-> TRUE]

\* isUnsigned of a predicate of icmp decides how the bits are read.
LCompare(cc, unsigned, k, a, b) ==
  Truth(IF unsigned THEN Compare(cc, a, b)
        ELSE Compare(cc, Signed(a, k), Signed(b, k)))
============================================================================
