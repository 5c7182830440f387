---------------------------- MODULE VariablesProofs ----------------------------
(***************************************************************************)
(* The names of variables and the places of variable-length arrays, for    *)
(* programs with any number of functions, variables, debug intrinsics,     *)
(* arrays and statements.                                                  *)
(***************************************************************************)
EXTENDS Variables, NaturalSets, FiniteSetTheorems

-----------------------------------------------------------------------------
(* Func::getVarName *)

LEMMA FreeNumberIs ==
  ASSUME NEW from \in Nat, NEW used, IsFiniteSet(used)
  PROVE  /\ FreeNumber(from, used) \in Nat /\ from <= FreeNumber(from, used)
         /\ Var(FreeNumber(from, used)) \notin used
<1> DEFINE B == from..(from + Cardinality(used))
           free == {n \in B : Var(n) \notin used}
<1>1. Cardinality(used) \in Nat
  BY FS_CardinalityType
<1>2. IsFiniteSet(B) /\ Cardinality(B) = Cardinality(used) + 1
  <2> DEFINE to == from + Cardinality(used)
  <2>1. from \in Int /\ to \in Int /\ from <= to
    BY <1>1
  <2> HIDE DEF to
  <2>2. IsFiniteSet(from..to) /\ Cardinality(from..to) = to - from + 1
    BY <2>1, FS_Interval
  <2> QED
    BY <1>1, <2>2 DEF to
<1>3. free # {}
  <2> SUFFICES ASSUME \A n \in B : Var(n) \in used PROVE FALSE
    OBVIOUS
  <2> DEFINE h == [n \in B |-> Var(n)]
  <2>1. h \in [B -> used]
    OBVIOUS
  <2>2. \A m, n \in B : h[m] = h[n] => m = n
    BY DEF Var
  <2> HIDE DEF h, B
  <2> QED
    BY <1>1, <1>2, <2>1, <2>2, FS_PigeonHole
<1>4. free \subseteq Nat
  BY <1>1
<1>5. PICK m \in free : \A n \in free : m <= n
  BY <1>3, <1>4, LeastNumber
<1>6. m \in B /\ Var(m) \notin used /\ \A k \in from..(m - 1) : Var(k) \in used
  <2> SUFFICES ASSUME NEW k \in from..(m - 1), Var(k) \notin used PROVE FALSE
    BY <1>5
  <2>1. k \in free
    BY <1>1, <1>5
  <2> QED
    BY <1>4, <1>5, <2>1
<1>7. /\ FreeNumber(from, used) \in B
      /\ Var(FreeNumber(from, used)) \notin used
  BY <1>6 DEF FreeNumber
<1> QED
  BY <1>1, <1>7

\* The numbers from which the search for the k-th name starts.
Count(k, start, used) ==
  CHOOSE c : c = [n \in 0..k |-> IF n = 0 THEN start ELSE FreeNumber(c[n - 1], used) + 1]

LEMMA CountIs ==
  ASSUME NEW start \in Nat, NEW used, IsFiniteSet(used), NEW k \in Nat
  PROVE  LET c == Count(k, start, used)
         IN /\ c \in [0..k -> Nat] /\ c[0] = start
            /\ \A n \in 1..k : c[n] = FreeNumber(c[n - 1], used) + 1
            /\ \A m, n \in 0..k : m <= n => c[m] <= c[n]
<1> DEFINE step == [n \in 1..k |-> [y \in Nat |-> FreeNumber(y, used) + 1]]
<1>1. \A n \in 1..k, y \in Nat : step[n][y] = FreeNumber(y, used) + 1 /\ step[n][y] \in Nat
  BY FreeNumberIs
<1> HIDE DEF step
<1>2. PICK R : Recursion(R, Nat, start, step, k)
  BY <1>1, RecursionDefined DEF Steps
<1>3. /\ R \in [0..k -> Nat] /\ R[0] = start
      /\ \A n \in 1..k : R[n] = step[n][R[n - 1]] /\ n - 1 \in 0..k /\ R[n - 1] \in Nat
  BY <1>2 DEF Recursion
<1>4. \A n \in 0..k : R[n] = IF n = 0 THEN start ELSE FreeNumber(R[n - 1], used) + 1
  <2> SUFFICES ASSUME NEW n \in 0..k
               PROVE  R[n] = IF n = 0 THEN start ELSE FreeNumber(R[n - 1], used) + 1
    OBVIOUS
  <2>1. CASE n = 0
    BY <1>3, <2>1
  <2>2. CASE n \in 1..k
    <3>1. R[n] = step[n][R[n - 1]] /\ R[n - 1] \in Nat /\ n # 0
      BY <1>3, <2>2
    <3> QED
      BY <1>1, <2>2, <3>1
  <2> QED
    BY <2>1, <2>2
<1>5. R = [n \in 0..k |-> IF n = 0 THEN start ELSE FreeNumber(R[n - 1], used) + 1]
  BY <1>3, <1>4
<1> DEFINE c == Count(k, start, used)
<1>6. c = [n \in 0..k |-> IF n = 0 THEN start ELSE FreeNumber(c[n - 1], used) + 1]
  BY <1>5 DEF Count
<1> HIDE DEF c
<1>7. c[0] = start /\ \A n \in 1..k : c[n] = FreeNumber(c[n - 1], used) + 1
  <2>1. \A n \in 1..k : n \in 0..k /\ n # 0
    OBVIOUS
  <2> QED
    BY <1>6, <2>1
<1> DEFINE T == {n \in Nat : n <= k =>
                   c[n] \in Nat /\ \A m \in 0..n : c[m] \in Nat /\ c[m] <= c[n]}
<1>8. 0 \in T
  BY <1>7
<1>9. ASSUME NEW n \in T PROVE n + 1 \in T
  <2> SUFFICES ASSUME n + 1 <= k
               PROVE  c[n + 1] \in Nat /\ \A m \in 0..(n + 1) : c[m] \in Nat /\ c[m] <= c[n + 1]
    OBVIOUS
  <2>1. c[n] \in Nat /\ (\A m \in 0..n : c[m] \in Nat /\ c[m] <= c[n])
    OBVIOUS
  <2>2. c[n + 1] = FreeNumber(c[n], used) + 1
    <3>1. n + 1 \in 1..k /\ (n + 1) - 1 = n
      OBVIOUS
    <3> QED
      BY <1>7, <3>1
  <2>3. FreeNumber(c[n], used) \in Nat /\ c[n] <= FreeNumber(c[n], used)
    BY <2>1, FreeNumberIs
  <2> QED
    BY <2>1, <2>2, <2>3
<1> HIDE DEF T
<1>10. Nat \subseteq T
  BY <1>8, <1>9, SetInduction
<1>11. \A n \in 0..k : c[n] \in Nat /\ \A m \in 0..n : c[m] <= c[n]
  BY <1>10 DEF T
<1>12. c \in [0..k -> Nat]
  BY <1>6, <1>11
<1> QED
  BY <1>7, <1>11, <1>12 DEF c

\* The place of a variable among those that get names.
Position(v, vs) == Cardinality({w \in vs : w < v})

LEMMA PositionsDiffer ==
  ASSUME NEW vs, vs \subseteq Nat, IsFiniteSet(vs), NEW v \in vs
  PROVE  /\ Position(v, vs) \in 0..(Cardinality(vs) - 1) /\ Cardinality(vs) \in Nat
         /\ \A w \in vs : v < w => Position(v, vs) < Position(w, vs)
<1>1. ASSUME NEW w \in vs
      PROVE  IsFiniteSet({u \in vs : u < w}) /\ Cardinality({u \in vs : u < w}) \in Nat
  BY FS_Subset, FS_CardinalityType
<1>2. {u \in vs : u < v} # vs /\ {u \in vs : u < v} \subseteq vs
  OBVIOUS
<1>3. Cardinality({u \in vs : u < v}) < Cardinality(vs) /\ Cardinality(vs) \in Nat
  BY <1>1, <1>2, FS_Subset, FS_CardinalityType
<1>4. ASSUME NEW w \in vs, v < w PROVE Position(v, vs) < Position(w, vs)
  <2> DEFINE A == {u \in vs : u < v}
             B == {u \in vs : u < w}
  <2>1. A \subseteq B /\ A # B
    <3>1. v \in Nat /\ w \in Nat /\ v \in B /\ v \notin A
      BY <1>4
    <3>2. ASSUME NEW u \in A PROVE u \in B
      BY <1>4, <3>1, vs \subseteq Nat
    <3> QED
      BY <3>1, <3>2
  <2>2. IsFiniteSet(B) /\ Cardinality(A) \in Nat /\ Cardinality(B) \in Nat
    BY <1>1
  <2> HIDE DEF A, B
  <2>3. Cardinality(A) < Cardinality(B)
    BY <2>1, <2>2, FS_Subset
  <2> QED
    BY <2>3 DEF Position, A, B
<1> QED
  BY <1>1, <1>3, <1>4 DEF Position

\* A name the program makes: a number of its own that is not taken.
Made(g, v, n) == [text |-> "var", n |-> n, suffix |-> Suffix(Fn(g).vars[v].kind)]

LEMMA GetVarNamesIs ==
  ASSUME NEW vs, vs \subseteq Nat, IsFiniteSet(vs), GetVarNames(vs),
         f \in DOMAIN names, f \in DOMAIN varCount, varCount[f] \in Nat, IsFiniteSet(taken[f])
  PROVE  /\ varCount' = [varCount EXCEPT ![f] = varCount'[f]]
         /\ names' = [names EXCEPT ![f] = names'[f]]
         /\ varCount'[f] \in Nat /\ varCount[f] <= varCount'[f]
         /\ DOMAIN names'[f] = DOMAIN names[f] \cup vs
         /\ \A v \in DOMAIN names[f] : names'[f][v] = names[f][v]
         /\ \E num \in [vs -> Nat] :
              /\ \A v \in vs \ DOMAIN names[f] :
                   /\ names'[f][v] = Made(f, v, num[v])
                   /\ varCount[f] <= num[v] /\ num[v] < varCount'[f]
                   /\ Var(num[v]) \notin taken[f]
              /\ \A v, w \in vs : num[v] = num[w] => v = w
<1> DEFINE K == Cardinality(vs)
           c == Count(K, varCount[f], taken[f])
           num == [v \in vs |-> FreeNumber(c[Position(v, vs)], taken[f])]
           new == [v \in DOMAIN names[f] \cup vs |->
                     IF v \in DOMAIN names[f] THEN names[f][v]
                     ELSE [Var(FreeNumber(c[Position(v, vs)], taken[f]))
                             EXCEPT !.suffix = Suffix(Fn(f).vars[v].kind)]]
<1>1. names' = [names EXCEPT ![f] = new] /\ varCount' = [varCount EXCEPT ![f] = c[K]]
  BY DEF GetVarNames, Count, Position
<1>2. K \in Nat
  BY FS_CardinalityType
<1>3. /\ c \in [0..K -> Nat] /\ c[0] = varCount[f]
      /\ \A n \in 1..K : c[n] = FreeNumber(c[n - 1], taken[f]) + 1
      /\ \A m, n \in 0..K : m <= n => c[m] <= c[n]
  BY <1>2, CountIs
<1> HIDE DEF c
<1>4. ASSUME NEW v \in vs
      PROVE  /\ num[v] \in Nat /\ Var(num[v]) \notin taken[f]
             /\ Position(v, vs) + 1 \in 1..K
             /\ c[Position(v, vs)] <= num[v]
             /\ c[Position(v, vs) + 1] = num[v] + 1
  <2>1. Position(v, vs) \in 0..(K - 1)
    BY PositionsDiffer
  <2>2. /\ Position(v, vs) \in 0..K /\ Position(v, vs) + 1 \in 1..K
        /\ (Position(v, vs) + 1) - 1 = Position(v, vs)
    BY <1>2, <2>1
  <2>3. c[Position(v, vs)] \in Nat
    BY <1>3, <2>2
  <2> QED
    BY <1>3, <2>2, <2>3, FreeNumberIs
<1>5. ASSUME NEW v \in vs, NEW w \in vs, v < w PROVE num[v] < num[w]
  <2>1. /\ Position(v, vs) < Position(w, vs)
        /\ Position(v, vs) \in Nat /\ Position(w, vs) \in 0..K
    <3>1. /\ Position(v, vs) \in 0..(K - 1) /\ Position(w, vs) \in 0..(K - 1)
          /\ Position(v, vs) < Position(w, vs)
      BY <1>5, PositionsDiffer
    <3> QED
      BY <1>2, <3>1
  <2>2. c[Position(v, vs) + 1] <= c[Position(w, vs)]
    BY <1>2, <1>3, <2>1
  <2>3. c[Position(w, vs)] \in Nat
    BY <1>3, <2>1
  <2> QED
    BY <1>4, <2>2, <2>3
<1>6. \A v, w \in vs : num[v] = num[w] => v = w
  <2> SUFFICES ASSUME NEW v \in vs, NEW w \in vs, num[v] = num[w] PROVE v = w
    OBVIOUS
  <2>1. num[v] \in Nat /\ v \in Nat /\ w \in Nat
    BY <1>4
  <2> QED
    BY <1>5, <2>1
<1>7. ASSUME NEW v \in vs PROVE varCount[f] <= num[v] /\ num[v] < c[K]
  <2>1. Position(v, vs) \in 0..K /\ Position(v, vs) + 1 \in 0..K
    BY <1>2, <1>4, PositionsDiffer
  <2>2. c[0] <= c[Position(v, vs)] /\ c[Position(v, vs) + 1] <= c[K]
    BY <1>2, <1>3, <2>1
  <2>3. c[Position(v, vs)] \in Nat /\ c[K] \in Nat
    BY <1>2, <1>3, <2>1
  <2> QED
    BY <1>3, <1>4, <2>2, <2>3
<1>8. c[K] \in Nat /\ varCount[f] <= c[K]
  <2>1. 0 \in 0..K /\ K \in 0..K /\ 0 <= K
    BY <1>2
  <2> QED
    BY <1>3, <2>1
<1>9. \A v \in vs \ DOMAIN names[f] : new[v] = Made(f, v, num[v])
  BY DEF Made, Var
<1>10. num \in [vs -> Nat]
  BY <1>4
<1>11. names'[f] = new /\ varCount'[f] = c[K]
  BY <1>1
<1> HIDE DEF num
<1>12. \A v \in vs \ DOMAIN names[f] :
         /\ names'[f][v] = Made(f, v, num[v])
         /\ varCount[f] <= num[v] /\ num[v] < varCount'[f]
         /\ Var(num[v]) \notin taken[f]
  BY <1>4, <1>7, <1>9, <1>11
<1>13. /\ DOMAIN new = DOMAIN names[f] \cup vs
       /\ \A v \in DOMAIN names[f] : new[v] = names[f][v]
  OBVIOUS
<1> HIDE DEF new
<1> QED
  BY <1>1, <1>6, <1>8, <1>10, <1>11, <1>12, <1>13

-----------------------------------------------------------------------------
(* setMetadataInfo *)

DebugName(nm, c) == IF c = 0 THEN nm ELSE Appended(nm, c + 1)
DebugNames(g) == {Fn(g).debug[i].name : i \in DOMAIN Fn(g).debug}
Debugged(g, v, k) == \E i \in 1..k : Fn(g).debug[i].v = v

\* What the first k debug intrinsics make of the names old.
MetadataSet(g, old, st, k) ==
  /\ \A nm \in DebugNames(g) :
       /\ (\A j \in 1..k : Fn(g).debug[j].name # nm) => st.counters[nm] = 0
       /\ (\A i, j \in 1..k : Fn(g).debug[i].name = nm /\ Fn(g).debug[j].name = nm => i = j)
             => st.counters[nm] <= 1
  /\ \A v \in DOMAIN old : ~Debugged(g, v, k) => st.names[v] = old[v]
  /\ \A v \in DOMAIN old : Debugged(g, v, k) =>
       \E j \in 1..k : \E c \in Nat : /\ c < st.counters[Fn(g).debug[j].name]
                                     /\ st.names[v] = DebugName(Fn(g).debug[j].name, c)
  /\ PlainDebugNames(g) =>
       \A v, w \in DOMAIN old : Debugged(g, v, k) /\ Debugged(g, w, k) /\ v # w =>
         st.names[v] # st.names[w]

LEMMA ElementOf == ASSUME NEW S, NEW s \in Seq(S), NEW i \in DOMAIN s PROVE s[i] \in S
OBVIOUS

LEMMA NameIs ==
  ASSUME NEW nm \in Names, nm.n = NoNumber
  PROVE  nm = [text |-> nm.text, n |-> NoNumber, suffix |-> ""]
BY DEF Names

LEMMA DebugNameIs ==
  ASSUME NEW nm \in Names, NEW k \in Nat, nm.n = NoNumber
  PROVE  /\ DebugName(nm, k).text = nm.text
         /\ DebugName(nm, k).n = IF k = 0 THEN NoNumber ELSE k + 1
<1>1. nm = [text |-> nm.text, n |-> NoNumber, suffix |-> ""]
  BY NameIs
<1>2. CASE k = 0
  BY <1>2 DEF DebugName
<1>3. CASE k # 0
  <2>1. DebugName(nm, k) = [nm EXCEPT !.n = k + 1]
    BY <1>3 DEF DebugName, Appended
  <2>2. [nm EXCEPT !.n = k + 1].text = nm.text /\ [nm EXCEPT !.n = k + 1].n = k + 1
    BY DEF Names
  <2> QED
    BY <1>3, <2>1, <2>2
<1> QED
  BY <1>2, <1>3

\* Plain debug names do not meet each other's, with whatever numbers.
LEMMA PlainNamesDiffer ==
  ASSUME NEW g, PlainDebugNames(g), Fn(g).debug \in Seq([v : DOMAIN Fn(g).vars, name : Names,
                                                       declare : BOOLEAN]),
         NEW i \in DOMAIN Fn(g).debug, NEW j \in DOMAIN Fn(g).debug,
         NEW c \in Nat, NEW d \in Nat,
         IsVarName(Fn(g).debug[i].name) => c = 0, IsVarName(Fn(g).debug[j].name) => d = 0,
         DebugName(Fn(g).debug[i].name, c) = DebugName(Fn(g).debug[j].name, d)
  PROVE  Fn(g).debug[i].name = Fn(g).debug[j].name /\ c = d
<1> DEFINE a == Fn(g).debug[i].name
           b == Fn(g).debug[j].name
<1>1. a \in Names /\ b \in Names
  <2>1. \A k \in DOMAIN Fn(g).debug :
          Fn(g).debug[k] \in [v : DOMAIN Fn(g).vars, name : Names, declare : BOOLEAN]
    BY ElementOf
  <2> QED
    BY <2>1
<1>2. /\ (a.n = NoNumber /\ a.text # "var") \/ (IsVarName(a) /\ c = 0)
      /\ (b.n = NoNumber /\ b.text # "var") \/ (IsVarName(b) /\ d = 0)
  BY DEF PlainDebugNames
<1>3. ASSUME NEW nm \in Names, NEW k \in Nat, nm.n = NoNumber
      PROVE  /\ DebugName(nm, k).text = nm.text
             /\ DebugName(nm, k).n = IF k = 0 THEN NoNumber ELSE k + 1
  BY <1>3, DebugNameIs
<1>4. \A nm \in Names : DebugName(nm, 0) = nm
  BY DEF DebugName
<1>5. DebugName(a, c) = DebugName(b, d)
  OBVIOUS
<1>6. (IsVarName(a) => c = 0) /\ (IsVarName(b) => d = 0)
  OBVIOUS
<1> SUFFICES a = b /\ c = d
  OBVIOUS
<1> HIDE DEF a, b
<1>8. CASE a.n = NoNumber /\ b.n = NoNumber
  <2>1. /\ a.text = b.text
        /\ (IF c = 0 THEN NoNumber ELSE c + 1) = (IF d = 0 THEN NoNumber ELSE d + 1)
    <3>1. /\ DebugName(a, c).text = a.text
          /\ DebugName(a, c).n = IF c = 0 THEN NoNumber ELSE c + 1
      BY <1>1, <1>3, <1>8
    <3>2. /\ DebugName(b, d).text = b.text
          /\ DebugName(b, d).n = IF d = 0 THEN NoNumber ELSE d + 1
      BY <1>1, <1>3, <1>8
    <3> QED
      BY <1>5, <3>1, <3>2, Zenon
  <2>2. c = d
    <3>1. c + 1 \in Nat /\ d + 1 \in Nat
      OBVIOUS
    <3> QED
      BY <2>1, <3>1, NoNumberAssumption
  <2>3. /\ a = [text |-> a.text, n |-> NoNumber, suffix |-> ""]
        /\ b = [text |-> b.text, n |-> NoNumber, suffix |-> ""]
    BY <1>1, <1>8, NameIs
  <2>4. a = b
    BY <1>8, <2>1, <2>3
  <2> QED
    BY <2>2, <2>4
<1>9. CASE IsVarName(a) /\ c = 0 /\ IsVarName(b) /\ d = 0
  BY <1>1, <1>4, <1>5, <1>9
<1>10. CASE IsVarName(a) /\ c = 0 /\ b.n = NoNumber /\ b.text # "var"
  <2>1. DebugName(a, c).text = "var" /\ DebugName(b, d).text = b.text
    BY <1>1, <1>3, <1>4, <1>10 DEF IsVarName
  <2> QED
    BY <1>5, <1>10, <2>1
<1>11. CASE IsVarName(b) /\ d = 0 /\ a.n = NoNumber /\ a.text # "var"
  <2>1. DebugName(b, d).text = "var" /\ DebugName(a, c).text = a.text
    BY <1>1, <1>3, <1>4, <1>11 DEF IsVarName
  <2> QED
    BY <1>5, <1>11, <2>1
<1> QED
  BY <1>2, <1>6, <1>8, <1>9, <1>10, <1>11

\* The states that the debug intrinsics of a function lead through.
Metadata(debug, first) ==
  CHOOSE st : st = [k \in 0..Len(debug) |->
                      IF k = 0 THEN first ELSE SetMetadataInfo(st[k - 1], debug[k])]

NameValues(g, old) ==
  {old[v] : v \in DOMAIN old} \cup UNION {{DebugName(nm, c) : c \in Nat} : nm \in DebugNames(g)}
States(g, old) ==
  [names : [DOMAIN old -> NameValues(g, old)], counters : [DebugNames(g) -> Nat]]

LEMMA SetMetadataInfoIs ==
  ASSUME NEW g, NEW old, NEW y \in States(g, old), NEW d, d.v \in DOMAIN old,
         d.name \in DebugNames(g)
  PROVE  LET z == SetMetadataInfo(y, d)
         IN /\ z \in States(g, old)
            /\ z.counters[d.name] = y.counters[d.name] + 1
            /\ \A nm \in DebugNames(g) : nm # d.name => z.counters[nm] = y.counters[nm]
            /\ z.names[d.v] = DebugName(d.name, y.counters[d.name])
            /\ \A v \in DOMAIN old : v # d.v => z.names[v] = y.names[v]
<1> DEFINE c == y.counters[d.name]
           ns == [y.names EXCEPT ![d.v] = DebugName(d.name, c)]
           cs == [y.counters EXCEPT ![d.name] = c + 1]
<1>1. SetMetadataInfo(y, d) = [names |-> ns, counters |-> cs]
  BY DEF SetMetadataInfo, DebugName
<1>2. y.names \in [DOMAIN old -> NameValues(g, old)] /\ y.counters \in [DebugNames(g) -> Nat]
  BY DEF States
<1>3. c \in Nat /\ DebugName(d.name, c) \in NameValues(g, old)
  <2>1. c \in Nat
    BY <1>2
  <2> HIDE DEF c
  <2> QED
    BY <2>1 DEF NameValues
<1> HIDE DEF c
<1>4. /\ ns \in [DOMAIN old -> NameValues(g, old)]
      /\ ns[d.v] = DebugName(d.name, c)
      /\ \A v \in DOMAIN old : v # d.v => ns[v] = y.names[v]
  BY <1>2, <1>3
<1>5. /\ cs \in [DebugNames(g) -> Nat] /\ cs[d.name] = c + 1
      /\ \A nm \in DebugNames(g) : nm # d.name => cs[nm] = y.counters[nm]
  BY <1>2, <1>3
<1> HIDE DEF ns, cs
<1>6. [names |-> ns, counters |-> cs] \in States(g, old)
  BY <1>4, <1>5 DEF States
<1> QED
  BY <1>1, <1>4, <1>5, <1>6 DEF c

LEMMA MetadataIs ==
  ASSUME NEW g, NEW old, NEW first \in States(g, old), first.names = old,
         \A nm \in DebugNames(g) : first.counters[nm] = 0,
         Fn(g).debug \in Seq([v : DOMAIN Fn(g).vars, name : Names, declare : BOOLEAN]),
         \A i \in DOMAIN Fn(g).debug : Fn(g).debug[i].v \in DOMAIN old
  PROVE  LET st == Metadata(Fn(g).debug, first)[Len(Fn(g).debug)]
         IN st \in States(g, old) /\ MetadataSet(g, old, st, Len(Fn(g).debug))
<1> DEFINE debug == Fn(g).debug
           K == Len(debug)
           st == Metadata(debug, first)
           S == States(g, old)
<1>1. K \in Nat /\ DOMAIN debug = 1..K
  OBVIOUS
<1>2. ASSUME NEW i \in 1..K
      PROVE  debug[i].v \in DOMAIN old /\ debug[i].name \in DebugNames(g)
  BY <1>1 DEF DebugNames
<1> DEFINE step == [n \in 1..K |-> [y \in S |-> SetMetadataInfo(y, debug[n])]]
<1>3. \A n \in 1..K, y \in S :
        step[n][y] = SetMetadataInfo(y, debug[n]) /\ step[n][y] \in S
  BY <1>2, SetMetadataInfoIs
<1> HIDE DEF step, S, K
<1>4. first \in S
  BY DEF S
<1>5. PICK R : Recursion(R, S, first, step, K)
  BY <1>1, <1>3, <1>4, RecursionDefined DEF Steps
<1>6. /\ R \in [0..K -> S] /\ R[0] = first
      /\ \A n \in 1..K : n - 1 \in 0..K /\ R[n - 1] \in S /\ R[n] = SetMetadataInfo(R[n - 1], debug[n])
  BY <1>1, <1>3, <1>5 DEF Recursion
<1>7. R = [n \in 0..K |-> IF n = 0 THEN first ELSE SetMetadataInfo(R[n - 1], debug[n])]
  <2> SUFFICES ASSUME NEW n \in 0..K
               PROVE  R[n] = IF n = 0 THEN first ELSE SetMetadataInfo(R[n - 1], debug[n])
    BY <1>6
  <2>1. n = 0 \/ (n # 0 /\ n \in 1..K)
    BY <1>1
  <2> QED
    BY <1>6, <2>1
<1>8. st = [n \in 0..K |-> IF n = 0 THEN first ELSE SetMetadataInfo(st[n - 1], debug[n])]
  BY <1>7 DEF Metadata, K
<1> HIDE DEF st
<1>9. st[0] = first /\ \A n \in 1..K : st[n] = SetMetadataInfo(st[n - 1], debug[n])
  <2>1. 0 \in 0..K /\ \A n \in 1..K : n \in 0..K /\ n # 0
    BY <1>1
  <2> QED
    BY <1>8, <2>1
<1> DEFINE T == {n \in Nat : n <= K => st[n] \in S /\ MetadataSet(g, old, st[n], n)}
<1>10. 0 \in T
  <2>1. 1..0 = {}
    OBVIOUS
  <2>2. \A v : ~Debugged(g, v, 0)
    BY <2>1 DEF Debugged
  <2> QED
    BY <1>4, <1>9, <2>1 DEF MetadataSet, Debugged
<1>11. ASSUME NEW n \in T PROVE n + 1 \in T
  <2> SUFFICES ASSUME n + 1 <= K
               PROVE  st[n + 1] \in S /\ MetadataSet(g, old, st[n + 1], n + 1)
    OBVIOUS
  <2> DEFINE y == st[n]
             z == st[n + 1]
             d == debug[n + 1]
  <2>1. n \in Nat /\ n + 1 \in 1..K /\ (n + 1) - 1 = n /\ n <= K
    BY <1>1
  <2>2. y \in States(g, old) /\ MetadataSet(g, old, y, n)
    BY <2>1 DEF S
  <2>3. z = SetMetadataInfo(y, d) /\ d.v \in DOMAIN old /\ d.name \in DebugNames(g)
    BY <1>2, <1>9, <2>1
  <2>4. 1..(n + 1) = 1..n \cup {n + 1}
    BY <2>1
  <2> HIDE DEF y, z, d
  <2>5. /\ z \in States(g, old)
        /\ z.counters[d.name] = y.counters[d.name] + 1
        /\ \A nm \in DebugNames(g) : nm # d.name => z.counters[nm] = y.counters[nm]
        /\ z.names[d.v] = DebugName(d.name, y.counters[d.name])
        /\ \A v \in DOMAIN old : v # d.v => z.names[v] = y.names[v]
    BY <2>2, <2>3, SetMetadataInfoIs
  <2>6. \A nm \in DebugNames(g) : y.counters[nm] \in Nat /\ z.counters[nm] \in Nat
    BY <2>2, <2>5 DEF States
  <2>7. d = Fn(g).debug[n + 1]
    BY DEF d
  <2>8. \A v : Debugged(g, v, n + 1) <=> Debugged(g, v, n) \/ v = d.v
    BY <2>4, <2>7 DEF Debugged
  <2>9. MetadataSet(g, old, z, n + 1)
    <3>1. ASSUME NEW nm \in DebugNames(g)
          PROVE  /\ (\A j \in 1..(n + 1) : Fn(g).debug[j].name # nm) => z.counters[nm] = 0
                 /\ (\A i, j \in 1..(n + 1) :
                       Fn(g).debug[i].name = nm /\ Fn(g).debug[j].name = nm => i = j)
                      => z.counters[nm] <= 1
      <4>1. CASE nm # d.name
        BY <2>2, <2>4, <2>5, <2>7, <4>1 DEF MetadataSet
      <4>2. CASE nm = d.name
        <5>1. ~(\A j \in 1..(n + 1) : Fn(g).debug[j].name # nm)
          BY <2>4, <2>7, <4>2
        <5>2. ASSUME \A i, j \in 1..(n + 1) :
                       Fn(g).debug[i].name = nm /\ Fn(g).debug[j].name = nm => i = j
              PROVE  z.counters[nm] <= 1
          <6>1. \A j \in 1..n : j # n + 1 /\ j \in 1..(n + 1)
            BY <2>1
          <6>2. n + 1 \in 1..(n + 1)
            BY <2>1
          <6>3. \A j \in 1..n : Fn(g).debug[j].name # nm
            BY <2>7, <4>2, <5>2, <6>1, <6>2
          <6>4. y.counters[nm] = 0
            BY <2>2, <6>3 DEF MetadataSet
          <6> QED
            BY <2>5, <4>2, <6>4
        <5> QED
          BY <5>1, <5>2
      <4> QED
        BY <4>1, <4>2
    <3>2. \A v \in DOMAIN old : ~Debugged(g, v, n + 1) => z.names[v] = old[v]
      BY <2>2, <2>5, <2>8 DEF MetadataSet
    <3> DEFINE From(v, j, c, x) == /\ c < x.counters[Fn(g).debug[j].name]
                                   /\ x.names[v] = DebugName(Fn(g).debug[j].name, c)
    <3>3. \A j \in 1..n : Fn(g).debug[j].name \in DebugNames(g)
      <4>1. \A j \in 1..n : j \in 1..K
        BY <1>1, <2>1
      <4> QED
        BY <1>2, <4>1
    <3>4. ASSUME NEW v \in DOMAIN old, Debugged(g, v, n), v # d.v
          PROVE  \E j \in 1..n : \E c \in Nat : From(v, j, c, y) /\ From(v, j, c, z)
      <4>1. PICK j \in 1..n : \E c \in Nat : From(v, j, c, y)
        BY <2>2, <3>4 DEF MetadataSet
      <4>2. PICK c \in Nat : From(v, j, c, y)
        BY <4>1
      <4> DEFINE nm == Fn(g).debug[j].name
      <4>3. nm \in DebugNames(g)
        BY <3>3
      <4>4. y.counters[nm] <= z.counters[nm]
        <5> HIDE DEF nm
        <5>1. CASE nm = d.name
          BY <2>5, <2>6, <4>3, <5>1
        <5>2. CASE nm # d.name
          BY <2>5, <2>6, <4>3, <5>2
        <5> QED
          BY <5>1, <5>2
      <4>5. c < z.counters[nm]
        BY <2>6, <4>2, <4>3, <4>4
      <4>6. From(v, j, c, z)
        BY <2>5, <3>4, <4>2, <4>5
      <4> HIDE DEF From
      <4> QED
        BY <4>2, <4>6
    <3>5. /\ y.counters[d.name] \in Nat /\ n + 1 \in 1..(n + 1)
          /\ From(d.v, n + 1, y.counters[d.name], z)
      BY <2>1, <2>3, <2>5, <2>6, <2>7
    <3>6. \A v \in DOMAIN old : Debugged(g, v, n + 1) =>
            \E j \in 1..(n + 1) : \E c \in Nat : From(v, j, c, z)
      <4> HIDE DEF From
      <4> QED
        BY <2>4, <2>8, <3>4, <3>5
    <3>7. ASSUME PlainDebugNames(g), NEW v \in DOMAIN old, Debugged(g, v, n), v # d.v
          PROVE  z.names[v] # z.names[d.v]
      <4>1. PICK j \in 1..n, c \in Nat : From(v, j, c, y) /\ From(v, j, c, z)
        BY <3>4, <3>7
      <4> DEFINE nm == Fn(g).debug[j].name
                 e == y.counters[d.name]
      <4>2. /\ j \in 1..K /\ n + 1 \in 1..K /\ j # n + 1 /\ e \in Nat
            /\ nm \in DebugNames(g)
        BY <1>1, <2>1, <3>3, <3>5
      <4>3. IsVarName(nm) => c = 0
        <5> SUFFICES ASSUME IsVarName(nm) PROVE c = 0
          OBVIOUS
        <5>1. nm.n # NoNumber
          BY DEF IsVarName
        <5>2. \A i \in DOMAIN Fn(g).debug : Fn(g).debug[i].name = nm => i = j
          BY <1>1, <3>7, <4>2, <5>1 DEF PlainDebugNames
        <5>3. \A i, k \in 1..n : Fn(g).debug[i].name = nm /\ Fn(g).debug[k].name = nm => i = k
          <6>1. \A i \in 1..n : i \in DOMAIN Fn(g).debug
            BY <1>1, <2>1
          <6> QED
            BY <5>2, <6>1
        <5>4. y.counters[nm] <= 1
          BY <2>2, <4>2, <5>3 DEF MetadataSet
        <5> QED
          BY <2>6, <4>1, <4>2, <5>4
      <4>4. IsVarName(d.name) => e = 0
        <5> SUFFICES ASSUME IsVarName(d.name) PROVE e = 0
          OBVIOUS
        <5>1. d.name.n # NoNumber
          BY DEF IsVarName
        <5>2. \A i \in DOMAIN Fn(g).debug : Fn(g).debug[i].name = d.name => i = n + 1
          BY <1>1, <2>7, <3>7, <4>2, <5>1 DEF PlainDebugNames
        <5>3. \A i \in 1..n : Fn(g).debug[i].name # d.name
          <6>1. \A i \in 1..n : i \in DOMAIN Fn(g).debug /\ i # n + 1
            BY <1>1, <2>1
          <6> QED
            BY <5>2, <6>1
        <5> QED
          BY <2>2, <2>3, <5>3 DEF MetadataSet
      <4> SUFFICES ASSUME z.names[v] = z.names[d.v] PROVE FALSE
        OBVIOUS
      <4>5. DebugName(nm, c) = DebugName(Fn(g).debug[n + 1].name, e)
        BY <2>5, <2>7, <4>1
      <4>6. nm = d.name /\ c = e
        <5> HIDE DEF e
        <5> QED
          BY <1>1, <2>7, <3>7, <4>2, <4>3, <4>4, <4>5, PlainNamesDiffer
      <4> QED
        BY <2>6, <4>1, <4>6
    <3>8. PlainDebugNames(g) =>
            \A v, w \in DOMAIN old :
              Debugged(g, v, n + 1) /\ Debugged(g, w, n + 1) /\ v # w => z.names[v] # z.names[w]
      <4> SUFFICES ASSUME PlainDebugNames(g), NEW v \in DOMAIN old, NEW w \in DOMAIN old,
                          Debugged(g, v, n + 1), Debugged(g, w, n + 1), v # w
                   PROVE  z.names[v] # z.names[w]
        OBVIOUS
      <4>1. CASE v # d.v /\ w # d.v
        BY <2>2, <2>5, <2>8, <4>1 DEF MetadataSet
      <4>2. CASE v = d.v \/ w = d.v
        BY <2>8, <3>7, <4>2
      <4> QED
        BY <4>1, <4>2
    <3> QED
      BY <3>1, <3>2, <3>6, <3>8 DEF MetadataSet
  <2> QED
    BY <2>5, <2>9 DEF z, S
<1> HIDE DEF T
<1>12. K \in T /\ K <= K
  BY <1>1, <1>10, <1>11, SetInduction
<1> QED
  BY <1>12 DEF T, S, K, st

-----------------------------------------------------------------------------
(* The invariant *)

\* The order of the passes, and which functions one has visited.
Number(p) ==
  IF p = "findMetadataFunctionNames" THEN 1 ELSE
  IF p = "createFunctionParameters" THEN 2 ELSE
  IF p = "createAllocas" THEN 3 ELSE
  IF p = "createExpressions" THEN 4 ELSE
  IF p = "insertVLADecls" THEN 5 ELSE
  IF p = "findMetadataVariableNames" THEN 6 ELSE
  IF p = "fixMainParameters" THEN 7 ELSE 8

Done(n, g) == n < Number(pass) \/ (n = Number(pass) /\ g < f)

\* The pass that makes the names of such variables.
Naming(kind) == IF kind = "param" THEN 2 ELSE IF kind \in {"alloca", "vla"} THEN 3 ELSE 4

Translated(g) == {v \in DOMAIN Fn(g).vars : Done(Naming(Fn(g).vars[v].kind), g)}

TakenNames(g) ==
  {nm \in prog.globals \cup {Fn(g).debug[i].name : i \in
                                {j \in DOMAIN Fn(g).debug : Fn(g).debug[j].declare}} : IsVarName(nm)}

\* Where a variable's name is from, in the end.
IsDebugged(g, v) == Debugged(g, v, Len(Fn(g).debug))
IsMainParameter(g, v) == Fn(g).isMain /\ Fn(g).vars[v].kind = "param" /\ v \in {1, 2}
HasMainName(g, v) == Done(7, g) /\ IsMainParameter(g, v)
HasDebugName(g, v) == Done(6, g) /\ IsDebugged(g, v) /\ ~HasMainName(g, v)
HasMadeName(g, v) == ~(Done(6, g) /\ IsDebugged(g, v)) /\ ~HasMainName(g, v)

TakenOK(g) == IsFiniteSet(taken[g]) /\ taken[g] = IF Done(1, g) THEN TakenNames(g) ELSE {}

NamedOK(g) == names[g] = [v \in Translated(g) |-> names[g][v]] /\ varCount[g] \in Nat

MadeOK(g) ==
  \E num \in [Translated(g) -> 0..(varCount[g] - 1)] :
    /\ \A v, w \in Translated(g) : num[v] = num[w] => v = w
    /\ \A v \in Translated(g) :
         /\ Var(num[v]) \notin taken[g]
         /\ HasMadeName(g, v) => names[g][v] = Made(g, v, num[v])

CountersOK(g) ==
  ~Done(6, g) => counters[g] = [nm \in DebugNames(g) |-> 0]

\* The names of variables that the debug information has names for.
DebuggedOK(g) ==
  PlainDebugNames(g) =>
    /\ \A v \in Translated(g) : HasDebugName(g, v) =>
         \E j \in DOMAIN Fn(g).debug : \E c \in Nat :
           /\ IsVarName(Fn(g).debug[j].name) => c = 0
           /\ names[g][v] = DebugName(Fn(g).debug[j].name, c)
    /\ \A v, w \in Translated(g) :
         HasDebugName(g, v) /\ HasDebugName(g, w) /\ names[g][v] = names[g][w] => v = w

MainOK(g) ==
  \A v \in Translated(g) : HasMainName(g, v) => names[g][v] = <<Argc, Argv>>[v]

NamesOK(g) ==
  TakenOK(g) /\ NamedOK(g) /\ MadeOK(g) /\ CountersOK(g) /\ DebuggedOK(g) /\ MainOK(g)

\* A copied size has its variable's name until the debug information changes it.
SizesOK ==
  /\ sizeNames = [a \in {a \in Arrays : Done(3, a[1])} |-> sizeNames[a]]
  /\ \A a \in Arrays :
       Done(3, a[1]) /\ Fn(a[1]).vars[a[2]].copied
         /\ ~(Done(6, a[1]) /\ IsDebugged(a[1], SizeOf(a)))
       => sizeNames[a] = names[a[1]][SizeOf(a)]

AtPlace == prog \in Programs /\ f \in Funcs /\ pass \in Passes

Typed ==
  /\ taken = [g \in Funcs |-> taken[g]] /\ varCount = [g \in Funcs |-> varCount[g]]
  /\ names = [g \in Funcs |-> names[g]] /\ counters = [g \in Funcs |-> counters[g]]

NamesInv == AtPlace /\ Typed /\ (\A g \in Funcs : NamesOK(g)) /\ SizesOK

\* What a program is.
LEMMA FunctionIs ==
  ASSUME prog \in Programs, NEW g \in Funcs
  PROVE  /\ Funcs = 1..Len(prog.funcs) /\ Len(prog.funcs) \in Nat \ {0}
         /\ prog.globals \subseteq Names /\ IsFiniteSet(prog.globals)
         /\ DOMAIN Fn(g).vars = 1..Len(Fn(g).vars) /\ Len(Fn(g).vars) \in Nat
         /\ DOMAIN Fn(g).vars \subseteq Nat /\ IsFiniteSet(DOMAIN Fn(g).vars)
         /\ \A v \in DOMAIN Fn(g).vars : Fn(g).vars[v].kind \in Kinds
<1>1. /\ Funcs = 1..Len(prog.funcs) /\ Len(prog.funcs) \in Nat \ {0}
      /\ prog.globals \subseteq Names /\ IsFiniteSet(prog.globals)
      /\ DOMAIN Fn(g).vars = 1..Len(Fn(g).vars) /\ Len(Fn(g).vars) \in Nat
      /\ \A v \in DOMAIN Fn(g).vars : Fn(g).vars[v].kind \in Kinds
  BY ProgramsAssumption DEF Funcs, Fn
<1> DEFINE K == Len(Fn(g).vars)
<1>2. K \in Nat
  BY <1>1
<1> HIDE DEF K
<1>3. IsFiniteSet(1..K) /\ 1..K \subseteq Nat
  BY <1>2, FS_Interval
<1> QED
  BY <1>1, <1>3 DEF K

LEMMA ArrayIs ==
  ASSUME prog \in Programs, NEW a \in Arrays
  PROVE  /\ a[1] \in Funcs /\ a[2] \in DOMAIN Fn(a[1]).vars /\ a = <<a[1], a[2]>>
         /\ Fn(a[1]).vars[a[2]].kind = "vla"
         /\ SizeOf(a) \in DOMAIN Fn(a[1]).vars
         /\ Fn(a[1]).vars[SizeOf(a)].kind \in {"param", "alloca"}
         /\ Fn(a[1]).vars[a[2]].copied => Fn(a[1]).vars[SizeOf(a)].kind = "alloca"
<1>1. /\ a[1] \in Funcs /\ a[2] \in DOMAIN Fn(a[1]).vars /\ a = <<a[1], a[2]>>
      /\ Fn(a[1]).vars[a[2]].kind = "vla"
  BY DEF Arrays, VarsOf
<1>2. \A g \in Funcs : \A v \in DOMAIN Fn(g).vars :
        Fn(g).vars[v].kind = "vla" =>
          /\ Fn(g).vars[v].size \in DOMAIN Fn(g).vars
          /\ Fn(g).vars[Fn(g).vars[v].size].kind \in
               IF Fn(g).vars[v].copied THEN {"alloca"} ELSE {"param", "alloca"}
  BY ProgramsAssumption DEF Funcs, Fn
<1>3. /\ Fn(a[1]).vars[a[2]].size \in DOMAIN Fn(a[1]).vars
      /\ Fn(a[1]).vars[Fn(a[1]).vars[a[2]].size].kind \in
               IF Fn(a[1]).vars[a[2]].copied THEN {"alloca"} ELSE {"param", "alloca"}
  BY <1>1, <1>2
<1> QED
  BY <1>1, <1>3 DEF SizeOf

LEMMA DebugIs ==
  ASSUME prog \in Programs, NEW g \in Funcs
  PROVE  Fn(g).debug \in Seq([v : DOMAIN Fn(g).vars, name : Names, declare : BOOLEAN])
BY ProgramsAssumption DEF Funcs, Fn

LEMMA DebugElementIs ==
  ASSUME prog \in Programs, NEW g \in Funcs
  PROVE  /\ Len(Fn(g).debug) \in Nat /\ DOMAIN Fn(g).debug = 1..Len(Fn(g).debug)
         /\ \A i \in DOMAIN Fn(g).debug :
              /\ Fn(g).debug[i].v \in DOMAIN Fn(g).vars /\ Fn(g).debug[i].name \in Names
              /\ Fn(g).debug[i].name \in DebugNames(g)
<1> DEFINE D == [v : DOMAIN Fn(g).vars, name : Names, declare : BOOLEAN]
           debug == Fn(g).debug
<1>1. debug \in Seq(D)
  BY DebugIs
<1>2. \A i \in DOMAIN debug : debug[i].name \in DebugNames(g)
  BY DEF DebugNames
<1>3. \A d \in D : d.v \in DOMAIN Fn(g).vars /\ d.name \in Names
  OBVIOUS
<1> HIDE DEF D, debug
<1>4. \A i \in DOMAIN debug : debug[i] \in D
  BY <1>1, ElementOf
<1>5. Len(debug) \in Nat /\ DOMAIN debug = 1..Len(debug)
  BY <1>1
<1> QED
  BY <1>2, <1>3, <1>4, <1>5 DEF debug

\* A step of a pass.
LEMMA Progress ==
  ASSUME AtPlace, prog' = prog, NEW next \in Passes, Number(next) = Number(pass) + 1,
         NextFunction(next)
  PROVE  /\ AtPlace'
         /\ \A n \in 1..7 : \A g \in Funcs :
              Done(n, g)' <=> Done(n, g) \/ (n = Number(pass) /\ g = f)
<1>1. Funcs = 1..Len(prog.funcs) /\ Len(prog.funcs) \in Nat \ {0} /\ Funcs' = Funcs
  BY FunctionIs DEF AtPlace, Funcs
<1>2. Number(pass) \in 1..8 /\ f \in 1..Len(prog.funcs)
  BY <1>1 DEF Number, AtPlace
<1>3. CASE f < Len(prog.funcs) /\ f' = f + 1 /\ pass' = pass
  <2>1. AtPlace'
    BY <1>1, <1>2, <1>3 DEF AtPlace
  <2>2. Number(pass)' = Number(pass)
    BY <1>3
  <2> QED
    BY <1>1, <1>2, <1>3, <2>1, <2>2 DEF Done
<1>4. CASE ~(f < Len(prog.funcs)) /\ f' = 1 /\ pass' = next
  <2>1. AtPlace'
    BY <1>1, <1>2, <1>4 DEF AtPlace
  <2>2. Number(pass)' = Number(pass) + 1
    BY <1>4
  <2>3. \A n \in 1..7 : \A g \in Funcs : (n < Number(pass) + 1 \/ (n = Number(pass) + 1 /\ g < 1))
           <=> (n < Number(pass) \/ (n = Number(pass) /\ g < f)) \/ (n = Number(pass) /\ g = f)
    BY <1>1, <1>2, <1>4
  <2> QED
    BY <1>4, <2>1, <2>2, <2>3 DEF Done
<1> QED
  BY <1>3, <1>4 DEF NextFunction

\* What a pass does to one function leaves the others' names alone.
Same(g) ==
  /\ taken'[g] = taken[g] /\ varCount'[g] = varCount[g]
  /\ names'[g] = names[g] /\ counters'[g] = counters[g]

\* What a function's debug names are called does not change with the state.
LEMMA SamePlainNames ==
  ASSUME NEW g, Fn(g)' = Fn(g)
  PROVE  PlainDebugNames(g)' <=> PlainDebugNames(g)
BY DEF PlainDebugNames, Argc, Argv, IsVarName

LEMMA SameNames ==
  ASSUME prog' = prog, prog \in Programs, NEW g \in Funcs, NamesOK(g), Same(g),
         \A n \in {1, 2, 3, 4, 6, 7} : Done(n, g)' <=> Done(n, g)
  PROVE  NamesOK(g)'
<1>1. Fn(g)' = Fn(g) /\ DebugNames(g)' = DebugNames(g) /\ TakenNames(g)' = TakenNames(g)
  BY DEF Fn, DebugNames, TakenNames
<1>2. \A k : Naming(k) \in {2, 3, 4}
  BY DEF Naming
<1>3. Translated(g)' = Translated(g)
  BY <1>1, <1>2 DEF Translated
<1>4. \A v : /\ HasMainName(g, v)' <=> HasMainName(g, v)
             /\ HasDebugName(g, v)' <=> HasDebugName(g, v)
             /\ HasMadeName(g, v)' <=> HasMadeName(g, v)
  BY <1>1 DEF HasMainName, HasDebugName, HasMadeName, IsMainParameter, IsDebugged, Debugged
<1>5. TakenOK(g)'
  BY <1>1 DEF NamesOK, TakenOK, Same
<1>6. NamedOK(g)'
  BY <1>3 DEF NamesOK, NamedOK, Same
<1>7. MadeOK(g)'
  <2>1. PICK num \in [Translated(g) -> 0..(varCount[g] - 1)] :
          /\ \A v, w \in Translated(g) : num[v] = num[w] => v = w
          /\ \A v \in Translated(g) :
               /\ Var(num[v]) \notin taken[g]
               /\ HasMadeName(g, v) => names[g][v] = Made(g, v, num[v])
    BY DEF NamesOK, MadeOK
  <2>2. \A v, n : Made(g, v, n)' = Made(g, v, n) /\ Var(n)' = Var(n)
    BY <1>1 DEF Made, Var
  <2> QED
    BY <1>3, <1>4, <2>1, <2>2 DEF MadeOK, Same
<1>8. CountersOK(g)'
  BY <1>1 DEF NamesOK, CountersOK, Same
<1>9. PlainDebugNames(g)' <=> PlainDebugNames(g)
  BY <1>1 DEF PlainDebugNames, Argc, Argv, IsVarName
<1>10. DebuggedOK(g)'
  BY <1>1, <1>3, <1>4, <1>9 DEF NamesOK, DebuggedOK, Same
<1>11. MainOK(g)'
  BY <1>3, <1>4 DEF NamesOK, MainOK, Same, Argc, Argv
<1> QED
  BY <1>5, <1>6, <1>7, <1>8, <1>10, <1>11 DEF NamesOK

LEMMA NamesInit == VAInit => NamesInv
<1> SUFFICES ASSUME VAInit PROVE NamesInv
  OBVIOUS
<1>1. prog \in Programs /\ f = 1 /\ pass = "findMetadataFunctionNames"
  BY DEF VAInit
<1>2. AtPlace
  BY <1>1, FunctionIs, ProgramsAssumption DEF AtPlace, Passes, Funcs
<1>3. ASSUME NEW g \in Funcs, NEW n \in 1..7 PROVE ~Done(n, g)
  <2>1. g \in Nat /\ ~(g < 1)
    BY <1>1, FunctionIs
  <2> QED
    BY <1>1, <2>1 DEF Done, Number
<1>4. \A k : Naming(k) \in 1..7
  BY DEF Naming
<1>5. Typed
  BY DEF VAInit, Typed
<1>6. ASSUME NEW g \in Funcs PROVE NamesOK(g)
  <2>1. Translated(g) = {}
    BY <1>3, <1>4 DEF Translated
  <2>2. taken[g] = {} /\ varCount[g] = 0 /\ names[g] = <<>>
        /\ counters[g] = [nm \in DebugNames(g) |-> 0]
    BY DEF VAInit, DebugNames
  <2>3. TakenOK(g)
    BY <1>3, <2>2, FS_EmptySet DEF TakenOK
  <2>4. NamedOK(g)
    BY <2>1, <2>2 DEF NamedOK
  <2>5. MadeOK(g)
    <3> DEFINE num == [v \in Translated(g) |-> 0]
    <3>1. num \in [Translated(g) -> 0..(varCount[g] - 1)]
      BY <2>1
    <3> QED
      BY <2>1, <3>1 DEF MadeOK
  <2>6. CountersOK(g) /\ DebuggedOK(g) /\ MainOK(g)
    BY <2>1, <2>2 DEF CountersOK, DebuggedOK, MainOK
  <2> QED
    BY <2>3, <2>4, <2>5, <2>6 DEF NamesOK
<1>7. SizesOK
  <2>1. ASSUME NEW a \in Arrays PROVE ~Done(3, a[1])
    BY <1>1, <1>3, ArrayIs
  <2>2. sizeNames = << >>
    BY DEF VAInit
  <2> QED
    BY <2>1, <2>2 DEF SizesOK
<1> QED
  BY <1>2, <1>5, <1>6, <1>7 DEF NamesInv

LEMMA VarsAre ==
  ASSUME prog \in Programs, NEW g \in Funcs, NEW kinds
  PROVE  VarsOf(g, kinds) \subseteq Nat /\ IsFiniteSet(VarsOf(g, kinds))
         /\ VarsOf(g, kinds) \subseteq DOMAIN Fn(g).vars
<1>1. VarsOf(g, kinds) \subseteq DOMAIN Fn(g).vars
  BY DEF VarsOf
<1> QED
  BY <1>1, FunctionIs, FS_Subset

LEMMA TakenFinite ==
  ASSUME prog \in Programs, NEW g \in Funcs
  PROVE  IsFiniteSet(TakenNames(g))
<1> DEFINE K == Len(Fn(g).debug)
           I == 1..K
           h == [i \in I |-> Fn(g).debug[i].name]
           D == {h[i] : i \in I}
<1>1. K \in Nat /\ DOMAIN Fn(g).debug = 1..K
  BY DebugElementIs
<1> HIDE DEF K
<1>2. IsFiniteSet(I)
  BY <1>1, FS_Interval
<1>3. TakenNames(g) \subseteq prog.globals \cup D
  BY <1>1 DEF TakenNames
<1>4. h \in Surjection(I, D)
  BY DEF Surjection
<1> HIDE DEF h, I, D
<1>5. IsFiniteSet(D)
  BY <1>2, <1>4, FS_Surjection
<1>6. IsFiniteSet(prog.globals)
  BY FunctionIs
<1> QED
  BY <1>3, <1>5, <1>6, FS_Union, FS_Subset

\* A pass that makes names.
LEMMA NamesMade ==
  ASSUME NamesInv, prog' = prog, taken' = taken, counters' = counters,
         NEW kinds, \A k \in Kinds : k \in kinds <=> Naming(k) = Number(pass),
         Number(pass) \in 2..4, GetVarNames(VarsOf(f, kinds)),
         \A n \in 1..7 : \A g \in Funcs :
           Done(n, g)' <=> Done(n, g) \/ (n = Number(pass) /\ g = f)
  PROVE  /\ Typed' /\ \A g \in Funcs : NamesOK(g)'
         /\ \A g \in Funcs : \A v \in Translated(g) : names'[g][v] = names[g][v]
<1> DEFINE vs == VarsOf(f, kinds)
<1>1. prog \in Programs /\ f \in Funcs /\ Typed
  BY DEF NamesInv, AtPlace
<1>2. /\ TakenOK(f) /\ NamedOK(f) /\ MadeOK(f) /\ CountersOK(f)
      /\ DOMAIN names[f] = Translated(f) /\ varCount[f] \in Nat /\ IsFiniteSet(taken[f])
  <2>1. TakenOK(f) /\ NamedOK(f) /\ MadeOK(f) /\ CountersOK(f)
    BY <1>1 DEF NamesInv, NamesOK
  <2>2. IsFiniteSet(taken[f])
    BY <2>1 DEF TakenOK
  <2>3. varCount[f] \in Nat
    BY <2>1 DEF NamedOK
  <2>4. DOMAIN names[f] = Translated(f)
    BY <2>1 DEF NamedOK
  <2> QED
    BY <2>1, <2>2, <2>3, <2>4
<1>3. f \in DOMAIN names /\ f \in DOMAIN varCount
  BY <1>1 DEF Typed
<1>4. vs \subseteq Nat /\ IsFiniteSet(vs)
  BY <1>1, VarsAre
<1> DEFINE Numbered(num) ==
             /\ \A v \in vs \ DOMAIN names[f] :
                  /\ names'[f][v] = Made(f, v, num[v])
                  /\ varCount[f] <= num[v] /\ num[v] < varCount'[f]
                  /\ Var(num[v]) \notin taken[f]
             /\ \A v, w \in vs : num[v] = num[w] => v = w
<1>5. /\ varCount' = [varCount EXCEPT ![f] = varCount'[f]]
      /\ names' = [names EXCEPT ![f] = names'[f]]
      /\ varCount'[f] \in Nat /\ varCount[f] <= varCount'[f]
      /\ DOMAIN names'[f] = DOMAIN names[f] \cup vs
      /\ \A v \in DOMAIN names[f] : names'[f][v] = names[f][v]
      /\ \E num \in [vs -> Nat] : Numbered(num)
  BY <1>2, <1>3, <1>4, GetVarNamesIs
<1>6. /\ Funcs' = Funcs /\ \A g : Fn(g)' = Fn(g)
      /\ \A k : Naming(k) \in {2, 3, 4}
  BY DEF Funcs, Fn, Naming
<1>7. Typed'
  BY <1>1, <1>5, <1>6 DEF Typed
<1>8. ASSUME NEW g \in Funcs, g # f PROVE NamesOK(g)' /\ names'[g] = names[g]
  <2>1. Same(g)
    BY <1>1, <1>5, <1>8 DEF Same, Typed
  <2>2. \A n \in {1, 2, 3, 4, 6, 7} : Done(n, g)' <=> Done(n, g)
    BY <1>8
  <2>3. NamesOK(g)
    BY DEF NamesInv
  <2> QED
    BY <1>1, <2>1, <2>2, <2>3, SameNames DEF Same
<1> SUFFICES ASSUME NEW h \in Funcs, h = f
             PROVE  NamesOK(h)'
  BY <1>1, <1>2, <1>5, <1>7, <1>8
<1>9. vs \cap Translated(f) = {} /\ Translated(h)' = Translated(f) \cup vs
  <2>1. \A v \in DOMAIN Fn(f).vars : Fn(f).vars[v].kind \in Kinds
    BY <1>1, FunctionIs
  <2>2. ~Done(Number(pass), f)
    BY <1>1, FunctionIs DEF Done
  <2>3. vs = {v \in DOMAIN Fn(f).vars : Naming(Fn(f).vars[v].kind) = Number(pass)}
    BY <2>1 DEF VarsOf
  <2>4. \A v \in DOMAIN Fn(f).vars : Naming(Fn(f).vars[v].kind) \in 1..7
    BY <1>6
  <2> HIDE DEF vs
  <2> DEFINE After(n) == n < Number(pass)' \/ (n = Number(pass)' /\ h < f')
  <2>5. Translated(h)' = {v \in DOMAIN Fn(h).vars : After(Naming(Fn(h).vars[v].kind))}
    BY <1>6 DEF Translated, Done
  <2>6. \A n \in 1..7 : After(n) <=> Done(n, f) \/ n = Number(pass)
    <3>1. \A n \in 1..7 : Done(n, h)' <=> Done(n, f) \/ n = Number(pass)
      BY <1>1
    <3>2. \A n \in 1..7 : Done(n, h)' <=> After(n)
      BY DEF Done
    <3> QED
      BY <3>1, <3>2
  <2> HIDE DEF After
  <2> QED
    BY <1>1, <2>2, <2>3, <2>4, <2>5, <2>6 DEF Translated
<1>10. ~Done(6, h)' /\ ~Done(7, h)' /\ ~Done(6, f) /\ ~Done(7, f)
       /\ (Done(1, h)' <=> Done(1, f))
  <2>1. ~Done(6, f) /\ ~Done(7, f)
    BY DEF Done
  <2> QED
    BY <1>1, <2>1
<1>11. TakenOK(h)'
  <2>1. TakenNames(h)' = TakenNames(f)
    BY <1>6 DEF TakenNames
  <2> QED
    BY <1>2, <1>10, <2>1 DEF TakenOK
<1>12. NamedOK(h)'
  <2>1. names'[f] = [v \in DOMAIN names'[f] |-> names'[f][v]]
    BY <1>3 DEF GetVarNames
  <2> QED
    BY <1>2, <1>5, <1>9, <2>1 DEF NamedOK
<1>13. MadeOK(h)'
  <2>1. PICK num \in [vs -> Nat] : Numbered(num)
    BY <1>5
  <2>2. PICK old \in [Translated(f) -> 0..(varCount[f] - 1)] :
          /\ \A v, w \in Translated(f) : old[v] = old[w] => v = w
          /\ \A v \in Translated(f) :
               /\ Var(old[v]) \notin taken[f]
               /\ HasMadeName(f, v) => names[f][v] = Made(f, v, old[v])
    BY <1>2 DEF MadeOK
  <2> DEFINE n == [v \in Translated(f) \cup vs |-> IF v \in Translated(f) THEN old[v] ELSE num[v]]
  <2>3. \A v \in Translated(f) : n[v] = old[v] /\ n[v] \in Nat /\ n[v] < varCount[f]
    BY <1>2, <2>2
  <2>4. \A v \in vs : n[v] = num[v] /\ n[v] \in Nat /\ varCount[f] <= n[v] /\ n[v] < varCount'[f]
    BY <1>2, <1>9, <2>1
  <2>5. n \in [Translated(f) \cup vs -> 0..(varCount'[f] - 1)]
    BY <1>2, <1>5, <2>3, <2>4
  <2> HIDE DEF n, vs
  <2>6. \A v, w \in Translated(f) \cup vs : n[v] = n[w] => v = w
    BY <1>2, <2>1, <2>2, <2>3, <2>4
  <2>7. \A v : HasMadeName(h, v)' /\ HasMadeName(f, v)
    BY <1>10 DEF HasMadeName, HasMainName
  <2>8. \A v, k : Made(h, v, k)' = Made(f, v, k) /\ Var(k)' = Var(k)
    BY <1>6 DEF Made, Var
  <2>9. \A v \in Translated(f) \cup vs :
          Var(n[v]) \notin taken[f] /\ names'[f][v] = Made(f, v, n[v])
    BY <1>2, <1>5, <1>9, <2>1, <2>2, <2>3, <2>4, <2>7
  <2>10. \E m \in [Translated(h)' -> 0..(varCount'[f] - 1)] :
           /\ \A v, w \in Translated(h)' : m[v] = m[w] => v = w
           /\ \A v \in Translated(h)' :
                Var(m[v]) \notin taken[f] /\ names'[f][v] = Made(f, v, m[v])
    BY <1>9, <2>5, <2>6, <2>9
  <2> QED
    BY <2>8, <2>10 DEF MadeOK
<1>14. CountersOK(h)'
  BY <1>2, <1>6, <1>10 DEF CountersOK, DebugNames
<1>15. DebuggedOK(h)' /\ MainOK(h)'
  BY <1>10 DEF DebuggedOK, MainOK, HasDebugName, HasMainName
<1> QED
  BY <1>11, <1>12, <1>13, <1>14, <1>15 DEF NamesOK

LEMMA SameProgram ==
  ASSUME prog' = prog
  PROVE  /\ Arrays' = Arrays /\ Funcs' = Funcs /\ (\A a : SizeOf(a)' = SizeOf(a))
         /\ \A g, v : IsDebugged(g, v)' <=> IsDebugged(g, v)
         /\ \A g : Fn(g)' = Fn(g)
BY DEF Arrays, VarsOf, Funcs, Fn, SizeOf, IsDebugged, Debugged

LEMMA SameSizes ==
  ASSUME NamesInv, prog' = prog, sizeNames' = sizeNames,
         \A g \in Funcs : (Done(3, g)' <=> Done(3, g)) /\ (Done(6, g) => Done(6, g)'),
         \A g \in Funcs : \A v \in Translated(g) :
           Fn(g).vars[v].kind = "alloca" /\ ~(Done(6, g)' /\ IsDebugged(g, v)) =>
             names'[g][v] = names[g][v]
  PROVE  SizesOK'
<1>1. prog \in Programs /\ SizesOK
  BY DEF NamesInv, AtPlace
<1>2. /\ Arrays' = Arrays /\ (\A a : SizeOf(a)' = SizeOf(a))
      /\ \A g, v : IsDebugged(g, v)' <=> IsDebugged(g, v)
      /\ \A g : Fn(g)' = Fn(g)
  BY SameProgram
<1>3. \A a \in Arrays : (Done(3, a[1])' <=> Done(3, a[1])) /\ (Done(6, a[1]) => Done(6, a[1])')
  BY <1>1, ArrayIs
<1>4. sizeNames' = [a \in {a \in Arrays' : Done(3, a[1])'} |-> sizeNames'[a]]
  BY <1>1, <1>2, <1>3 DEF SizesOK
<1>5. ASSUME NEW a \in Arrays, Done(3, a[1]), Fn(a[1]).vars[a[2]].copied,
             ~(Done(6, a[1])' /\ IsDebugged(a[1], SizeOf(a)))
      PROVE  sizeNames'[a] = names'[a[1]][SizeOf(a)]
  <2>1. /\ a[1] \in Funcs /\ SizeOf(a) \in DOMAIN Fn(a[1]).vars
        /\ Fn(a[1]).vars[SizeOf(a)].kind = "alloca"
    BY <1>1, <1>5, ArrayIs
  <2>2. SizeOf(a) \in Translated(a[1])
    BY <1>5, <2>1 DEF Translated, Naming
  <2>3. sizeNames[a] = names[a[1]][SizeOf(a)]
    BY <1>1, <1>3, <1>5 DEF SizesOK
  <2> QED
    BY <1>5, <2>1, <2>2, <2>3
<1> QED
  BY <1>2, <1>3, <1>4, <1>5 DEF SizesOK

LEMMA FindMetadataFunctionNamesStep ==
  ASSUME NamesInv, FindMetadataFunctionNames
  PROVE  NamesInv'
<1>1. /\ prog \in Programs /\ f \in Funcs /\ Typed /\ AtPlace
      /\ pass = "findMetadataFunctionNames" /\ Number(pass) = 1 /\ prog' = prog
      /\ taken' = [taken EXCEPT ![f] = TakenNames(f)]
      /\ UNCHANGED <<varCount, names, counters, sizeNames>>
      /\ NextFunction("createFunctionParameters")
  BY DEF NamesInv, AtPlace, FindMetadataFunctionNames, Running, Number, TakenNames
<1>2. /\ AtPlace'
      /\ \A n \in 1..7 : \A g \in Funcs : Done(n, g)' <=> Done(n, g) \/ (n = 1 /\ g = f)
  <2>1. "createFunctionParameters" \in Passes /\ Number("createFunctionParameters") = 2
    BY DEF Passes, Number
  <2> QED
    BY <1>1, <2>1, Progress
<1>3. Funcs' = Funcs /\ \A g : Fn(g)' = Fn(g)
  BY <1>1 DEF Funcs, Fn
<1>4. Typed'
  BY <1>1, <1>3 DEF Typed
<1>5. ASSUME NEW g \in Funcs, g # f PROVE NamesOK(g)'
  <2>1. Same(g)
    BY <1>1, <1>5 DEF Same, Typed
  <2> QED
    BY <1>1, <1>2, <1>5, <2>1, SameNames DEF NamesInv
<1>6. ASSUME NEW g \in Funcs, g = f PROVE NamesOK(g)'
  <2>1. \A n \in 2..7 : ~Done(n, g) /\ ~Done(n, g)'
    <3>1. \A n \in 2..7 : ~Done(n, g)
      BY <1>1 DEF Done
    <3> QED
      BY <1>2, <3>1
  <2>2. \A k : Naming(k) \in 2..7
    BY DEF Naming
  <2>3. Translated(g)' = {} /\ Translated(g) = {}
    BY <2>1, <2>2 DEF Translated
  <2>4. NamedOK(g) /\ CountersOK(g)
    BY DEF NamesInv, NamesOK
  <2>5. TakenOK(g)'
    <3>1. Done(1, g)'
      BY <1>2, <1>6
    <3>2. TakenNames(g)' = TakenNames(g)
      BY <1>1, <1>3 DEF TakenNames
    <3>3. taken'[g] = TakenNames(g)
      BY <1>1, <1>6 DEF Typed
    <3> QED
      BY <1>1, <3>1, <3>2, <3>3, TakenFinite DEF TakenOK
  <2>6. NamedOK(g)'
    BY <1>1, <2>3, <2>4 DEF NamedOK
  <2>7. MadeOK(g)'
    <3> DEFINE num == [v \in {} |-> 0]
    <3>1. num \in [Translated(g)' -> 0..(varCount'[g] - 1)]
      BY <2>3
    <3> QED
      BY <2>3, <3>1 DEF MadeOK
  <2>8. CountersOK(g)' /\ DebuggedOK(g)' /\ MainOK(g)'
    <3>1. DebugNames(g)' = DebugNames(g)
      BY <1>3 DEF DebugNames
    <3> QED
      BY <1>1, <2>1, <2>3, <2>4, <3>1 DEF CountersOK, DebuggedOK, MainOK
  <2> QED
    BY <2>5, <2>6, <2>7, <2>8 DEF NamesOK
<1>7. SizesOK'
  BY <1>1, <1>2, SameSizes
<1> QED
  BY <1>2, <1>3, <1>4, <1>5, <1>6, <1>7 DEF NamesInv

LEMMA CreateFunctionParametersStep ==
  ASSUME NamesInv, CreateFunctionParameters
  PROVE  NamesInv'
<1>1. /\ AtPlace /\ Number(pass) = 2 /\ prog' = prog
      /\ UNCHANGED <<taken, counters, sizeNames>>
      /\ GetVarNames(VarsOf(f, {"param"})) /\ NextFunction("createAllocas")
  BY DEF NamesInv, CreateFunctionParameters, Running, Number
<1>2. /\ AtPlace'
      /\ \A n \in 1..7 : \A g \in Funcs : Done(n, g)' <=> Done(n, g) \/ (n = Number(pass) /\ g = f)
  <2>1. "createAllocas" \in Passes /\ Number("createAllocas") = 3
    BY DEF Passes, Number
  <2> QED
    BY <1>1, <2>1, Progress
<1>3. \A k \in Kinds : k \in {"param"} <=> Naming(k) = Number(pass)
  BY <1>1 DEF Naming, Kinds
<1>4. /\ Typed' /\ \A g \in Funcs : NamesOK(g)'
      /\ \A g \in Funcs : \A v \in Translated(g) : names'[g][v] = names[g][v]
  BY <1>1, <1>2, <1>3, NamesMade
<1>5. SizesOK'
  BY <1>1, <1>2, <1>4, SameSizes
<1> QED
  BY <1>1, <1>2, <1>4, <1>5 DEF NamesInv, Funcs

LEMMA CreateExpressionsStep ==
  ASSUME NamesInv, CreateExpressions
  PROVE  NamesInv'
<1>1. /\ AtPlace /\ Number(pass) = 4 /\ prog' = prog
      /\ UNCHANGED <<taken, counters, sizeNames>>
      /\ GetVarNames(VarsOf(f, {"phi", "temp"})) /\ NextFunction("insertVLADecls")
  BY DEF NamesInv, CreateExpressions, Running, Number
<1>2. /\ AtPlace'
      /\ \A n \in 1..7 : \A g \in Funcs : Done(n, g)' <=> Done(n, g) \/ (n = Number(pass) /\ g = f)
  <2>1. "insertVLADecls" \in Passes /\ Number("insertVLADecls") = 5
    BY DEF Passes, Number
  <2> QED
    BY <1>1, <2>1, Progress
<1>3. \A k \in Kinds : k \in {"phi", "temp"} <=> Naming(k) = Number(pass)
  BY <1>1 DEF Naming, Kinds
<1>4. /\ Typed' /\ \A g \in Funcs : NamesOK(g)'
      /\ \A g \in Funcs : \A v \in Translated(g) : names'[g][v] = names[g][v]
  BY <1>1, <1>2, <1>3, NamesMade
<1>5. SizesOK'
  BY <1>1, <1>2, <1>4, SameSizes
<1> QED
  BY <1>1, <1>2, <1>4, <1>5 DEF NamesInv, Funcs

LEMMA CreateAllocasStep ==
  ASSUME NamesInv, CreateAllocas
  PROVE  NamesInv'
<1>1. /\ AtPlace /\ Number(pass) = 3 /\ prog' = prog /\ prog \in Programs /\ f \in Funcs
      /\ UNCHANGED <<taken, counters>>
      /\ GetVarNames(VarsOf(f, {"alloca", "vla"})) /\ NextFunction("createExpressions")
      /\ sizeNames' = [a \in DOMAIN sizeNames \cup {<<f, v>> : v \in VarsOf(f, {"vla"})} |->
                     IF a[1] = f THEN names'[f][SizeOf(a)] ELSE sizeNames[a]]
  BY DEF NamesInv, AtPlace, CreateAllocas, Running, Number
<1>2. /\ AtPlace'
      /\ \A n \in 1..7 : \A g \in Funcs : Done(n, g)' <=> Done(n, g) \/ (n = Number(pass) /\ g = f)
  <2>1. "createExpressions" \in Passes /\ Number("createExpressions") = 4
    BY DEF Passes, Number
  <2> QED
    BY <1>1, <2>1, Progress
<1>3. \A k \in Kinds : k \in {"alloca", "vla"} <=> Naming(k) = Number(pass)
  BY <1>1 DEF Naming, Kinds
<1>4. /\ Typed' /\ \A g \in Funcs : NamesOK(g)'
      /\ \A g \in Funcs : \A v \in Translated(g) : names'[g][v] = names[g][v]
  BY <1>1, <1>2, <1>3, NamesMade
<1>5. /\ Arrays' = Arrays /\ Funcs' = Funcs /\ (\A a : SizeOf(a)' = SizeOf(a))
      /\ \A g, v : IsDebugged(g, v)' <=> IsDebugged(g, v)
      /\ \A g : Fn(g)' = Fn(g)
  BY <1>1, SameProgram
<1>6. SizesOK
  BY DEF NamesInv
<1>7. \A a \in Arrays : /\ a[1] \in Funcs /\ (Done(3, a[1])' <=> Done(3, a[1]) \/ a[1] = f)
                        /\ Done(6, a[1]) => Done(6, a[1])'
  BY <1>1, <1>2, ArrayIs
<1>8. {<<f, v>> : v \in VarsOf(f, {"vla"})} = {a \in Arrays : a[1] = f}
  <2>1. \A a \in Arrays : a[1] \in Funcs /\ a[2] \in VarsOf(a[1], {"vla"}) /\ a = <<a[1], a[2]>>
    BY <1>1, ArrayIs DEF VarsOf
  <2>2. \A v \in VarsOf(f, {"vla"}) : <<f, v>> \in Arrays
    BY <1>1 DEF Arrays
  <2> QED
    BY <2>1, <2>2
<1>9. DOMAIN sizeNames \cup {<<f, v>> : v \in VarsOf(f, {"vla"})} = {a \in Arrays : Done(3, a[1])'}
  BY <1>6, <1>7, <1>8 DEF SizesOK
<1>10. sizeNames' = [a \in {a \in Arrays : Done(3, a[1])'} |-> sizeNames'[a]]
  <2>1. sizeNames' = [a \in DOMAIN sizeNames' |-> sizeNames'[a]]
        /\ DOMAIN sizeNames' = DOMAIN sizeNames \cup {<<f, v>> : v \in VarsOf(f, {"vla"})}
    BY <1>1
  <2> QED
    BY <1>9, <2>1
<1>11. ASSUME NEW a \in Arrays, Done(3, a[1])', Fn(a[1]).vars[a[2]].copied,
              ~(Done(6, a[1])' /\ IsDebugged(a[1], SizeOf(a)))
      PROVE  sizeNames'[a] = names'[a[1]][SizeOf(a)]
  <2>1. a \in DOMAIN sizeNames \cup {<<f, v>> : v \in VarsOf(f, {"vla"})}
    BY <1>9, <1>11
  <2>2. CASE a[1] = f
    BY <1>1, <2>1, <2>2
  <2>3. CASE a[1] # f
    <3>1. Done(3, a[1]) /\ sizeNames'[a] = sizeNames[a]
      BY <1>1, <1>7, <1>11, <2>1, <2>3
    <3>2. /\ a[1] \in Funcs /\ SizeOf(a) \in DOMAIN Fn(a[1]).vars
          /\ Fn(a[1]).vars[SizeOf(a)].kind = "alloca"
      BY <1>1, <1>11, ArrayIs
    <3>3. SizeOf(a) \in Translated(a[1])
      BY <3>1, <3>2 DEF Translated, Naming
    <3> QED
      BY <1>4, <1>6, <1>7, <1>11, <3>1, <3>2, <3>3 DEF SizesOK
  <2> QED
    BY <2>2, <2>3
<1>12. SizesOK'
  BY <1>5, <1>10, <1>11 DEF SizesOK
<1> QED
  BY <1>2, <1>4, <1>5, <1>12 DEF NamesInv

LEMMA InsertVLADeclsStep ==
  ASSUME NamesInv, InsertVLADecls
  PROVE  NamesInv'
<1>1. /\ AtPlace /\ Number(pass) = 5 /\ prog' = prog /\ prog \in Programs
      /\ UNCHANGED <<taken, varCount, names, counters, sizeNames>>
      /\ NextFunction("findMetadataVariableNames")
  BY DEF NamesInv, AtPlace, InsertVLADecls, Running, Number
<1>2. /\ AtPlace'
      /\ \A n \in 1..7 : \A g \in Funcs : Done(n, g)' <=> Done(n, g) \/ (n = Number(pass) /\ g = f)
  <2>1. "findMetadataVariableNames" \in Passes /\ Number("findMetadataVariableNames") = 6
    BY DEF Passes, Number
  <2> QED
    BY <1>1, <2>1, Progress
<1>3. Funcs' = Funcs
  BY <1>1, SameProgram
<1>4. Typed'
  BY <1>1, <1>3 DEF NamesInv, Typed
<1>5. ASSUME NEW g \in Funcs PROVE NamesOK(g)'
  <2>1. Same(g)
    BY <1>1 DEF Same
  <2> QED
    BY <1>1, <1>2, <2>1, SameNames DEF NamesInv
<1>6. SizesOK'
  BY <1>1, <1>2, SameSizes
<1> QED
  BY <1>2, <1>3, <1>4, <1>5, <1>6 DEF NamesInv

\* Once the statements are translated, every variable has a name.
LEMMA AllTranslated ==
  ASSUME prog \in Programs, NEW g \in Funcs, \A n \in 2..4 : Done(n, g)
  PROVE  Translated(g) = DOMAIN Fn(g).vars
<1>1. \A k : Naming(k) \in 2..4
  BY DEF Naming
<1> QED
  BY <1>1 DEF Translated

LEMMA FindMetadataVariableNamesStep ==
  ASSUME NamesInv, FindMetadataVariableNames
  PROVE  NamesInv'
<1> DEFINE first == [names |-> names[f], counters |-> counters[f]]
           K == Len(Fn(f).debug)
           st == Metadata(Fn(f).debug, first)[K]
<1>1. /\ AtPlace /\ Number(pass) = 6 /\ prog' = prog /\ prog \in Programs /\ f \in Funcs
      /\ UNCHANGED <<taken, varCount, sizeNames>> /\ Typed
      /\ NextFunction("fixMainParameters")
      /\ names' = [names EXCEPT ![f] = st.names]
      /\ counters' = [counters EXCEPT ![f] = st.counters]
  BY DEF NamesInv, AtPlace, FindMetadataVariableNames, Running, Number, Metadata
<1>2. /\ AtPlace'
      /\ \A n \in 1..7 : \A g \in Funcs : Done(n, g)' <=> Done(n, g) \/ (n = 6 /\ g = f)
  <2>1. "fixMainParameters" \in Passes /\ Number("fixMainParameters") = 7
    BY DEF Passes, Number
  <2> QED
    BY <1>1, <2>1, Progress
<1>3. Funcs' = Funcs /\ \A g : Fn(g)' = Fn(g)
  BY <1>1, SameProgram
<1>4. Typed'
  BY <1>1, <1>3 DEF Typed
<1>5. ASSUME NEW g \in Funcs, g # f PROVE NamesOK(g)' /\ names'[g] = names[g]
  <2>1. Same(g) /\ names'[g] = names[g]
    BY <1>1, <1>5 DEF Same, Typed
  <2> QED
    BY <1>1, <1>2, <1>5, <2>1, SameNames DEF NamesInv
<1>6. /\ ~Done(6, f) /\ ~Done(7, f) /\ Done(1, f) /\ (\A n \in 2..4 : Done(n, f))
  <2>1. Number(pass) \in Nat /\ f \in Nat
    BY <1>1, FunctionIs
  <2> QED
    BY <1>1, <2>1 DEF Done
<1>7. /\ Translated(f) = DOMAIN Fn(f).vars /\ TakenOK(f) /\ NamedOK(f) /\ MadeOK(f) /\ CountersOK(f)
  BY <1>1, <1>6, AllTranslated DEF NamesInv, NamesOK
<1>8. DOMAIN names[f] = DOMAIN Fn(f).vars /\ counters[f] = [nm \in DebugNames(f) |-> 0]
  <2>1. DOMAIN names[f] = DOMAIN Fn(f).vars
    BY <1>7 DEF NamedOK
  <2>2. counters[f] = [nm \in DebugNames(f) |-> 0]
    BY <1>6, <1>7 DEF CountersOK
  <2> QED
    BY <2>1, <2>2
<1>9. st \in States(f, names[f]) /\ MetadataSet(f, names[f], st, K)
  <2>1. first \in States(f, names[f])
    <3>1. names[f] = [v \in DOMAIN names[f] |-> names[f][v]]
      BY <1>7 DEF NamedOK
    <3>2. names[f] \in [DOMAIN names[f] -> NameValues(f, names[f])]
      BY <3>1 DEF NameValues
    <3>3. counters[f] \in [DebugNames(f) -> Nat]
      BY <1>8
    <3> QED
      BY <3>2, <3>3 DEF States
  <2>2. first.names = names[f] /\ \A nm \in DebugNames(f) : first.counters[nm] = 0
    BY <1>8
  <2>3. Fn(f).debug \in Seq([v : DOMAIN Fn(f).vars, name : Names, declare : BOOLEAN])
    BY <1>1, DebugIs
  <2>4. \A i \in DOMAIN Fn(f).debug : Fn(f).debug[i].v \in DOMAIN names[f]
    BY <1>1, <1>8, DebugElementIs
  <2> HIDE DEF first
  <2> QED
    BY <2>1, <2>2, <2>3, <2>4, MetadataIs
<1> HIDE DEF st
<1>10. /\ DOMAIN st.names = DOMAIN Fn(f).vars /\ st.names = [v \in DOMAIN st.names |-> st.names[v]]
       /\ \A v \in DOMAIN Fn(f).vars : ~IsDebugged(f, v) => st.names[v] = names[f][v]
  <2>1. st.names \in [DOMAIN names[f] -> NameValues(f, names[f])]
    BY <1>9 DEF States
  <2>2. \A v \in DOMAIN names[f] : ~Debugged(f, v, K) => st.names[v] = names[f][v]
    BY <1>9 DEF MetadataSet
  <2> QED
    BY <1>8, <2>1, <2>2 DEF IsDebugged
<1>11. K \in Nat /\ DOMAIN Fn(f).debug = 1..K
       /\ \A j \in DOMAIN Fn(f).debug : Fn(f).debug[j].name \in DebugNames(f)
  BY <1>1, DebugElementIs
<1>12. ASSUME PlainDebugNames(f), NEW v \in DOMAIN Fn(f).vars, IsDebugged(f, v)
       PROVE  \E j \in DOMAIN Fn(f).debug : \E c \in Nat :
                /\ IsVarName(Fn(f).debug[j].name) => c = 0
                /\ st.names[v] = DebugName(Fn(f).debug[j].name, c)
  <2>1. PICK j \in 1..K : \E c \in Nat : /\ c < st.counters[Fn(f).debug[j].name]
                                        /\ st.names[v] = DebugName(Fn(f).debug[j].name, c)
    BY <1>8, <1>9, <1>12 DEF MetadataSet, IsDebugged
  <2>2. PICK c \in Nat : /\ c < st.counters[Fn(f).debug[j].name]
                         /\ st.names[v] = DebugName(Fn(f).debug[j].name, c)
    BY <2>1
  <2>3. ASSUME IsVarName(Fn(f).debug[j].name) PROVE c = 0
    <3> DEFINE nm == Fn(f).debug[j].name
    <3>1. nm.n # NoNumber
      BY <2>3 DEF IsVarName
    <3>2. \A i \in DOMAIN Fn(f).debug : Fn(f).debug[i].name = nm => i = j
      BY <1>11, <1>12, <2>1, <3>1 DEF PlainDebugNames
    <3>3. nm \in DebugNames(f)
      BY <1>11, <2>1
    <3>4. \A i, k \in 1..K : Fn(f).debug[i].name = nm /\ Fn(f).debug[k].name = nm => i = k
      BY <1>11, <3>2
    <3>5. st.counters[nm] <= 1 /\ st.counters[nm] \in Nat
      <4>1. st.counters[nm] <= 1
        BY <1>9, <3>3, <3>4 DEF MetadataSet
      <4>2. st.counters \in [DebugNames(f) -> Nat]
        BY <1>9 DEF States
      <4> QED
        BY <3>3, <4>1, <4>2
    <3> QED
      BY <2>2, <3>5
  <2> QED
    BY <1>11, <2>1, <2>2, <2>3
<1>13. PlainDebugNames(f) =>
         \A v, w \in DOMAIN Fn(f).vars :
           IsDebugged(f, v) /\ IsDebugged(f, w) /\ v # w => st.names[v] # st.names[w]
  BY <1>8, <1>9 DEF MetadataSet, IsDebugged
<1>14. ASSUME NEW h \in Funcs, h = f PROVE NamesOK(h)'
  <2>1. Done(6, h)' /\ ~Done(7, h)' /\ Done(1, h)' /\ \A n \in 2..4 : Done(n, h)'
    BY <1>2, <1>6, <1>14
  <2>2. Translated(h)' = DOMAIN Fn(f).vars
    <3>1. \A k : Naming(k) \in 2..4
      BY DEF Naming
    <3> QED
      BY <1>3, <1>14, <2>1, <3>1 DEF Translated
  <2>3. names'[h] = st.names /\ taken'[h] = taken[f] /\ varCount'[h] = varCount[f]
    BY <1>1, <1>14 DEF Typed
  <2>4. TakenOK(h)'
    <3>1. TakenNames(h)' = TakenNames(h)
      BY <1>1, <1>3 DEF TakenNames
    <3> QED
      BY <1>6, <1>7, <1>14, <2>1, <2>3, <3>1 DEF TakenOK
  <2>5. NamedOK(h)'
    BY <1>7, <1>10, <2>2, <2>3 DEF NamedOK
  <2>6. \A v : /\ HasMadeName(h, v)' <=> ~IsDebugged(f, v)
               /\ HasDebugName(h, v)' <=> IsDebugged(f, v)
               /\ ~HasMainName(h, v)'
    <3>1. \A v : IsDebugged(h, v)' <=> IsDebugged(f, v)
      BY <1>1, <1>14, SameProgram
    <3> QED
      BY <2>1, <3>1 DEF HasMadeName, HasDebugName, HasMainName
  <2>7. MadeOK(h)'
    <3>1. PICK num \in [Translated(f) -> 0..(varCount[f] - 1)] :
            /\ \A v, w \in Translated(f) : num[v] = num[w] => v = w
            /\ \A v \in Translated(f) :
                 /\ Var(num[v]) \notin taken[f]
                 /\ HasMadeName(f, v) => names[f][v] = Made(f, v, num[v])
      BY <1>7 DEF MadeOK
    <3>2. \A v, k : Made(h, v, k)' = Made(f, v, k) /\ Var(k)' = Var(k)
      BY <1>3, <1>14 DEF Made, Var
    <3>3. \A v : HasMadeName(f, v)
      BY <1>6 DEF HasMadeName, HasMainName
    <3>4. \A v \in DOMAIN Fn(f).vars :
            ~IsDebugged(f, v) => names'[h][v] = Made(f, v, num[v])
      BY <1>7, <1>10, <2>3, <3>1, <3>3
    <3>5. \E m \in [Translated(h)' -> 0..(varCount'[h] - 1)] :
             /\ \A v, w \in Translated(h)' : m[v] = m[w] => v = w
             /\ \A v \in Translated(h)' :
                  /\ Var(m[v]) \notin taken'[h]
                  /\ HasMadeName(h, v)' => names'[h][v] = Made(f, v, m[v])
      BY <1>7, <2>2, <2>3, <2>6, <3>1, <3>4
    <3> QED
      BY <3>2, <3>5 DEF MadeOK
  <2>8. CountersOK(h)' /\ MainOK(h)'
    BY <2>1, <2>6 DEF CountersOK, MainOK
  <2>9. DebuggedOK(h)'
    <3>1. PlainDebugNames(h)' <=> PlainDebugNames(f)
      <4>1. PlainDebugNames(h)' <=> PlainDebugNames(h)
        BY <1>3, SamePlainNames
      <4> QED
        BY <1>14, <4>1
    <3> SUFFICES ASSUME PlainDebugNames(f)
                 PROVE  DebuggedOK(h)'
      BY <3>1 DEF DebuggedOK
    <3>2. \A v \in Translated(h)' : HasDebugName(h, v)' =>
            \E j \in DOMAIN Fn(f).debug : \E c \in Nat :
              /\ IsVarName(Fn(f).debug[j].name) => c = 0
              /\ names'[h][v] = DebugName(Fn(f).debug[j].name, c)
      BY <1>12, <2>2, <2>3, <2>6
    <3>3. \A v, w \in Translated(h)' :
            HasDebugName(h, v)' /\ HasDebugName(h, w)' /\ names'[h][v] = names'[h][w] => v = w
      BY <1>13, <2>2, <2>3, <2>6
    <3> QED
      BY <1>3, <1>14, <3>2, <3>3 DEF DebuggedOK
  <2> QED
    BY <2>4, <2>5, <2>7, <2>8, <2>9 DEF NamesOK
<1>15. SizesOK'
  <2>1. \A g \in Funcs : \A v \in Translated(g) :
          ~(Done(6, g)' /\ IsDebugged(g, v)) => names'[g][v] = names[g][v]
    <3>1. names'[f] = st.names
      BY <1>1 DEF Typed
    <3>2. \A g \in Funcs : g = f => Done(6, g)'
      BY <1>2
    <3> QED
      BY <1>5, <1>7, <1>10, <3>1, <3>2
  <2> QED
    BY <1>1, <1>2, <2>1, SameSizes
<1> QED
  BY <1>2, <1>3, <1>4, <1>5, <1>14, <1>15 DEF NamesInv

LEMMA FixMainParametersStep ==
  ASSUME NamesInv, FixMainParameters
  PROVE  NamesInv'
<1> DEFINE new == [v \in DOMAIN names[f] |->
                     IF IsMainParameter(f, v) THEN <<Argc, Argv>>[v] ELSE names[f][v]]
<1>1. /\ AtPlace /\ Number(pass) = 7 /\ prog' = prog /\ prog \in Programs /\ f \in Funcs
      /\ UNCHANGED <<taken, varCount, counters, sizeNames>> /\ Typed
      /\ NextFunction("end")
      /\ names' = [names EXCEPT ![f] = new]
  BY DEF NamesInv, AtPlace, FixMainParameters, Running, Number, IsMainParameter
<1>2. /\ AtPlace'
      /\ \A n \in 1..7 : \A g \in Funcs : Done(n, g)' <=> Done(n, g) \/ (n = 7 /\ g = f)
  <2>1. "end" \in Passes /\ Number("end") = 8
    BY DEF Passes, Number
  <2> QED
    BY <1>1, <2>1, Progress
<1>3. Funcs' = Funcs /\ \A g : Fn(g)' = Fn(g)
  BY <1>1, SameProgram
<1>4. Typed'
  BY <1>1, <1>3 DEF Typed
<1>5. ASSUME NEW g \in Funcs, g # f PROVE NamesOK(g)' /\ names'[g] = names[g]
  <2>1. Same(g) /\ names'[g] = names[g]
    BY <1>1, <1>5 DEF Same, Typed
  <2> QED
    BY <1>1, <1>2, <1>5, <2>1, SameNames DEF NamesInv
<1>6. /\ Done(6, f) /\ ~Done(7, f) /\ Done(1, f) /\ (\A n \in 2..4 : Done(n, f))
  <2>1. Number(pass) \in Nat /\ f \in Nat
    BY <1>1, FunctionIs
  <2> QED
    BY <1>1, <2>1 DEF Done
<1>7. /\ Translated(f) = DOMAIN Fn(f).vars
      /\ TakenOK(f) /\ NamedOK(f) /\ MadeOK(f) /\ CountersOK(f) /\ DebuggedOK(f)
  BY <1>1, <1>6, AllTranslated DEF NamesInv, NamesOK
<1>8. DOMAIN names[f] = DOMAIN Fn(f).vars /\ names'[f] = new
  <2>1. DOMAIN names[f] = DOMAIN Fn(f).vars
    BY <1>7 DEF NamedOK
  <2> QED
    BY <1>1, <2>1 DEF Typed
<1>9. \A v \in DOMAIN Fn(f).vars :
        /\ IsMainParameter(f, v) => names'[f][v] = <<Argc, Argv>>[v]
        /\ ~IsMainParameter(f, v) => names'[f][v] = names[f][v]
  BY <1>8
<1>10. names'[f] = [v \in DOMAIN Fn(f).vars |-> names'[f][v]]
  BY <1>8
<1> HIDE DEF new
<1>11. ASSUME NEW h \in Funcs, h = f PROVE NamesOK(h)'
  <2>1. Done(6, h)' /\ Done(7, h)' /\ Done(1, h)' /\ \A n \in 2..4 : Done(n, h)'
    BY <1>2, <1>6, <1>11
  <2>2. Translated(h)' = DOMAIN Fn(f).vars
    <3>1. \A k : Naming(k) \in 2..4
      BY DEF Naming
    <3> QED
      BY <1>3, <1>11, <2>1, <3>1 DEF Translated
  <2>3. names'[h] = names'[f] /\ taken'[h] = taken[f] /\ varCount'[h] = varCount[f]
    BY <1>1, <1>11
  <2>4. TakenOK(h)'
    <3>1. TakenNames(h)' = TakenNames(h)
      BY <1>1, <1>3 DEF TakenNames
    <3> QED
      BY <1>6, <1>7, <1>11, <2>1, <2>3, <3>1 DEF TakenOK
  <2>5. NamedOK(h)'
    BY <1>7, <1>10, <2>2, <2>3 DEF NamedOK
  <2>6. \A v : /\ HasMadeName(h, v)' <=> ~IsDebugged(f, v) /\ ~IsMainParameter(f, v)
               /\ HasDebugName(h, v)' <=> IsDebugged(f, v) /\ ~IsMainParameter(f, v)
               /\ HasMainName(h, v)' <=> IsMainParameter(f, v)
    <3>1. \A v : IsDebugged(h, v)' <=> IsDebugged(f, v)
      BY <1>1, <1>11, SameProgram
    <3>2. \A v : IsMainParameter(h, v)' <=> IsMainParameter(f, v)
      BY <1>3, <1>11 DEF IsMainParameter
    <3> QED
      BY <2>1, <3>1, <3>2 DEF HasMadeName, HasDebugName, HasMainName
  <2>7. \A v : /\ HasMadeName(f, v) <=> ~IsDebugged(f, v)
               /\ HasDebugName(f, v) <=> IsDebugged(f, v)
    BY <1>6 DEF HasMadeName, HasDebugName, HasMainName
  <2>8. MadeOK(h)'
    <3>1. PICK num \in [Translated(f) -> 0..(varCount[f] - 1)] :
            /\ \A v, w \in Translated(f) : num[v] = num[w] => v = w
            /\ \A v \in Translated(f) :
                 /\ Var(num[v]) \notin taken[f]
                 /\ HasMadeName(f, v) => names[f][v] = Made(f, v, num[v])
      BY <1>7 DEF MadeOK
    <3>2. \A v, k : Made(h, v, k)' = Made(f, v, k) /\ Var(k)' = Var(k)
      BY <1>3, <1>11 DEF Made, Var
    <3>3. \A v \in DOMAIN Fn(f).vars :
            HasMadeName(h, v)' => names'[h][v] = Made(f, v, num[v])
      BY <1>7, <1>9, <2>3, <2>6, <2>7, <3>1
    <3>4. \E m \in [Translated(h)' -> 0..(varCount'[h] - 1)] :
             /\ \A v, w \in Translated(h)' : m[v] = m[w] => v = w
             /\ \A v \in Translated(h)' :
                  /\ Var(m[v]) \notin taken'[h]
                  /\ HasMadeName(h, v)' => names'[h][v] = Made(f, v, m[v])
      BY <1>7, <2>2, <2>3, <3>1, <3>3
    <3> QED
      BY <3>2, <3>4 DEF MadeOK
  <2>9. CountersOK(h)'
    BY <2>1 DEF CountersOK
  <2>10. MainOK(h)'
    BY <1>9, <2>2, <2>3, <2>6 DEF MainOK, Argc, Argv
  <2>11. DebuggedOK(h)'
    <3>1. PlainDebugNames(h)' <=> PlainDebugNames(f)
      <4>1. PlainDebugNames(h)' <=> PlainDebugNames(h)
        BY <1>3, SamePlainNames
      <4> QED
        BY <1>11, <4>1
    <3> SUFFICES ASSUME PlainDebugNames(f)
                 PROVE  DebuggedOK(h)'
      BY <3>1 DEF DebuggedOK
    <3>2. \A v \in Translated(h)' : HasDebugName(h, v)' =>
            HasDebugName(f, v) /\ names'[h][v] = names[f][v]
      BY <1>9, <2>2, <2>3, <2>6, <2>7
    <3>3. /\ \A v \in Translated(f) : HasDebugName(f, v) =>
               \E j \in DOMAIN Fn(f).debug : \E c \in Nat :
                 /\ IsVarName(Fn(f).debug[j].name) => c = 0
                 /\ names[f][v] = DebugName(Fn(f).debug[j].name, c)
          /\ \A v, w \in Translated(f) :
               HasDebugName(f, v) /\ HasDebugName(f, w) /\ names[f][v] = names[f][w] => v = w
      BY <1>7 DEF DebuggedOK
    <3>4. \A v \in Translated(h)' : HasDebugName(h, v)' =>
            \E j \in DOMAIN Fn(f).debug : \E c \in Nat :
              /\ IsVarName(Fn(f).debug[j].name) => c = 0
              /\ names'[h][v] = DebugName(Fn(f).debug[j].name, c)
      BY <1>7, <2>2, <3>2, <3>3
    <3>5. \A v, w \in Translated(h)' :
            HasDebugName(h, v)' /\ HasDebugName(h, w)' /\ names'[h][v] = names'[h][w] => v = w
      BY <1>7, <2>2, <3>2, <3>3
    <3> QED
      BY <1>3, <1>11, <3>4, <3>5 DEF DebuggedOK
  <2> QED
    BY <2>4, <2>5, <2>8, <2>9, <2>10, <2>11 DEF NamesOK
<1>12. SizesOK'
  <2>1. \A g \in Funcs : \A v \in Translated(g) :
          Fn(g).vars[v].kind = "alloca" => names'[g][v] = names[g][v]
    BY <1>5, <1>7, <1>9 DEF IsMainParameter
  <2> QED
    BY <1>1, <1>2, <2>1, SameSizes
<1> QED
  BY <1>2, <1>3, <1>4, <1>5, <1>11, <1>12 DEF NamesInv

LEMMA NamesStep == NamesInv /\ [VANext]_vaVars => NamesInv'
<1> SUFFICES ASSUME NamesInv, [VANext]_vaVars PROVE NamesInv'
  OBVIOUS
<1>1. CASE VANext
  BY <1>1, FindMetadataFunctionNamesStep, CreateFunctionParametersStep, CreateAllocasStep,
     CreateExpressionsStep, InsertVLADeclsStep, FindMetadataVariableNamesStep,
     FixMainParametersStep DEF VANext
<1>2. CASE UNCHANGED vaVars
  <2>1. prog' = prog /\ AtPlace' /\ prog \in Programs /\ sizeNames' = sizeNames
    BY <1>2 DEF NamesInv, AtPlace, vaVars, Funcs
  <2>2. \A n \in 1..7 : \A g \in Funcs : Done(n, g)' <=> Done(n, g)
    BY <1>2 DEF vaVars, Done
  <2>3. \A g \in Funcs : Same(g) /\ names'[g] = names[g]
    BY <1>2 DEF vaVars, Same
  <2>4. \A g \in Funcs : NamesOK(g)'
    BY <2>1, <2>2, <2>3, SameNames DEF NamesInv
  <2>5. SizesOK'
    BY <2>1, <2>2, <2>3, SameSizes
  <2>6. Typed' /\ Funcs' = Funcs
    BY <1>2 DEF NamesInv, Typed, vaVars, Funcs
  <2> QED
    BY <2>1, <2>4, <2>5, <2>6 DEF NamesInv
<1> QED
  BY <1>1, <1>2

LEMMA NamesInvariant == VASpec => []NamesInv
BY NamesInit, NamesStep, PTL DEF VASpec

\* In the end every pass has visited every function.
LEMMA AtEnd ==
  ASSUME NamesInv, Ended, NEW g \in Funcs
  PROVE  /\ prog \in Programs /\ (\A n \in 1..7 : Done(n, g))
         /\ Translated(g) = DOMAIN Fn(g).vars /\ DOMAIN names[g] = DOMAIN Fn(g).vars
         /\ TakenOK(g) /\ NamedOK(g) /\ MadeOK(g) /\ DebuggedOK(g) /\ MainOK(g)
         /\ taken[g] = TakenNames(g)
<1>1. prog \in Programs
  BY DEF NamesInv, AtPlace
<1>2. \A n \in 1..7 : Done(n, g)
  BY DEF Ended, Done, Number
<1>3. Translated(g) = DOMAIN Fn(g).vars
  BY <1>1, <1>2, AllTranslated
<1>4. TakenOK(g) /\ NamedOK(g) /\ MadeOK(g) /\ DebuggedOK(g) /\ MainOK(g)
  BY DEF NamesInv, NamesOK
<1>5. DOMAIN names[g] = DOMAIN Fn(g).vars
  BY <1>3, <1>4 DEF NamedOK
<1>6. taken[g] = TakenNames(g)
  BY <1>2, <1>4 DEF TakenOK
<1> QED
  BY <1>1, <1>2, <1>3, <1>4, <1>5, <1>6

\* Every variable of a function has a name in the end, every array's type the
\* name of a size, and a function has names for no others on the way.
THEOREM VariablesTyped == VASpec => []VATypeOK
<1>1. NamesInv => VATypeOK
  <2> SUFFICES ASSUME NamesInv PROVE VATypeOK
    OBVIOUS
  <2>1. f \in Funcs /\ pass \in Passes /\ SizesOK
    BY DEF NamesInv, AtPlace
  <2>2. ASSUME NEW g \in Funcs
        PROVE  /\ DOMAIN names[g] \subseteq DOMAIN Fn(g).vars
               /\ (\A nm \in taken[g] : IsVarName(nm)) /\ varCount[g] \in Nat
    <3>1. TakenOK(g) /\ NamedOK(g)
      BY DEF NamesInv, NamesOK
    <3>2. DOMAIN names[g] = Translated(g) /\ varCount[g] \in Nat
      BY <3>1 DEF NamedOK
    <3>3. \A nm \in TakenNames(g) : IsVarName(nm)
      BY DEF TakenNames
    <3> QED
      BY <3>1, <3>2, <3>3 DEF TakenOK, Translated
  <2>3. DOMAIN sizeNames = {a \in Arrays : Done(3, a[1])}
    BY <2>1 DEF SizesOK
  <2>4. Ended => /\ \A g \in Funcs : DOMAIN names[g] = DOMAIN Fn(g).vars
                 /\ DOMAIN sizeNames = Arrays
    <3> SUFFICES ASSUME Ended
                 PROVE  /\ \A g \in Funcs : DOMAIN names[g] = DOMAIN Fn(g).vars
                        /\ DOMAIN sizeNames = Arrays
      OBVIOUS
    <3>1. \A a \in Arrays : Done(3, a[1])
      BY AtEnd, ArrayIs DEF NamesInv, AtPlace
    <3> QED
      BY <2>3, <3>1, AtEnd
  <2> QED
    BY <2>1, <2>2, <2>3, <2>4 DEF VATypeOK
<1> QED
  BY <1>1, NamesInvariant, PTL

\* The numbers counted up behind a name are naturals.
LEMMA BelowIsNatural == \A m \in Nat : \A k \in 0..(m - 1) : k \in Nat
OBVIOUS

\* A made name without a suffix is var and its number.
LEMMA MadeIsVar ==
  ASSUME NEW g, NEW v, NEW n, Made(g, v, n).suffix = ""
  PROVE  Made(g, v, n) = Var(n)
BY DEF Made, Var

\* A made name is no debug name: what ends in a number of its own is taken.
LEMMA MadeIsNotDebug ==
  ASSUME prog \in Programs, NEW g \in Funcs, PlainDebugNames(g), NEW v, NEW n \in Nat,
         Var(n) \notin TakenNames(g), NEW j \in DOMAIN Fn(g).debug, NEW c \in Nat,
         IsVarName(Fn(g).debug[j].name) => c = 0
  PROVE  Made(g, v, n) # DebugName(Fn(g).debug[j].name, c)
<1> DEFINE nm == Fn(g).debug[j].name
<1>1. nm \in Names
  BY DebugElementIs
<1>2. Made(g, v, n).text = "var"
  BY DEF Made
<1> SUFFICES ASSUME Made(g, v, n) = DebugName(nm, c) PROVE FALSE
  OBVIOUS
<1>3. (nm.n = NoNumber /\ nm.text # "var") \/ (IsVarName(nm) /\ Fn(g).debug[j].declare)
  BY DEF PlainDebugNames
<1>4. CASE nm.n = NoNumber /\ nm.text # "var"
  <2>1. DebugName(nm, c).text = nm.text
    BY <1>1, <1>4, DebugNameIs
  <2> QED
    BY <1>2, <1>4, <2>1
<1>5. CASE IsVarName(nm) /\ Fn(g).debug[j].declare
  <2>1. DebugName(nm, c) = nm
    BY <1>5 DEF DebugName
  <2>2. nm.suffix = ""
    BY <1>5 DEF IsVarName
  <2>3. nm = Var(n)
    BY <2>1, <2>2, MadeIsVar
  <2>4. nm \in TakenNames(g)
    BY <1>5 DEF TakenNames
  <2> QED
    BY <2>3, <2>4
<1> QED
  BY <1>3, <1>4, <1>5

LEMMA MainIsNotDebug ==
  ASSUME prog \in Programs, NEW g \in Funcs, PlainDebugNames(g), Fn(g).isMain,
         NEW j \in DOMAIN Fn(g).debug, NEW c \in Nat,
         IsVarName(Fn(g).debug[j].name) => c = 0
  PROVE  DebugName(Fn(g).debug[j].name, c) \notin {Argc, Argv}
<1> DEFINE nm == Fn(g).debug[j].name
<1>1. nm \in Names
  BY DebugElementIs
<1>2. \/ nm.n = NoNumber /\ nm.text # "var" /\ nm \notin {Argc, Argv}
      \/ IsVarName(nm)
  BY DEF PlainDebugNames
<1>3. CASE nm.n = NoNumber /\ nm.text # "var" /\ nm \notin {Argc, Argv}
  <2>1. CASE c = 0
    <3>1. DebugName(nm, c) = nm
      BY <2>1 DEF DebugName
    <3> QED
      BY <1>3, <3>1
  <2>2. CASE c # 0
    <3>1. DebugName(nm, c).n = c + 1
      BY <1>1, <1>3, <2>2, DebugNameIs
    <3>2. Argc.n = NoNumber /\ Argv.n = NoNumber /\ c + 1 \in Nat
      BY DEF Argc, Argv
    <3> QED
      BY <3>1, <3>2, NoNumberAssumption
  <2> QED
    BY <2>1, <2>2
<1>4. CASE IsVarName(nm)
  <2>1. DebugName(nm, c) = nm
    BY <1>4 DEF DebugName
  <2>2. Argc.text # "var" /\ Argv.text # "var" /\ nm.text = "var"
    BY <1>4 DEF IsVarName, Argc, Argv
  <2> QED
    BY <2>1, <2>2
<1> QED
  BY <1>2, <1>3, <1>4

\* Func::getVarName, setMetadataInfo and fixMainParameters: if no debug name
\* has a number, at its end or in front of "_phi", is "var" or is a name of
\* main's parameters, no two variables of a function have the same name.
THEOREM NoNameTwice == VASpec => []NamesDistinct
<1>1. NamesInv => NamesDistinct
  <2> SUFFICES ASSUME NamesInv, Ended, NEW g \in Funcs, PlainDebugNames(g),
                      NEW v \in DOMAIN names[g], NEW w \in DOMAIN names[g],
                      names[g][v] = names[g][w]
               PROVE  v = w
    BY DEF NamesDistinct
  <2>1. /\ prog \in Programs /\ Done(6, g) /\ Done(7, g)
        /\ v \in Translated(g) /\ w \in Translated(g)
        /\ MadeOK(g) /\ DebuggedOK(g) /\ MainOK(g) /\ taken[g] = TakenNames(g)
        /\ NamedOK(g)
    BY AtEnd
  <2>2. PICK num \in [Translated(g) -> 0..(varCount[g] - 1)] :
          /\ \A x, y \in Translated(g) : num[x] = num[y] => x = y
          /\ \A x \in Translated(g) :
               /\ Var(num[x]) \notin taken[g]
               /\ HasMadeName(g, x) => names[g][x] = Made(g, x, num[x])
    BY <2>1 DEF MadeOK
  <2>3. /\ \A x \in Translated(g) : HasDebugName(g, x) =>
             \E j \in DOMAIN Fn(g).debug : \E c \in Nat :
               /\ IsVarName(Fn(g).debug[j].name) => c = 0
               /\ names[g][x] = DebugName(Fn(g).debug[j].name, c)
        /\ \A x, y \in Translated(g) :
             HasDebugName(g, x) /\ HasDebugName(g, y) /\ names[g][x] = names[g][y] => x = y
    BY <2>1 DEF DebuggedOK
  <2>4. \A x : HasMadeName(g, x) \/ HasDebugName(g, x) \/ HasMainName(g, x)
    BY DEF HasMadeName, HasDebugName
  <2>5. \A x \in Translated(g) : HasMainName(g, x) =>
          /\ names[g][x] = <<Argc, Argv>>[x] /\ x \in {1, 2} /\ Fn(g).isMain
          /\ names[g][x] \in {Argc, Argv}
    BY <2>1 DEF MainOK, HasMainName, IsMainParameter
  <2>6. \A x \in Translated(g) : num[x] \in Nat
    BY <2>1, <2>2 DEF NamedOK
  <2>7. ASSUME NEW x \in Translated(g), NEW y \in Translated(g),
               HasMadeName(g, x), HasDebugName(g, y)
        PROVE  names[g][x] # names[g][y]
    BY <2>1, <2>2, <2>3, <2>6, <2>7, MadeIsNotDebug
  <2>8. ASSUME NEW x \in Translated(g), NEW y \in Translated(g),
               HasMainName(g, x), HasDebugName(g, y)
        PROVE  names[g][x] # names[g][y]
    BY <2>1, <2>3, <2>5, <2>8, MainIsNotDebug
  <2>9. ASSUME NEW x \in Translated(g), NEW y \in Translated(g),
               HasMainName(g, x), HasMadeName(g, y)
        PROVE  names[g][x] # names[g][y]
    <3>1. Made(g, y, num[y]).text = "var" /\ names[g][y] = Made(g, y, num[y])
      BY <2>2, <2>9 DEF Made
    <3>2. Argc.text = "argc" /\ Argv.text = "argv"
      BY DEF Argc, Argv
    <3>3. names[g][x] = Argc \/ names[g][x] = Argv
      BY <2>5, <2>9
    <3> QED
      BY <3>1, <3>2, <3>3
  <2>10. CASE HasMadeName(g, v) /\ HasMadeName(g, w)
    <3>1. Made(g, v, num[v]).n = num[v] /\ Made(g, w, num[w]).n = num[w]
      BY DEF Made
    <3> QED
      BY <2>1, <2>2, <2>10, <3>1
  <2>11. CASE HasMainName(g, v) /\ HasMainName(g, w)
    <3>1. Argc.text # Argv.text
      BY DEF Argc, Argv
    <3>2. <<Argc, Argv>>[1] = Argc /\ <<Argc, Argv>>[2] = Argv
      OBVIOUS
    <3> QED
      BY <2>1, <2>5, <2>11, <3>1, <3>2
  <2> QED
    BY <2>1, <2>3, <2>4, <2>7, <2>8, <2>9, <2>10, <2>11
<1> QED
  BY <1>1, NamesInvariant, PTL

\* Func::getVarName and findMetadataFunctionNames: a variable without a debug
\* name has no global variable's name, unless that one is like var0_phi.
THEOREM NoGlobalHidden == VASpec => []MadeNamesHideNoGlobal
<1>1. NamesInv => MadeNamesHideNoGlobal
  <2> SUFFICES ASSUME NamesInv, Ended, NEW g \in Funcs, NEW v \in DOMAIN names[g],
                      KeepsMadeName(g, v), names[g][v] \in prog.globals, names[g][v].suffix = ""
               PROVE  FALSE
    BY DEF MadeNamesHideNoGlobal
  <2>1. /\ prog \in Programs /\ v \in Translated(g)
        /\ MadeOK(g) /\ taken[g] = TakenNames(g) /\ NamedOK(g)
    BY AtEnd
  <2>2. HasMadeName(g, v)
    <3>1. DOMAIN Fn(g).debug = 1..Len(Fn(g).debug)
      BY <2>1, DebugElementIs
    <3> QED
      BY <3>1 DEF KeepsMadeName, HasMadeName, HasMainName, IsMainParameter, IsDebugged, Debugged
  <2>3. PICK n \in 0..(varCount[g] - 1) : Var(n) \notin taken[g] /\ names[g][v] = Made(g, v, n)
    BY <2>1, <2>2 DEF MadeOK
  <2>4. n \in Nat
    <3>1. varCount[g] \in Nat
      BY <2>1 DEF NamedOK
    <3>2. n \in 0..(varCount[g] - 1)
      BY <2>3
    <3> QED
      BY <3>1, <3>2, BelowIsNatural, Zenon
  <2>5. Made(g, v, n) = Var(n)
    <3>1. Made(g, v, n).suffix = ""
      BY <2>3
    <3> QED
      BY <3>1, MadeIsVar
  <2>6. IsVarName(Var(n))
    BY <2>4, NoNumberAssumption DEF IsVarName, Var
  <2>7. Var(n) \in TakenNames(g)
    BY <2>3, <2>5, <2>6 DEF TakenNames
  <2> QED
    BY <2>1, <2>3, <2>7
<1> QED
  BY <1>1, NamesInvariant, PTL

\* createAllocas and setMetadataInfo: a copied size has its variable's name, if
\* the variable has no debug name.
THEOREM SizesNamed == VASpec => []SizeNamesCurrent
<1>1. NamesInv => SizeNamesCurrent
  <2> SUFFICES ASSUME NamesInv, Ended, NEW a \in Arrays,
                      Fn(a[1]).vars[a[2]].copied =>
                        \A i \in DOMAIN Fn(a[1]).debug : Fn(a[1]).debug[i].v # SizeOf(a)
               PROVE  SizeName(a) = names[a[1]][SizeOf(a)]
    BY DEF SizeNamesCurrent
  <2> SUFFICES ASSUME Fn(a[1]).vars[a[2]].copied
               PROVE  sizeNames[a] = names[a[1]][SizeOf(a)]
    BY DEF SizeName
  <2>1. prog \in Programs /\ SizesOK
    BY DEF NamesInv, AtPlace
  <2>2. a[1] \in Funcs
    BY <2>1, ArrayIs
  <2>3. Done(3, a[1])
    BY <2>2, AtEnd
  <2>4. ~IsDebugged(a[1], SizeOf(a))
    <3>1. DOMAIN Fn(a[1]).debug = 1..Len(Fn(a[1]).debug)
      BY <2>1, <2>2, DebugElementIs
    <3> QED
      BY <3>1 DEF IsDebugged, Debugged
  <2> QED
    BY <2>1, <2>3, <2>4 DEF SizesOK
<1> QED
  BY <1>1, NamesInvariant, PTL

-----------------------------------------------------------------------------
(* insertVLADecls *)

Elements(s) == {s[k] : k \in DOMAIN s}
Distinct(s) == \A i, j \in DOMAIN s : s[i] = s[j] => i = j

\* One sequence behind another one.
Joined(S, a, b, r) ==
  /\ r \in Seq(S) /\ DOMAIN r = 1..(Len(a) + Len(b)) /\ Len(a) \in Nat /\ Len(b) \in Nat
  /\ \A k \in 1..Len(a) : r[k] = a[k]
  /\ \A k \in 1..Len(b) : r[Len(a) + k] = b[k]

LEMMA JoinIs ==
  ASSUME NEW S, NEW a \in Seq(S), NEW b \in Seq(S)
  PROVE  Joined(S, a, b, a \o b)
BY DEF Joined

LEMMA RemoveAtIs ==
  ASSUME NEW S, NEW s \in Seq(S), Distinct(s), NEW i \in DOMAIN s
  PROVE  /\ RemoveAt(s, i) \in Seq(S) /\ Distinct(RemoveAt(s, i))
         /\ Elements(RemoveAt(s, i)) = Elements(s) \ {s[i]}
<1> DEFINE r == RemoveAt(s, i)
           a == SubSeq(s, 1, i - 1)
           b == SubSeq(s, i + 1, Len(s))
           L == Len(s)
<1>1. L \in Nat /\ DOMAIN s = 1..L /\ i \in 1..L /\ \A k \in 1..L : s[k] \in S
  OBVIOUS
<1>2. /\ Len(a) = i - 1 /\ \A k \in 1..(i - 1) : a[k] = s[k]
      /\ a \in Seq(S)
  BY <1>1
<1>3. /\ Len(b) = L - i /\ \A k \in 1..(L - i) : b[k] = s[k + i]
      /\ b \in Seq(S)
  BY <1>1
<1>4. r = a \o b
  BY DEF RemoveAt
<1> HIDE DEF a, b, r, L
<1>5. /\ r \in Seq(S) /\ DOMAIN r = 1..(L - 1)
      /\ \A k \in 1..(L - 1) : r[k] = IF k < i THEN s[k] ELSE s[k + 1]
  <2>1. /\ r \in Seq(S) /\ DOMAIN r = 1..((i - 1) + (L - i))
        /\ \A k \in 1..(i - 1) : r[k] = a[k]
        /\ \A k \in 1..(L - i) : r[(i - 1) + k] = b[k]
    <3>1. a \in Seq(S) /\ b \in Seq(S)
      BY <1>2, <1>3
    <3>2. Joined(S, a, b, r)
      BY <1>4, <3>1, JoinIs
    <3> QED
      BY <1>2, <1>3, <3>2 DEF Joined
  <2>2. ASSUME NEW k \in 1..(L - 1)
        PROVE  r[k] = IF k < i THEN s[k] ELSE s[k + 1]
    <3>1. CASE k < i
      BY <1>1, <1>2, <2>1, <3>1
    <3>2. CASE ~(k < i)
      <4> DEFINE m == k - (i - 1)
      <4>1. m \in 1..(L - i) /\ (i - 1) + m = k /\ m + i = k + 1
        BY <1>1, <3>2
      <4> HIDE DEF m
      <4>2. r[k] = b[m] /\ b[m] = s[k + 1]
        BY <1>3, <2>1, <4>1
      <4> QED
        BY <3>2, <4>2
    <3> QED
      BY <3>1, <3>2
  <2>3. (i - 1) + (L - i) = L - 1
    BY <1>1
  <2> QED
    BY <2>1, <2>2, <2>3
<1> DEFINE old(k) == IF k < i THEN k ELSE k + 1
<1>6. ASSUME NEW k \in 1..(L - 1)
      PROVE  old(k) \in 1..L /\ old(k) # i /\ r[k] = s[old(k)]
  BY <1>1, <1>5
<1>7. \A k, m \in 1..(L - 1) : old(k) = old(m) => k = m
  BY <1>1
<1>8. Distinct(r)
  <2> SUFFICES ASSUME NEW k \in 1..(L - 1), NEW m \in 1..(L - 1), r[k] = r[m]
               PROVE  k = m
    BY <1>5 DEF Distinct
  <2>1. s[old(k)] = s[old(m)] /\ old(k) \in DOMAIN s /\ old(m) \in DOMAIN s
    BY <1>1, <1>6
  <2> HIDE DEF old
  <2>2. old(k) = old(m)
    BY <2>1 DEF Distinct
  <2> QED
    BY <1>7, <2>2
<1>9. Elements(r) = Elements(s) \ {s[i]}
  <2>1. ASSUME NEW k \in 1..(L - 1) PROVE r[k] \in Elements(s) \ {s[i]}
    <3>1. old(k) \in DOMAIN s /\ old(k) # i /\ r[k] = s[old(k)]
      BY <1>1, <1>6
    <3> HIDE DEF old
    <3> QED
      BY <3>1 DEF Elements, Distinct
  <2>2. ASSUME NEW m \in 1..L, m # i PROVE \E k \in 1..(L - 1) : r[k] = s[m]
    <3>1. CASE m < i
      BY <1>1, <1>5, <3>1
    <3>2. CASE m > i
      <4>1. m - 1 \in 1..(L - 1) /\ ~(m - 1 < i) /\ (m - 1) + 1 = m
        BY <1>1, <3>2
      <4> QED
        BY <1>5, <4>1
    <3> QED
      BY <1>1, <2>2, <3>1, <3>2
  <2>3. Elements(r) = {r[k] : k \in 1..(L - 1)} /\ Elements(s) = {s[k] : k \in 1..L}
    BY <1>1, <1>5 DEF Elements
  <2>4. \A k \in 1..L : s[k] # s[i] => k # i
    OBVIOUS
  <2> QED
    BY <2>1, <2>2, <2>3, <2>4
<1> QED
  BY <1>5, <1>8, <1>9 DEF r

\* What the blocks of the only function are made of.
Statement == {[op |-> o, at |-> <<1, v>>] : o \in {"assign", "use"}, v \in DOMAIN Fn(1).vars}
Entries == Statement \cup {Declare(a) : a \in Arrays}

AssignTo(a) == [op |-> "assign", at |-> <<a[1], SizeOf(a)>>]
UseOf(a) == [op |-> "use", at |-> a]

\* The arrays that are to be declared: each of them once.
Pending == {p \in Seq(Arrays) : Distinct(p)}

Inserting ==
  NamesInv /\ Running("insertVLADecls") /\ Len(prog.funcs) = 1

LEMMA OneFunction ==
  ASSUME prog \in Programs, Len(prog.funcs) = 1
  PROVE  Funcs = {1} /\ \A a \in Arrays : a[1] = 1
<1>1. Funcs = {1}
  BY ProgramsAssumption DEF Funcs
<1> QED
  BY <1>1, ArrayIs

\* Before the debug information is looked at, an entry assigns to the variable
\* of that name if it does to the size's.
LEMMA AssignsIs ==
  ASSUME Inserting, NEW s \in Entries, NEW c \in Arrays
  PROVE  AssignsToVariable(s, SizeName(c)) <=> s = AssignTo(c)
<1>1. prog \in Programs /\ Funcs = {1} /\ f = 1 /\ c[1] = 1 /\ 1 \in Funcs
  BY OneFunction DEF Inserting, NamesInv, AtPlace
<1>2. /\ ~Done(6, 1) /\ ~Done(7, 1) /\ \A n \in 1..4 : Done(n, 1)
  BY <1>1 DEF Inserting, Running, Done, Number
<1>3. Translated(1) = DOMAIN Fn(1).vars /\ MadeOK(1)
  BY <1>1, <1>2, AllTranslated DEF Inserting, NamesInv, NamesOK
<1>4. PICK num \in [Translated(1) -> 0..(varCount[1] - 1)] :
        /\ \A v, w \in Translated(1) : num[v] = num[w] => v = w
        /\ \A v \in Translated(1) :
             /\ Var(num[v]) \notin taken[1]
             /\ HasMadeName(1, v) => names[1][v] = Made(1, v, num[v])
  BY <1>3 DEF MadeOK
<1>5. \A v \in DOMAIN Fn(1).vars : names[1][v] = Made(1, v, num[v])
  BY <1>2, <1>3, <1>4 DEF HasMadeName, HasMainName
<1>6. \A v, n : Made(1, v, n).n = n
  BY DEF Made
<1>7. \A v, w \in DOMAIN Fn(1).vars : names[1][v] = names[1][w] => v = w
  <2> SUFFICES ASSUME NEW v \in DOMAIN Fn(1).vars, NEW w \in DOMAIN Fn(1).vars,
                      names[1][v] = names[1][w]
               PROVE  v = w
    OBVIOUS
  <2>1. num[v] = num[w]
    BY <1>5, <1>6
  <2> QED
    BY <1>3, <1>4, <2>1
<1>8. SizeName(c) = names[1][SizeOf(c)] /\ SizeOf(c) \in DOMAIN Fn(1).vars
  <2>1. CASE Fn(c[1]).vars[c[2]].copied
    <3>1. SizesOK
      BY DEF Inserting, NamesInv
    <3> QED
      BY <1>1, <1>2, <2>1, <3>1, ArrayIs DEF SizeName, SizesOK
  <2>2. CASE ~Fn(c[1]).vars[c[2]].copied
    BY <1>1, <2>2, ArrayIs DEF SizeName
  <2> QED
    BY <2>1, <2>2
<1>9. CASE s \in Statement
  <2>1. PICK o \in {"assign", "use"}, v \in DOMAIN Fn(1).vars : s = [op |-> o, at |-> <<1, v>>]
    BY <1>9 DEF Statement
  <2>2. AssignsToVariable(s, SizeName(c)) <=> o = "assign" /\ v = SizeOf(c)
    BY <1>7, <1>8, <2>1 DEF AssignsToVariable
  <2>3. s = AssignTo(c) <=> o = "assign" /\ v = SizeOf(c)
    BY <1>1, <2>1 DEF AssignTo
  <2> QED
    BY <2>2, <2>3
<1>10. CASE s \in {Declare(a) : a \in Arrays}
  <2>1. s.op = "declare" /\ AssignTo(c).op = "assign"
    BY <1>10 DEF Declare, AssignTo
  <2> QED
    BY <2>1 DEF AssignsToVariable
<1> QED
  BY <1>9, <1>10 DEF Entries

BlockStates == [pending : Pending, block : Seq(Entries)]

\* One entry of a block: the first array whose size it assigns to is declared.
Visited(st, s, r) ==
  \/ /\ \A c \in Elements(st.pending) : s # AssignTo(c)
     /\ r.pending = st.pending /\ r.block = st.block \o <<s>>
  \/ \E c \in Elements(st.pending) :
       /\ s = AssignTo(c) /\ Elements(r.pending) = Elements(st.pending) \ {c}
       /\ r.block = st.block \o <<s, Declare(c)>>

LEMMA VisitStatementIs ==
  ASSUME Inserting, NEW s \in Entries, NEW st \in BlockStates
  PROVE  /\ VisitStatement(st, s) \in BlockStates
         /\ Visited(st, s, VisitStatement(st, s))
<1> DEFINE p == st.pending
           hits == {i \in DOMAIN p : AssignsToVariable(s, SizeName(p[i]))}
<1>1. p \in Seq(Arrays) /\ Distinct(p) /\ st.block \in Seq(Entries)
      /\ st = [pending |-> p, block |-> st.block]
  BY DEF BlockStates, Pending
<1>2. \A i \in DOMAIN p : p[i] \in Arrays
  BY <1>1
<1>3. hits = {i \in DOMAIN p : s = AssignTo(p[i])}
  BY <1>2, AssignsIs
<1>4. CASE hits = {}
  <2> DEFINE r == [pending |-> p, block |-> Append(st.block, s)]
  <2>1. VisitStatement(st, s) = r
    BY <1>1, <1>4 DEF VisitStatement
  <2>2. Append(st.block, s) \in Seq(Entries) /\ Append(st.block, s) = st.block \o <<s>>
    BY <1>1
  <2>3. r \in BlockStates
    BY <1>1, <2>2 DEF BlockStates, Pending
  <2>4. \A c \in Elements(p) : s # AssignTo(c)
    BY <1>3, <1>4 DEF Elements
  <2> QED
    BY <2>1, <2>2, <2>3, <2>4 DEF Visited
<1>5. CASE hits # {}
  <2> DEFINE i == CHOOSE k \in hits : \A j \in hits : k <= j
             r == [pending |-> RemoveAt(p, i), block |-> st.block \o <<s, Declare(p[i])>>]
  <2>1. VisitStatement(st, s) = r
    BY <1>5 DEF VisitStatement
  <2>2. \E k \in hits : \A j \in hits : k <= j
    <3>1. hits \subseteq Nat
      BY <1>1
    <3> HIDE DEF hits
    <3> QED
      BY <1>5, <3>1, LeastNumber
  <2>3. i \in hits
    BY <2>2
  <2> HIDE DEF i
  <2>4. i \in DOMAIN p /\ s = AssignTo(p[i]) /\ p[i] \in Elements(p) /\ p[i] \in Arrays
    BY <1>2, <1>3, <2>3 DEF Elements
  <2>5. /\ RemoveAt(p, i) \in Seq(Arrays) /\ Distinct(RemoveAt(p, i))
        /\ Elements(RemoveAt(p, i)) = Elements(p) \ {p[i]}
    BY <1>1, <2>4, RemoveAtIs
  <2>6. Declare(p[i]) \in Entries
    BY <2>4 DEF Entries
  <2>7. st.block \o <<s, Declare(p[i])>> \in Seq(Entries)
    BY <1>1, <2>6
  <2>8. r \in BlockStates
    BY <2>5, <2>7 DEF BlockStates, Pending
  <2>9. r.pending = RemoveAt(p, i) /\ r.block = st.block \o <<s, Declare(p[i])>>
    OBVIOUS
  <2> HIDE DEF r
  <2>10. Visited(st, s, r)
    BY <2>4, <2>5, <2>9 DEF Visited
  <2> QED
    BY <2>1, <2>8, <2>10
<1> QED
  BY <1>4, <1>5

\* No other array has its size; the assignment is in front of the uses.
Own(c) == \A d \in Arrays : SizeOf(d) = SizeOf(c) => d = c

InOrder(T, c) ==
  \A k, l \in DOMAIN T : /\ T[k] = AssignTo(c) /\ T[l] = AssignTo(c) => k = l
                         /\ T[k] = AssignTo(c) /\ T[l] = UseOf(c) => k < l

Placed(block, c) ==
  \A x, y \in DOMAIN block : /\ block[x] = AssignTo(c) /\ block[y] = Declare(c) => x < y
                             /\ block[x] = Declare(c) /\ block[y] = UseOf(c) => x < y

OnlyAt(block, s, x) == x \in DOMAIN block /\ \A y \in DOMAIN block : block[y] = s <=> y = x

\* What has become of the first n statements of a block and of the pending arrays.
MembersFrom(p, T, st, n) ==
  \A x \in DOMAIN st.block :
    \/ \E k \in 1..n : st.block[x] = T[k]
    \/ \E c \in Elements(p) \ Elements(st.pending) :
         st.block[x] = Declare(c) /\ \E k \in 1..n : T[k] = AssignTo(c)

OnceEach(p, st) ==
  \A c \in Elements(p) \ Elements(st.pending) : \E x \in DOMAIN st.block : OnlyAt(st.block, Declare(c), x)

PendingUntil(p, T, st, n) ==
  \A c \in Elements(p) :
    Own(c) => (c \in Elements(st.pending) <=> \A k \in 1..n : T[k] # AssignTo(c))

PlacedEach(p, T, st) ==
  \A c \in Elements(p) : Own(c) /\ InOrder(T, c) => Placed(st.block, c)

BlockInv(p, T, st, n) ==
  /\ Elements(st.pending) \subseteq Elements(p) /\ n <= Len(st.block)
  /\ MembersFrom(p, T, st, n) /\ OnceEach(p, st) /\ PendingUntil(p, T, st, n)
  /\ PlacedEach(p, T, st)

LEMMA EntriesDiffer ==
  /\ \A a, b : AssignTo(a) # Declare(b) /\ AssignTo(a) # UseOf(b) /\ UseOf(a) # Declare(b)
  /\ \A a, b : Declare(a) = Declare(b) => a = b
  /\ \A s \in Statement : \A a : s # Declare(a)
<1>1. ASSUME NEW s \in Statement, NEW a PROVE s # Declare(a)
  <2>1. s.op \in {"assign", "use"} /\ Declare(a).op = "declare"
    BY DEF Statement, Declare
  <2> QED
    BY <2>1
<1>2. ASSUME NEW a, NEW b
      PROVE  AssignTo(a) # Declare(b) /\ AssignTo(a) # UseOf(b) /\ UseOf(a) # Declare(b)
  <2>1. AssignTo(a).op = "assign" /\ Declare(b).op = "declare" /\ UseOf(a).op = "use"
        /\ UseOf(b).op = "use"
    BY DEF AssignTo, Declare, UseOf
  <2> QED
    BY <2>1
<1>3. ASSUME NEW a, NEW b, Declare(a) = Declare(b) PROVE a = b
  <2>1. Declare(a).at = a /\ Declare(b).at = b
    BY DEF Declare
  <2> QED
    BY <1>3, <2>1
<1> QED
  BY <1>1, <1>2, <1>3

LEMMA AssignToOwn ==
  ASSUME prog \in Programs, Len(prog.funcs) = 1, NEW c \in Arrays, Own(c), NEW d \in Arrays,
         AssignTo(d) = AssignTo(c)
  PROVE  d = c
<1>1. AssignTo(d).at = <<d[1], SizeOf(d)>> /\ AssignTo(c).at = <<c[1], SizeOf(c)>>
  BY DEF AssignTo
<1>2. SizeOf(d) = SizeOf(c)
  BY <1>1
<1> QED
  BY <1>2 DEF Own

\* An entry that declares nothing.
LEMMA PlainEntry ==
  ASSUME NEW T, NEW p, NEW n \in Nat, NEW y \in BlockStates, NEW z \in BlockStates,
         T \in Seq(Statement), n + 1 \in DOMAIN T, BlockInv(p, T, y, n),
         \A c \in Elements(y.pending) : T[n + 1] # AssignTo(c),
         z.pending = y.pending, Elements(p) \subseteq Arrays,
         z.block = y.block \o <<T[n + 1]>>
  PROVE  BlockInv(p, T, z, n + 1)
<1> DEFINE s == T[n + 1]
           m == Len(y.block)
<1>1. s \in Statement /\ y.block \in Seq(Entries)
  BY DEF BlockStates
<1>2. /\ m \in Nat /\ DOMAIN y.block = 1..m /\ DOMAIN z.block = 1..(m + 1)
      /\ Len(z.block) = m + 1
      /\ \A x \in 1..m : z.block[x] = y.block[x]
      /\ z.block[m + 1] = s
  <2> DEFINE e == <<s>>
  <2>1. e \in Seq(Entries) /\ Len(e) = 1 /\ e[1] = s
    BY <1>1 DEF Entries
  <2> HIDE DEF e
  <2>2. Joined(Entries, y.block, e, y.block \o e)
    BY <1>1, <2>1, JoinIs
  <2>3. z.block = y.block \o e
    BY DEF e
  <2>4. z.block \in Seq(Entries)
    BY DEF BlockStates
  <2> QED
    BY <1>1, <2>1, <2>2, <2>3, <2>4 DEF Joined
<1> HIDE DEF s, m
<1>3. 1..(n + 1) = 1..n \cup {n + 1} /\ 1..(m + 1) = 1..m \cup {m + 1} /\ n + 1 \notin 1..n
  BY <1>2
<1>4. /\ Elements(y.pending) \subseteq Elements(p) /\ n <= m
      /\ MembersFrom(p, T, y, n) /\ OnceEach(p, y) /\ PendingUntil(p, T, y, n)
      /\ PlacedEach(p, T, y)
  BY DEF BlockInv, m
<1>5. Elements(z.pending) = Elements(y.pending) /\ T[n + 1] = s
  BY DEF s
<1>6. MembersFrom(p, T, z, n + 1)
  <2> SUFFICES ASSUME NEW x \in 1..(m + 1)
               PROVE  \/ \E k \in 1..(n + 1) : z.block[x] = T[k]
                      \/ \E c \in Elements(p) \ Elements(y.pending) :
                           z.block[x] = Declare(c) /\ \E k \in 1..(n + 1) : T[k] = AssignTo(c)
    BY <1>2, <1>5 DEF MembersFrom
  <2>1. CASE x \in 1..m
    <3>1. \/ \E k \in 1..n : y.block[x] = T[k]
          \/ \E c \in Elements(p) \ Elements(y.pending) :
               y.block[x] = Declare(c) /\ \E k \in 1..n : T[k] = AssignTo(c)
      BY <1>2, <1>4, <2>1 DEF MembersFrom
    <3>2. z.block[x] = y.block[x]
      BY <1>2, <2>1
    <3> QED
      BY <1>3, <3>1, <3>2
  <2>2. CASE x = m + 1
    BY <1>2, <1>3, <1>5, <2>2
  <2> QED
    BY <1>3, <2>1, <2>2
<1>7. OnceEach(p, z)
  <2> SUFFICES ASSUME NEW c \in Elements(p) \ Elements(y.pending)
               PROVE  \E x \in DOMAIN z.block : OnlyAt(z.block, Declare(c), x)
    BY <1>5 DEF OnceEach
  <2>1. PICK x \in 1..m : OnlyAt(y.block, Declare(c), x)
    BY <1>2, <1>4 DEF OnceEach
  <2>2. x # m + 1 /\ s # Declare(c)
    BY <1>1, <1>2, EntriesDiffer
  <2>3. ASSUME NEW w \in 1..(m + 1) PROVE z.block[w] = Declare(c) <=> w = x
    BY <1>2, <1>3, <2>1, <2>2 DEF OnlyAt
  <2>4. x \in DOMAIN z.block
    BY <1>2, <1>3
  <2> QED
    BY <1>2, <2>3, <2>4 DEF OnlyAt
<1>8. PendingUntil(p, T, z, n + 1)
  BY <1>3, <1>4, <1>5 DEF PendingUntil, s
<1>9. PlacedEach(p, T, z)
  <2> SUFFICES ASSUME NEW c \in Elements(p), Own(c), InOrder(T, c),
                      NEW x \in 1..(m + 1), NEW w \in 1..(m + 1)
               PROVE  /\ z.block[x] = AssignTo(c) /\ z.block[w] = Declare(c) => x < w
                      /\ z.block[x] = Declare(c) /\ z.block[w] = UseOf(c) => x < w
    BY <1>2 DEF PlacedEach, Placed
  <2>1. Placed(y.block, c)
    BY <1>4 DEF PlacedEach
  <2>2. CASE x \in 1..m /\ w \in 1..m
    BY <1>2, <2>1, <2>2 DEF Placed
  <2>3. CASE x \in 1..m /\ w = m + 1
    <3>1. m \in Nat
      BY <1>2
    <3>2. x < w
      BY <2>3, <3>1
    <3> QED
      BY <3>2
  <2>4. CASE x = m + 1 /\ w \in 1..m
    <3>1. ASSUME s = AssignTo(c), y.block[w] = Declare(c) PROVE FALSE
      <4>1. \A k \in 1..n : y.block[w] # T[k]
        <5>1. \A k \in 1..n : T[k] \in Statement
          BY <1>2
        <5> QED
          BY <3>1, <5>1, EntriesDiffer
      <4>2. PICK d \in Elements(p) \ Elements(y.pending) :
              y.block[w] = Declare(d) /\ \E k \in 1..n : T[k] = AssignTo(d)
        BY <1>2, <1>4, <2>4, <4>1 DEF MembersFrom
      <4>3. PICK k \in 1..n : T[k] = AssignTo(c)
        BY <3>1, <4>2, EntriesDiffer
      <4>4. k \in DOMAIN T /\ n + 1 \in DOMAIN T /\ k # n + 1
        BY <1>3
      <4> QED
        BY <1>5, <3>1, <4>3, <4>4 DEF InOrder
    <3>2. s # Declare(c)
      BY <1>1, EntriesDiffer
    <3> QED
      BY <1>2, <2>4, <3>1, <3>2
  <2>5. CASE x = m + 1 /\ w = m + 1
    <3>1. s # Declare(c)
      BY <1>1, EntriesDiffer
    <3> QED
      BY <1>2, <2>5, <3>1
  <2> QED
    BY <1>3, <2>2, <2>3, <2>4, <2>5
<1>10. n + 1 <= Len(z.block)
  BY <1>2, <1>4
<1> QED
  BY <1>4, <1>5, <1>6, <1>7, <1>8, <1>9, <1>10 DEF BlockInv

\* An entry behind which an array is declared.
LEMMA DeclaringEntry ==
  ASSUME prog \in Programs, Len(prog.funcs) = 1,
         NEW T, NEW p, NEW n \in Nat, NEW y \in BlockStates, NEW z \in BlockStates,
         T \in Seq(Statement), n + 1 \in DOMAIN T, BlockInv(p, T, y, n),
         NEW a \in Elements(y.pending), T[n + 1] = AssignTo(a), Elements(p) \subseteq Arrays,
         Elements(z.pending) = Elements(y.pending) \ {a},
         z.block = y.block \o <<T[n + 1], Declare(a)>>
  PROVE  BlockInv(p, T, z, n + 1)
<1> DEFINE s == T[n + 1]
           m == Len(y.block)
<1>1. s \in Statement /\ y.block \in Seq(Entries)
  BY DEF BlockStates
<1>2. /\ Elements(y.pending) \subseteq Elements(p) /\ n <= m
      /\ MembersFrom(p, T, y, n) /\ OnceEach(p, y) /\ PendingUntil(p, T, y, n)
      /\ PlacedEach(p, T, y)
  BY DEF BlockInv, m
<1>3. a \in Arrays /\ a \in Elements(p)
  BY <1>2
<1>4. /\ m \in Nat /\ DOMAIN y.block = 1..m /\ DOMAIN z.block = 1..(m + 2)
      /\ Len(z.block) = m + 2
      /\ \A x \in 1..m : z.block[x] = y.block[x]
      /\ z.block[m + 1] = s /\ z.block[m + 2] = Declare(a)
  <2> DEFINE e == <<s, Declare(a)>>
  <2>1. Declare(a) \in Entries /\ s \in Entries
    BY <1>1, <1>3 DEF Entries
  <2>2. e \in Seq(Entries) /\ Len(e) = 2 /\ e[1] = s /\ e[2] = Declare(a)
    BY <2>1
  <2> HIDE DEF e
  <2>3. Joined(Entries, y.block, e, y.block \o e)
    BY <1>1, <2>2, JoinIs
  <2>4. z.block = y.block \o e
    BY DEF e
  <2>5. z.block \in Seq(Entries)
    BY DEF BlockStates
  <2> QED
    BY <1>1, <2>2, <2>3, <2>4, <2>5 DEF Joined
<1> HIDE DEF s, m
<1>5. /\ 1..(n + 1) = 1..n \cup {n + 1} /\ 1..(m + 2) = 1..m \cup {m + 1, m + 2}
      /\ n + 1 \notin 1..n /\ m + 1 \notin 1..m /\ m + 2 \notin 1..m /\ m + 1 # m + 2
      /\ \A x \in 1..m : x < m + 1 /\ x < m + 2
      /\ m + 1 < m + 2
  BY <1>4
<1>6. T[n + 1] = s /\ s = AssignTo(a)
  BY DEF s
<1>7. \A k \in 1..n : T[k] \in Statement
  <2>1. \A k \in 1..n : k \in DOMAIN T
    BY DOMAIN T = 1..Len(T), Len(T) \in Nat
  <2> QED
    BY <2>1
<1>8. ASSUME NEW x \in 1..m, NEW c \in Arrays, y.block[x] = Declare(c)
      PROVE  c \notin Elements(y.pending) /\ \E k \in 1..n : T[k] = AssignTo(c)
  <2>1. \A k \in 1..n : y.block[x] # T[k]
    BY <1>7, <1>8, EntriesDiffer
  <2>2. PICK d \in Elements(p) \ Elements(y.pending) :
          y.block[x] = Declare(d) /\ \E k \in 1..n : T[k] = AssignTo(d)
    BY <1>2, <1>4, <1>8, <2>1 DEF MembersFrom
  <2>3. d = c
    BY <1>8, <2>2, EntriesDiffer
  <2> QED
    BY <2>2, <2>3
<1>9. MembersFrom(p, T, z, n + 1)
  <2> SUFFICES ASSUME NEW x \in 1..(m + 2)
               PROVE  \/ \E k \in 1..(n + 1) : z.block[x] = T[k]
                      \/ \E c \in Elements(p) \ Elements(z.pending) :
                           z.block[x] = Declare(c) /\ \E k \in 1..(n + 1) : T[k] = AssignTo(c)
    BY <1>4 DEF MembersFrom
  <2>1. CASE x \in 1..m
    <3>1. \/ \E k \in 1..n : y.block[x] = T[k]
          \/ \E c \in Elements(p) \ Elements(y.pending) :
               y.block[x] = Declare(c) /\ \E k \in 1..n : T[k] = AssignTo(c)
      BY <1>2, <1>4, <2>1 DEF MembersFrom
    <3>2. z.block[x] = y.block[x]
      BY <1>4, <2>1
    <3> QED
      BY <1>5, <3>1, <3>2
  <2>2. CASE x = m + 1
    BY <1>4, <1>5, <1>6, <2>2
  <2>3. CASE x = m + 2
    BY <1>3, <1>4, <1>5, <1>6, <2>3
  <2> QED
    BY <1>5, <2>1, <2>2, <2>3
<1>10. OnceEach(p, z)
  <2> SUFFICES ASSUME NEW c \in Elements(p), c \notin Elements(z.pending)
               PROVE  \E x \in DOMAIN z.block : OnlyAt(z.block, Declare(c), x)
    BY DEF OnceEach
  <2>1. c \in Arrays /\ s # Declare(c)
    BY <1>1, EntriesDiffer
  <2>2. CASE c = a
    <3>1. \A w \in 1..m : y.block[w] # Declare(c)
      BY <1>8, <2>1, <2>2
    <3>2. ASSUME NEW w \in 1..(m + 2) PROVE z.block[w] = Declare(c) <=> w = m + 2
      BY <1>4, <1>5, <2>1, <2>2, <3>1
    <3>3. m + 2 \in DOMAIN z.block
      BY <1>4, <1>5
    <3> QED
      BY <1>4, <3>2, <3>3 DEF OnlyAt
  <2>3. CASE c # a
    <3>1. PICK x \in 1..m : OnlyAt(y.block, Declare(c), x)
      BY <1>2, <1>4, <2>3 DEF OnceEach
    <3>2. Declare(a) # Declare(c)
      BY <2>3, EntriesDiffer
    <3>3. ASSUME NEW w \in 1..(m + 2) PROVE z.block[w] = Declare(c) <=> w = x
      BY <1>4, <1>5, <2>1, <3>1, <3>2 DEF OnlyAt
    <3>4. x \in DOMAIN z.block
      BY <1>4, <1>5
    <3> QED
      BY <1>4, <3>3, <3>4 DEF OnlyAt
  <2> QED
    BY <2>2, <2>3
<1>11. PendingUntil(p, T, z, n + 1)
  <2> SUFFICES ASSUME NEW c \in Elements(p), Own(c)
               PROVE  c \in Elements(z.pending) <=> \A k \in 1..(n + 1) : T[k] # AssignTo(c)
    BY DEF PendingUntil
  <2>1. c \in Elements(y.pending) <=> \A k \in 1..n : T[k] # AssignTo(c)
    BY <1>2 DEF PendingUntil
  <2>2. s = AssignTo(c) <=> c = a
    BY <1>3, <1>6, AssignToOwn
  <2> QED
    BY <1>5, <1>6, <2>1, <2>2
<1>12. PlacedEach(p, T, z)
  <2> SUFFICES ASSUME NEW c \in Elements(p), Own(c), InOrder(T, c),
                      NEW x \in 1..(m + 2), NEW w \in 1..(m + 2)
               PROVE  /\ z.block[x] = AssignTo(c) /\ z.block[w] = Declare(c) => x < w
                      /\ z.block[x] = Declare(c) /\ z.block[w] = UseOf(c) => x < w
    BY <1>4 DEF PlacedEach, Placed
  <2>1. Placed(y.block, c) /\ c \in Arrays
    BY <1>2 DEF PlacedEach
  <2>2. /\ s # Declare(c) /\ s # UseOf(c) /\ Declare(a) # AssignTo(c) /\ Declare(a) # UseOf(c)
        /\ AssignTo(c) # UseOf(c)
    BY <1>1, <1>6, EntriesDiffer
  <2>3. CASE x \in 1..m /\ w \in 1..m
    BY <1>4, <2>1, <2>3 DEF Placed
  <2>4. CASE x \in 1..m /\ w \in {m + 1, m + 2}
    BY <1>5, <2>4
  <2>5. CASE x = m + 1 /\ w \in 1..m
    <3>1. ASSUME s = AssignTo(c), y.block[w] = Declare(c) PROVE FALSE
      <4>1. PICK k \in 1..n : T[k] = AssignTo(c)
        BY <1>8, <2>1, <2>5, <3>1
      <4>2. k \in DOMAIN T /\ n + 1 \in DOMAIN T /\ k # n + 1
        BY <1>5, DOMAIN T = 1..Len(T), Len(T) \in Nat
      <4> QED
        BY <1>6, <3>1, <4>1, <4>2 DEF InOrder
    <3> QED
      BY <1>4, <2>2, <2>5, <3>1
  <2>6. CASE x = m + 2 /\ w \in 1..m
    <3>1. ASSUME Declare(a) = Declare(c), y.block[w] = UseOf(c) PROVE FALSE
      <4>1. a = c
        BY <3>1, EntriesDiffer
      <4>2. PICK k \in 1..n : T[k] = UseOf(c)
        <5>1. \A d : y.block[w] # Declare(d)
          BY <3>1, EntriesDiffer
        <5>2. \/ \E k \in 1..n : y.block[w] = T[k]
              \/ \E d \in Elements(p) \ Elements(y.pending) : y.block[w] = Declare(d)
          BY <1>2, <1>4, <2>6 DEF MembersFrom
        <5> QED
          BY <3>1, <5>1, <5>2
      <4>3. k \in DOMAIN T /\ n + 1 \in DOMAIN T /\ ~(n + 1 < k)
        BY <1>5, DOMAIN T = 1..Len(T), Len(T) \in Nat
      <4> QED
        BY <1>6, <4>1, <4>2, <4>3 DEF InOrder
    <3> QED
      BY <1>4, <2>2, <2>6, <3>1
  <2>7. CASE x \in {m + 1, m + 2} /\ w \in {m + 1, m + 2}
    BY <1>4, <1>5, <2>2, <2>7
  <2> QED
    BY <1>5, <2>3, <2>4, <2>5, <2>6, <2>7
<1>13. n + 1 <= Len(z.block) /\ Elements(z.pending) \subseteq Elements(p)
  BY <1>2, <1>4
<1> QED
  BY <1>9, <1>10, <1>11, <1>12, <1>13 DEF BlockInv

BlockStart(p) == [pending |-> p, block |-> <<>>]

LEMMA BlockStarts ==
  ASSUME NEW T, NEW p \in Pending
  PROVE  BlockStart(p) \in BlockStates /\ BlockInv(p, T, BlockStart(p), 0)
<1>1. 1..0 = {} /\ DOMAIN (<<>>) = {} /\ Len(<<>>) = 0 /\ <<>> \in Seq(Entries)
  OBVIOUS
<1>2. BlockStart(p).pending = p /\ BlockStart(p).block = <<>>
  BY DEF BlockStart
<1>3. BlockStart(p) \in BlockStates
  BY <1>1 DEF BlockStart, BlockStates
<1>4. MembersFrom(p, T, BlockStart(p), 0) /\ OnceEach(p, BlockStart(p))
  BY <1>1, <1>2 DEF MembersFrom, OnceEach
<1>5. PendingUntil(p, T, BlockStart(p), 0) /\ PlacedEach(p, T, BlockStart(p))
  BY <1>1, <1>2 DEF PendingUntil, PlacedEach, Placed
<1> QED
  BY <1>1, <1>2, <1>3, <1>4, <1>5 DEF BlockInv

\* The states that the statements of a block lead through.
BlockVisits(T, p) ==
  CHOOSE visit : visit = [i \in 0..Len(T) |-> IF i = 0 THEN BlockStart(p)
                                              ELSE VisitStatement(visit[i - 1], T[i])]

LEMMA BlockVisitsAre ==
  ASSUME Inserting, NEW T \in Seq(Entries), NEW p \in Pending
  PROVE  /\ BlockVisits(T, p)[Len(T)] \in BlockStates
         /\ T \in Seq(Statement) => BlockInv(p, T, BlockVisits(T, p)[Len(T)], Len(T))
<1> DEFINE K == Len(T)
           first == BlockStart(p)
           S == BlockStates
           st == BlockVisits(T, p)
           step == [n \in 1..K |-> [y \in S |-> VisitStatement(y, T[n])]]
<1>1. K \in Nat /\ DOMAIN T = 1..K /\ \A n \in 1..K : T[n] \in Entries
  OBVIOUS
<1>2. \A n \in 1..K, y \in S : step[n][y] = VisitStatement(y, T[n]) /\ step[n][y] \in S
  BY <1>1, VisitStatementIs
<1>3. first \in S /\ BlockInv(p, T, first, 0)
  BY BlockStarts
<1> HIDE DEF step, S, K, first
<1>4. PICK R : Recursion(R, S, first, step, K)
  BY <1>1, <1>2, <1>3, RecursionDefined DEF Steps
<1>5. /\ R \in [0..K -> S] /\ R[0] = first
      /\ \A n \in 1..K : n - 1 \in 0..K /\ R[n - 1] \in S /\ R[n] = VisitStatement(R[n - 1], T[n])
  BY <1>1, <1>2, <1>4 DEF Recursion
<1>6. R = [n \in 0..K |-> IF n = 0 THEN first ELSE VisitStatement(R[n - 1], T[n])]
  <2> SUFFICES ASSUME NEW n \in 0..K
               PROVE  R[n] = IF n = 0 THEN first ELSE VisitStatement(R[n - 1], T[n])
    BY <1>5
  <2>1. n = 0 \/ (n # 0 /\ n \in 1..K)
    BY <1>1
  <2> QED
    BY <1>5, <2>1
<1>7. st = [n \in 0..K |-> IF n = 0 THEN first ELSE VisitStatement(st[n - 1], T[n])]
  BY <1>6 DEF BlockVisits, K, first
<1> HIDE DEF st
<1>8. st[0] = first /\ \A n \in 1..K : st[n] = VisitStatement(st[n - 1], T[n])
  <2>1. 0 \in 0..K /\ \A n \in 1..K : n \in 0..K /\ n # 0
    BY <1>1
  <2> QED
    BY <1>7, <2>1
<1> DEFINE Inv(n) == st[n] \in S /\ (T \in Seq(Statement) => BlockInv(p, T, st[n], n))
           N == {n \in Nat : n <= K => Inv(n)}
<1>9. 0 \in N
  BY <1>3, <1>8
<1>10. ASSUME NEW n \in N PROVE n + 1 \in N
  <2> SUFFICES ASSUME n + 1 <= K PROVE Inv(n + 1)
    OBVIOUS
  <2> DEFINE y == st[n]
             z == st[n + 1]
             s == T[n + 1]
  <2>1. n \in Nat /\ n + 1 \in 1..K /\ (n + 1) - 1 = n /\ n <= K
    BY <1>1
  <2>2. y \in BlockStates /\ (T \in Seq(Statement) => BlockInv(p, T, y, n))
    BY <2>1 DEF S
  <2>3. z = VisitStatement(y, s) /\ s \in Entries
    BY <1>1, <1>8, <2>1
  <2> HIDE DEF y, z, s
  <2>4. z \in BlockStates /\ Visited(y, s, z)
    BY <2>2, <2>3, VisitStatementIs
  <2>5. ASSUME T \in Seq(Statement) PROVE BlockInv(p, T, z, n + 1)
    <3>1. Elements(p) \subseteq Arrays
      BY DEF Pending, Elements
    <3>2. s = T[n + 1] /\ n + 1 \in DOMAIN T
      BY <1>1, <2>1 DEF s
    <3>3. prog \in Programs /\ Len(prog.funcs) = 1
      BY DEF Inserting, NamesInv, AtPlace
    <3>4. CASE /\ \A c \in Elements(y.pending) : s # AssignTo(c)
               /\ z.pending = y.pending /\ z.block = y.block \o <<s>>
      BY <2>1, <2>2, <2>4, <2>5, <3>1, <3>2, <3>4, PlainEntry
    <3>5. CASE \E c \in Elements(y.pending) :
                 /\ s = AssignTo(c) /\ Elements(z.pending) = Elements(y.pending) \ {c}
                 /\ z.block = y.block \o <<s, Declare(c)>>
      <4>1. PICK c \in Elements(y.pending) :
                 /\ s = AssignTo(c) /\ Elements(z.pending) = Elements(y.pending) \ {c}
                 /\ z.block = y.block \o <<s, Declare(c)>>
        BY <3>5
      <4> QED
        BY <2>1, <2>2, <2>4, <2>5, <3>1, <3>2, <3>3, <4>1, DeclaringEntry
    <3> QED
      BY <2>4, <3>4, <3>5 DEF Visited
  <2> QED
    BY <2>4, <2>5 DEF z, S
<1> HIDE DEF N
<1>11. K \in N /\ K <= K
  BY <1>1, <1>9, <1>10, SetInduction
<1> QED
  BY <1>11 DEF N, S, K, st

CodeStates(B) == [pending : Pending, code : [B -> Seq(Entries)]]

OnlyIn(code, s, b, x) ==
  /\ x \in DOMAIN code[b]
  /\ \A d \in DOMAIN code : \A y \in DOMAIN code[d] : code[d][y] = s <=> d = b /\ y = x

\* What the blocks and the pending arrays are after n blocks.
Unvisited(T, blocks, st, n) ==
  \A k \in DOMAIN blocks : k > n => st.code[blocks[k]] = T[blocks[k]]

CodeFrom(T, st) ==
  \A b \in DOMAIN T : \A x \in DOMAIN st.code[b] :
    \/ st.code[b][x] \in Elements(T[b])
    \/ \E c \in Arrays \ Elements(st.pending) :
         st.code[b][x] = Declare(c) /\ AssignTo(c) \in Elements(T[b])

CodeOnce(T, st) ==
  \A c \in Arrays \ Elements(st.pending) :
    \E b \in DOMAIN T : \E x \in DOMAIN st.code[b] : OnlyIn(st.code, Declare(c), b, x)

CodePending(T, blocks, st, n) ==
  \A c \in Elements(st.pending) :
    Own(c) => \A k \in 1..n : AssignTo(c) \notin Elements(T[blocks[k]])

CodePlaced(T, code) ==
  \A c \in Arrays : Own(c) /\ (\A b \in DOMAIN T : InOrder(T[b], c)) =>
    \A b \in DOMAIN T : Placed(code[b], c)

Longer(T, code) == \A b \in DOMAIN T : Len(T[b]) <= Len(code[b])

CodeInv(T, blocks, st, n) ==
  /\ Unvisited(T, blocks, st, n) /\ CodeFrom(T, st) /\ CodeOnce(T, st)
  /\ CodePending(T, blocks, st, n) /\ CodePlaced(T, st.code) /\ Longer(T, st.code)

LEMMA VisitBlockTyped ==
  ASSUME Inserting, NEW B, NEW st \in CodeStates(B), NEW b \in B
  PROVE  LET v == BlockVisits(st.code[b], st.pending)[Len(st.code[b])]
         IN /\ VisitBlock(st, b) = [pending |-> v.pending, code |-> [st.code EXCEPT ![b] = v.block]]
            /\ VisitBlock(st, b) \in CodeStates(B)
<1> DEFINE T == st.code[b]
           v == BlockVisits(T, st.pending)[Len(T)]
<1>1. VisitBlock(st, b) = [pending |-> v.pending, code |-> [st.code EXCEPT ![b] = v.block]]
  BY DEF VisitBlock, BlockVisits, BlockStart
<1>2. T \in Seq(Entries) /\ st.pending \in Pending /\ st.code \in [B -> Seq(Entries)]
  BY DEF CodeStates
<1>3. v \in BlockStates
  BY <1>2, BlockVisitsAre
<1> HIDE DEF v
<1>4. v.pending \in Pending /\ v.block \in Seq(Entries)
  BY <1>3 DEF BlockStates
<1>5. [pending |-> v.pending, code |-> [st.code EXCEPT ![b] = v.block]] \in CodeStates(B)
  BY <1>2, <1>4 DEF CodeStates
<1> QED
  BY <1>1, <1>5 DEF v

LEMMA CodeStep ==
  ASSUME Inserting, NEW T, T \in [DOMAIN T -> Seq(Statement)],
         NEW K \in Nat, NEW blocks \in [1..K -> DOMAIN T],
         \A i, j \in 1..K : blocks[i] = blocks[j] => i = j,
         NEW n \in Nat, n + 1 \in 1..K, NEW y \in CodeStates(DOMAIN T), CodeInv(T, blocks, y, n)
  PROVE  CodeInv(T, blocks, VisitBlock(y, blocks[n + 1]), n + 1)
<1> DEFINE b == blocks[n + 1]
           v == BlockVisits(y.code[b], y.pending)[Len(y.code[b])]
           z == VisitBlock(y, b)
           L == Len(T[b])
<1>1. /\ Unvisited(T, blocks, y, n) /\ CodeFrom(T, y) /\ CodeOnce(T, y)
      /\ CodePending(T, blocks, y, n) /\ CodePlaced(T, y.code) /\ Longer(T, y.code)
  BY DEF CodeInv
<1>2. b \in DOMAIN T /\ y.code[b] = T[b] /\ T[b] \in Seq(Statement) /\ T[b] \in Seq(Entries)
  <2>1. y.code[b] = T[b]
    BY <1>1 DEF Unvisited
  <2>2. T[b] \in Seq(Statement)
    OBVIOUS
  <2>3. Statement \subseteq Entries
    BY DEF Entries
  <2>4. T[b] \in Seq(Entries)
    BY <2>2, <2>3
  <2> QED
    BY <2>1, <2>2, <2>4
<1>3. y.pending \in Pending /\ y.code \in [DOMAIN T -> Seq(Entries)]
  BY DEF CodeStates
<1>4. v \in BlockStates /\ BlockInv(y.pending, T[b], v, L)
  BY <1>2, <1>3, BlockVisitsAre
<1>5. z.pending = v.pending /\ z.code = [y.code EXCEPT ![b] = v.block]
  BY <1>2, VisitBlockTyped
<1>6. L \in Nat /\ DOMAIN T[b] = 1..L /\ \A k \in 1..L : T[b][k] \in Statement
  BY <1>2
<1> HIDE DEF b, v, z, L
<1>7. /\ Elements(v.pending) \subseteq Elements(y.pending) /\ L <= Len(v.block)
      /\ MembersFrom(y.pending, T[b], v, L) /\ OnceEach(y.pending, v)
      /\ PendingUntil(y.pending, T[b], v, L) /\ PlacedEach(y.pending, T[b], v)
  BY <1>4 DEF BlockInv
<1>8. /\ DOMAIN z.code = DOMAIN T /\ DOMAIN y.code = DOMAIN T /\ z.code[b] = v.block
      /\ \A d \in DOMAIN T : d # b => z.code[d] = y.code[d]
  BY <1>2, <1>3, <1>5
<1>9. Elements(y.pending) \subseteq Arrays
  BY <1>3 DEF Pending, Elements
<1>10. Elements(T[b]) = {T[b][k] : k \in 1..L}
  BY <1>6 DEF Elements
<1>11. ASSUME NEW x \in DOMAIN v.block, NEW c, v.block[x] = Declare(c)
       PROVE  /\ c \in Elements(y.pending) \ Elements(v.pending)
              /\ AssignTo(c) \in Elements(T[b])
  <2>1. \A k \in 1..L : v.block[x] # T[b][k]
    BY <1>6, <1>11, EntriesDiffer
  <2>2. PICK d \in Elements(y.pending) \ Elements(v.pending) :
          v.block[x] = Declare(d) /\ \E k \in 1..L : T[b][k] = AssignTo(d)
    BY <1>7, <2>1 DEF MembersFrom
  <2>3. d = c
    BY <1>11, <2>2, EntriesDiffer
  <2> QED
    BY <1>10, <2>2, <2>3
<1>12. Unvisited(T, blocks, z, n + 1)
  <2> SUFFICES ASSUME NEW k \in 1..K, k > n + 1
               PROVE  z.code[blocks[k]] = T[blocks[k]]
    BY DEF Unvisited
  <2>1. k > n /\ blocks[k] # b /\ blocks[k] \in DOMAIN T
    BY DEF b
  <2> QED
    BY <1>1, <1>8, <2>1 DEF Unvisited
<1>13. CodeFrom(T, z)
  <2> SUFFICES ASSUME NEW d \in DOMAIN T, NEW x \in DOMAIN z.code[d]
               PROVE  \/ z.code[d][x] \in Elements(T[d])
                      \/ \E c \in Arrays \ Elements(z.pending) :
                           z.code[d][x] = Declare(c) /\ AssignTo(c) \in Elements(T[d])
    BY DEF CodeFrom
  <2>1. CASE d # b
    BY <1>1, <1>5, <1>7, <1>8, <2>1 DEF CodeFrom
  <2>2. CASE d = b
    <3>1. \/ \E k \in 1..L : v.block[x] = T[b][k]
          \/ \E c \in Elements(y.pending) \ Elements(v.pending) : v.block[x] = Declare(c)
      BY <1>7, <1>8, <2>2 DEF MembersFrom
    <3> QED
      BY <1>5, <1>8, <1>9, <1>10, <1>11, <2>2, <3>1
  <2> QED
    BY <2>1, <2>2
<1>14. CodeOnce(T, z)
  <2> SUFFICES ASSUME NEW c \in Arrays, c \notin Elements(v.pending)
               PROVE  \E d \in DOMAIN T : \E x \in DOMAIN z.code[d] : OnlyIn(z.code, Declare(c), d, x)
    BY <1>5 DEF CodeOnce
  <2>1. CASE c \notin Elements(y.pending)
    <3>0. PICK d \in DOMAIN T : \E x \in DOMAIN y.code[d] : OnlyIn(y.code, Declare(c), d, x)
      BY <1>1, <2>1 DEF CodeOnce
    <3>1. PICK x \in DOMAIN y.code[d] : OnlyIn(y.code, Declare(c), d, x)
      BY <3>0
    <3>2. d # b
      <4>1. y.code[d][x] = Declare(c)
        BY <1>8, <3>1 DEF OnlyIn
      <4>2. \A k \in DOMAIN T[b] : T[b][k] # Declare(c)
        BY <1>6, EntriesDiffer
      <4> QED
        BY <1>2, <4>1, <4>2
    <3>3. \A w \in DOMAIN v.block : v.block[w] # Declare(c)
      BY <1>11, <2>1
    <3>4. OnlyIn(z.code, Declare(c), d, x)
      BY <1>8, <3>1, <3>2, <3>3 DEF OnlyIn
    <3> QED
      BY <1>8, <3>2, <3>4
  <2>2. CASE c \in Elements(y.pending)
    <3>1. PICK x \in DOMAIN v.block : OnlyAt(v.block, Declare(c), x)
      BY <1>7, <2>2 DEF OnceEach
    <3>2. ASSUME NEW d \in DOMAIN T, d # b, NEW w \in DOMAIN y.code[d]
          PROVE  y.code[d][w] # Declare(c)
      <4> SUFFICES ASSUME y.code[d][w] = Declare(c) PROVE FALSE
        OBVIOUS
      <4>1. \A s \in Elements(T[d]) : s # Declare(c)
        <5>1. T[d] \in Seq(Statement)
          OBVIOUS
        <5>2. \A k \in DOMAIN T[d] : T[d][k] \in Statement
          BY <5>1, ElementOf
        <5> QED
          BY <5>2, EntriesDiffer DEF Elements
      <4>2. PICK e \in Arrays \ Elements(y.pending) : y.code[d][w] = Declare(e)
        BY <1>1, <4>1 DEF CodeFrom
      <4> QED
        BY <2>2, <4>2, EntriesDiffer
    <3>3. OnlyIn(z.code, Declare(c), b, x)
      BY <1>8, <3>1, <3>2 DEF OnlyIn, OnlyAt
    <3> QED
      BY <1>2, <1>8, <3>3
  <2> QED
    BY <2>1, <2>2
<1>15. CodePending(T, blocks, z, n + 1)
  <2> SUFFICES ASSUME NEW c \in Elements(v.pending), Own(c), NEW k \in 1..(n + 1)
               PROVE  AssignTo(c) \notin Elements(T[blocks[k]])
    BY <1>5 DEF CodePending
  <2>1. CASE k \in 1..n
    BY <1>1, <1>7, <2>1 DEF CodePending
  <2>2. CASE k = n + 1
    BY <1>7, <1>10, <2>2 DEF PendingUntil, b
  <2> QED
    BY <2>1, <2>2
<1>16. CodePlaced(T, z.code)
  <2> SUFFICES ASSUME NEW c \in Arrays, Own(c), \A d \in DOMAIN T : InOrder(T[d], c),
                      NEW d \in DOMAIN T
               PROVE  Placed(z.code[d], c)
    BY DEF CodePlaced
  <2>1. CASE d # b
    BY <1>1, <1>8, <2>1 DEF CodePlaced
  <2>2. CASE d = b /\ c \in Elements(y.pending)
    BY <1>2, <1>7, <1>8, <2>2 DEF PlacedEach
  <2>3. CASE d = b /\ c \notin Elements(y.pending)
    <3>1. \A w \in DOMAIN v.block : v.block[w] # Declare(c)
      BY <1>11, <2>3
    <3> QED
      BY <1>8, <2>3, <3>1 DEF Placed
  <2> QED
    BY <2>1, <2>2, <2>3
<1>17. Longer(T, z.code)
  BY <1>1, <1>7, <1>8 DEF Longer, L
<1>18. CodeInv(T, blocks, z, n + 1)
  BY <1>12, <1>13, <1>14, <1>15, <1>16, <1>17 DEF CodeInv
<1> QED
  BY <1>18 DEF z, b

LEMMA LengthIs ==
  ASSUME NEW S, NEW K \in Nat, NEW s \in [1..K -> S]
  PROVE  s \in Seq(S) /\ Len(s) = K
OBVIOUS

LEMMA CodeStarts ==
  ASSUME NEW T, T \in [DOMAIN T -> Seq(Statement)], NEW blocks,
         NEW p \in Pending, Elements(p) = Arrays
  PROVE  /\ [pending |-> p, code |-> T] \in CodeStates(DOMAIN T)
         /\ CodeInv(T, blocks, [pending |-> p, code |-> T], 0)
<1> DEFINE st == [pending |-> p, code |-> T]
<1>1. ASSUME NEW b \in DOMAIN T
      PROVE  /\ T[b] \in Seq(Entries)
             /\ \A x \in DOMAIN T[b] : T[b][x] \in Statement /\ T[b][x] \in Elements(T[b])
  <2>1. T[b] \in Seq(Statement)
    OBVIOUS
  <2>2. \A x \in DOMAIN T[b] : T[b][x] \in Statement
    BY <2>1, ElementOf
  <2>3. Statement \subseteq Entries
    BY DEF Entries
  <2>4. T[b] \in Seq(Entries)
    BY <2>1, <2>3
  <2> QED
    BY <2>2, <2>4 DEF Elements
<1>2. st.pending = p /\ st.code = T
  OBVIOUS
<1>3. st \in CodeStates(DOMAIN T)
  <2>1. T \in [DOMAIN T -> Seq(Entries)]
    BY <1>1
  <2> QED
    BY <2>1 DEF CodeStates
<1> HIDE DEF st
<1>4. Unvisited(T, blocks, st, 0)
  BY <1>2 DEF Unvisited
<1>5. CodeFrom(T, st)
  BY <1>1, <1>2 DEF CodeFrom
<1>6. CodeOnce(T, st)
  BY <1>2 DEF CodeOnce
<1>7. CodePending(T, blocks, st, 0)
  <2>1. 1..0 = {}
    OBVIOUS
  <2> QED
    BY <2>1 DEF CodePending
<1>8. CodePlaced(T, T)
  BY <1>1, EntriesDiffer DEF CodePlaced, Placed
<1>9. Longer(T, T)
  <2>1. \A b \in DOMAIN T : Len(T[b]) \in Nat
    BY <1>1
  <2> QED
    BY <2>1 DEF Longer
<1> QED
  BY <1>2, <1>3, <1>4, <1>5, <1>6, <1>7, <1>8, <1>9 DEF CodeInv, st

LEMMA VisitBlocksIs ==
  ASSUME Inserting, NEW T, T = text[f], T \in [DOMAIN T -> Seq(Statement)],
         NEW K \in Nat, NEW blocks \in [1..K -> DOMAIN T],
         \A i, j \in 1..K : blocks[i] = blocks[j] => i = j,
         NEW p \in Pending, Elements(p) = Arrays
  PROVE  /\ VisitBlocks(blocks, p) \in CodeStates(DOMAIN T)
         /\ CodeInv(T, blocks, VisitBlocks(blocks, p), K)
<1> DEFINE first == [pending |-> p, code |-> T]
           S == CodeStates(DOMAIN T)
           st == CHOOSE visit : visit = [i \in 0..K |-> IF i = 0 THEN first
                                              ELSE VisitBlock(visit[i - 1], blocks[i])]
           step == [n \in 1..K |-> [y \in S |-> VisitBlock(y, blocks[n])]]
<1>1. Len(blocks) = K
  BY LengthIs
<1>2. VisitBlocks(blocks, p) = st[K]
  BY <1>1 DEF VisitBlocks
<1>3. \A n \in 1..K, y \in S : step[n][y] = VisitBlock(y, blocks[n]) /\ step[n][y] \in S
  BY VisitBlockTyped
<1>4. first \in S /\ CodeInv(T, blocks, first, 0)
  BY CodeStarts
<1> HIDE DEF step, S, first
<1>5. PICK R : Recursion(R, S, first, step, K)
  BY <1>3, <1>4, RecursionDefined DEF Steps
<1>6. /\ R \in [0..K -> S] /\ R[0] = first
      /\ \A n \in 1..K : n - 1 \in 0..K /\ R[n - 1] \in S /\ R[n] = VisitBlock(R[n - 1], blocks[n])
  <2>1. R \in [0..K -> S] /\ R[0] = first /\ \A n \in 1..K : R[n] = step[n][R[n - 1]]
    BY <1>5 DEF Recursion
  <2>2. \A n \in 1..K : n - 1 \in 0..K
    OBVIOUS
  <2>3. \A n \in 1..K : R[n - 1] \in S
    BY <2>1, <2>2
  <2> QED
    BY <1>3, <2>1, <2>2, <2>3
<1>7. R = [n \in 0..K |-> IF n = 0 THEN first ELSE VisitBlock(R[n - 1], blocks[n])]
  <2> SUFFICES ASSUME NEW n \in 0..K
               PROVE  R[n] = IF n = 0 THEN first ELSE VisitBlock(R[n - 1], blocks[n])
    BY <1>6
  <2>1. n = 0 \/ (n # 0 /\ n \in 1..K)
    OBVIOUS
  <2> QED
    BY <1>6, <2>1
<1>8. st = [n \in 0..K |-> IF n = 0 THEN first ELSE VisitBlock(st[n - 1], blocks[n])]
  BY <1>7
<1> HIDE DEF st
<1>9. st[0] = first /\ \A n \in 1..K : st[n] = VisitBlock(st[n - 1], blocks[n])
  <2>1. 0 \in 0..K /\ \A n \in 1..K : n \in 0..K /\ n # 0
    OBVIOUS
  <2> QED
    BY <1>8, <2>1
<1> DEFINE N == {n \in Nat : n <= K => st[n] \in S /\ CodeInv(T, blocks, st[n], n)}
<1>10. 0 \in N
  BY <1>4, <1>9
<1>11. ASSUME NEW n \in N PROVE n + 1 \in N
  <2> SUFFICES ASSUME n + 1 <= K
               PROVE  st[n + 1] \in S /\ CodeInv(T, blocks, st[n + 1], n + 1)
    OBVIOUS
  <2> DEFINE y == st[n]
             z == st[n + 1]
  <2>1. n \in Nat /\ n + 1 \in 1..K /\ (n + 1) - 1 = n /\ n <= K
    OBVIOUS
  <2>2. y \in CodeStates(DOMAIN T) /\ CodeInv(T, blocks, y, n)
    BY <2>1 DEF S
  <2>3. z = VisitBlock(y, blocks[n + 1]) /\ blocks[n + 1] \in DOMAIN T
    BY <1>9, <2>1
  <2> HIDE DEF y, z
  <2>4. z \in CodeStates(DOMAIN T)
    BY <2>2, <2>3, VisitBlockTyped
  <2>5. CodeInv(T, blocks, z, n + 1)
    BY <2>1, <2>2, <2>3, CodeStep
  <2> QED
    BY <2>4, <2>5 DEF z, S
<1> HIDE DEF N
<1>12. K \in N /\ K <= K
  BY <1>10, <1>11, SetInduction
<1> QED
  BY <1>2, <1>12 DEF N, S

\* The declarations that are put in front of a block.
Declarations(p) == Reverse([i \in DOMAIN p |-> Declare(p[i])])

LEMMA DeclarationsAre ==
  ASSUME NEW p \in Pending
  PROVE  /\ Declarations(p) \in Seq(Entries)
         /\ \A x \in DOMAIN Declarations(p) :
              \E c \in Elements(p) : Declarations(p)[x] = Declare(c)
         /\ \A c \in Elements(p) : \E x \in DOMAIN Declarations(p) :
              OnlyAt(Declarations(p), Declare(c), x)
<1> DEFINE L == Len(p)
           ds == [i \in DOMAIN p |-> Declare(p[i])]
           r == Declarations(p)
<1>1. /\ p \in Seq(Arrays) /\ L \in Nat /\ DOMAIN p = 1..L /\ Distinct(p)
      /\ \A i \in 1..L : p[i] \in Arrays /\ p[i] \in Elements(p)
  BY DEF Pending, Elements
<1>2. ds \in [1..L -> Entries]
  BY <1>1 DEF Entries
<1>3. Len(ds) = L
  BY <1>1, <1>2, LengthIs
<1>4. r = [i \in 1..L |-> ds[(L - i) + 1]]
  BY <1>3 DEF Declarations, Reverse
<1>5. \A i \in 1..L : (L - i) + 1 \in 1..L /\ r[i] = Declare(p[(L - i) + 1])
  BY <1>1, <1>4
<1> HIDE DEF ds, r, L
<1>6. r \in [1..L -> Entries]
  <2>1. \A i \in 1..L : r[i] \in Entries
    BY <1>1, <1>5 DEF Entries
  <2> QED
    BY <1>4, <2>1
<1>7. r \in Seq(Entries) /\ DOMAIN r = 1..L
  BY <1>1, <1>6, LengthIs
<1>8. \A x \in 1..L : \E c \in Elements(p) : r[x] = Declare(c)
  BY <1>1, <1>5
<1>9. ASSUME NEW c \in Elements(p) PROVE \E x \in 1..L : OnlyAt(r, Declare(c), x)
  <2>1. PICK k \in 1..L : p[k] = c
    BY <1>1 DEF Elements
  <2> DEFINE x == (L - k) + 1
  <2>2. x \in 1..L /\ \A y \in 1..L : (L - y) + 1 = k <=> y = x
    BY <1>1
  <2>3. \A y \in 1..L : r[y] = Declare(c) <=> (L - y) + 1 = k
    BY <1>1, <1>5, <2>1, EntriesDiffer DEF Distinct
  <2> QED
    BY <1>7, <2>2, <2>3 DEF OnlyAt
<1> QED
  BY <1>7, <1>8, <1>9 DEF r

\* The code of the only function in the end.
FinalCode(T, code) ==
  /\ DOMAIN code = DOMAIN T
  /\ \A c \in Arrays : \E b \in DOMAIN T : \E x \in DOMAIN code[b] : OnlyIn(code, Declare(c), b, x)
  /\ \A b \in DOMAIN T : \A x \in DOMAIN code[b] :
       code[b][x] \in Elements(T[b]) \/ \E c \in Arrays : code[b][x] = Declare(c)
  /\ \A c \in Arrays :
       Own(c) /\ (\A b \in DOMAIN T : InOrder(T[b], c))
         /\ (\E b \in DOMAIN T : AssignTo(c) \in Elements(T[b]))
       => \A b \in DOMAIN T :
            /\ Placed(code[b], c)
            /\ \A x \in DOMAIN code[b] : code[b][x] = Declare(c) => AssignTo(c) \in Elements(T[b])

\* The declarations ds go in front of block b.
LEMMA InFront ==
  ASSUME NEW T, T \in [DOMAIN T -> Seq(Statement)], NEW blocks, NEW K \in Nat,
         \A b \in DOMAIN T : \E k \in 1..K : blocks[k] = b,
         NEW st \in CodeStates(DOMAIN T), CodeInv(T, blocks, st, K), NEW b \in DOMAIN T
  PROVE  FinalCode(T, [st.code EXCEPT ![b] = Declarations(st.pending) \o @])
<1> DEFINE ds == Declarations(st.pending)
           code == [st.code EXCEPT ![b] = ds \o @]
           p == Elements(st.pending)
           old == st.code[b]
           D == Len(ds)
           L == Len(old)
<1>1. /\ CodeFrom(T, st) /\ CodeOnce(T, st) /\ CodePending(T, blocks, st, K) /\ CodePlaced(T, st.code)
      /\ st.pending \in Pending /\ st.code \in [DOMAIN T -> Seq(Entries)] /\ p \subseteq Arrays
  BY DEF CodeInv, CodeStates, Pending, Elements
<1>2. /\ ds \in Seq(Entries)
      /\ \A x \in DOMAIN ds : \E c \in p : ds[x] = Declare(c)
      /\ \A c \in p : \E x \in DOMAIN ds : OnlyAt(ds, Declare(c), x)
  BY <1>1, DeclarationsAre
<1>3. /\ code[b] = ds \o old /\ DOMAIN code = DOMAIN T
      /\ \A d \in DOMAIN T : d # b => code[d] = st.code[d]
      /\ old \in Seq(Entries)
  BY <1>1
<1> HIDE DEF ds, code, p, old
<1>4. /\ D \in Nat /\ L \in Nat /\ DOMAIN ds = 1..D /\ DOMAIN old = 1..L
      /\ DOMAIN code[b] = 1..(D + L)
      /\ \A x \in 1..D : code[b][x] = ds[x]
      /\ \A x \in 1..L : code[b][D + x] = old[x]
  <2>1. Joined(Entries, ds, old, ds \o old)
    BY <1>2, <1>3, JoinIs
  <2> QED
    BY <1>2, <1>3, <2>1 DEF Joined
<1> HIDE DEF D, L
<1>5. \A x \in 1..(D + L) : x \in 1..D \/ \E w \in 1..L : x = D + w
  <2> SUFFICES ASSUME NEW x \in 1..(D + L), x \notin 1..D PROVE \E w \in 1..L : x = D + w
    OBVIOUS
  <2>1. x - D \in 1..L /\ x = D + (x - D)
    BY <1>4
  <2> QED
    BY <2>1
<1>6. \A d \in DOMAIN T : \A k \in DOMAIN T[d] : T[d][k] \in Statement
  <2>1. \A d \in DOMAIN T : T[d] \in Seq(Statement)
    OBVIOUS
  <2> QED
    BY <2>1, ElementOf
<1>7. \A d \in DOMAIN T : \A s \in Elements(T[d]) : \A c : s # Declare(c)
  BY <1>6, EntriesDiffer DEF Elements
<1>8. ASSUME NEW d \in DOMAIN T, NEW x \in DOMAIN st.code[d], NEW c, st.code[d][x] = Declare(c)
      PROVE  c \notin p /\ AssignTo(c) \in Elements(T[d])
  <2>1. PICK e \in Arrays \ p : st.code[d][x] = Declare(e) /\ AssignTo(e) \in Elements(T[d])
    <3>1. \/ st.code[d][x] \in Elements(T[d])
          \/ \E e \in Arrays \ p : st.code[d][x] = Declare(e) /\ AssignTo(e) \in Elements(T[d])
      BY <1>1 DEF CodeFrom, p
    <3> QED
      BY <1>7, <1>8, <3>1
  <2> QED
    BY <1>8, <2>1, EntriesDiffer
<1>9. ASSUME NEW c \in Arrays
      PROVE  \E d \in DOMAIN T : \E x \in DOMAIN code[d] : OnlyIn(code, Declare(c), d, x)
  <2>1. CASE c \in p
    <3>1. PICK x \in 1..D : OnlyAt(ds, Declare(c), x)
      BY <1>2, <1>4, <2>1
    <3>2. \A d \in DOMAIN T : \A y \in DOMAIN st.code[d] : st.code[d][y] # Declare(c)
      BY <1>8, <2>1
    <3>3. ASSUME NEW y \in 1..(D + L) PROVE code[b][y] = Declare(c) <=> y = x
      <4>1. CASE y \in 1..D
        BY <1>4, <3>1, <4>1 DEF OnlyAt
      <4>2. CASE y \notin 1..D
        <5>1. PICK w \in 1..L : y = D + w
          BY <1>5, <4>2
        <5> QED
          <6>1. code[b][y] = old[w] /\ y # x
            BY <1>4, <3>1, <4>2, <5>1
          <6>2. w \in DOMAIN st.code[b] /\ old[w] = st.code[b][w]
            BY <1>4 DEF old
          <6> QED
            BY <3>2, <6>1, <6>2
      <4> QED
        BY <4>1, <4>2
    <3>4. x \in 1..(D + L)
      BY <1>4
    <3>5. \A d \in DOMAIN T : d # b => \A y \in DOMAIN code[d] : code[d][y] # Declare(c)
      BY <1>3, <3>2
    <3>6. OnlyIn(code, Declare(c), b, x)
      BY <1>3, <1>4, <3>3, <3>4, <3>5 DEF OnlyIn
    <3> QED
      BY <1>4, <3>4, <3>6
  <2>2. CASE c \notin p
    <3>0. PICK d \in DOMAIN T : \E x \in DOMAIN st.code[d] : OnlyIn(st.code, Declare(c), d, x)
      BY <1>1, <2>2 DEF CodeOnce, p
    <3>1. PICK x \in DOMAIN st.code[d] : OnlyIn(st.code, Declare(c), d, x)
      BY <3>0
    <3>2. \A y \in 1..D : ds[y] # Declare(c)
      BY <1>2, <1>4, <2>2, EntriesDiffer
    <3>3. CASE d = b
      <4>1. x \in 1..L /\ \A y \in 1..L : old[y] = Declare(c) <=> y = x
        BY <1>1, <1>4, <3>1, <3>3 DEF OnlyIn, old
      <4>2. ASSUME NEW y \in 1..(D + L) PROVE code[b][y] = Declare(c) <=> y = D + x
        <5>1. CASE y \in 1..D
          BY <1>4, <3>2, <4>1, <5>1
        <5>2. CASE y \notin 1..D
          <6>1. PICK w \in 1..L : y = D + w
            BY <1>5, <5>2
          <6> QED
            BY <1>4, <4>1, <6>1
        <5> QED
          BY <5>1, <5>2
      <4>3. D + x \in 1..(D + L)
        BY <1>4, <4>1
      <4>4. \A e \in DOMAIN T : e # b => \A y \in DOMAIN code[e] : code[e][y] # Declare(c)
        BY <1>1, <1>3, <3>1, <3>3 DEF OnlyIn
      <4>5. OnlyIn(code, Declare(c), b, D + x)
        BY <1>3, <1>4, <4>2, <4>3, <4>4 DEF OnlyIn
      <4> QED
        BY <1>4, <4>3, <4>5
    <3>4. CASE d # b
      <4>1. \A y \in 1..L : old[y] # Declare(c)
        BY <1>1, <1>4, <3>1, <3>4 DEF OnlyIn, old
      <4>2. ASSUME NEW y \in 1..(D + L) PROVE code[b][y] # Declare(c)
        BY <1>4, <1>5, <3>2, <4>1
      <4>3. OnlyIn(code, Declare(c), d, x)
        <5>1. x \in DOMAIN code[d] /\ \A y \in DOMAIN code[d] : code[d][y] = Declare(c) <=> y = x
          BY <1>1, <1>3, <3>1, <3>4 DEF OnlyIn
        <5>2. \A e \in DOMAIN T : e # b /\ e # d =>
                \A y \in DOMAIN code[e] : code[e][y] # Declare(c)
          BY <1>1, <1>3, <3>1 DEF OnlyIn
        <5> QED
          BY <1>3, <1>4, <3>4, <4>2, <5>1, <5>2 DEF OnlyIn
      <4> QED
        BY <1>3, <3>1, <3>4, <4>3
    <3> QED
      BY <3>3, <3>4
  <2> QED
    BY <2>1, <2>2
<1>10. ASSUME NEW d \in DOMAIN T, NEW x \in DOMAIN code[d]
       PROVE  code[d][x] \in Elements(T[d]) \/ \E c \in Arrays : code[d][x] = Declare(c)
  <2>1. \A y \in DOMAIN st.code[d] :
          st.code[d][y] \in Elements(T[d]) \/ \E c \in Arrays : st.code[d][y] = Declare(c)
    BY <1>1 DEF CodeFrom
  <2>2. CASE d # b
    BY <1>3, <2>1, <2>2
  <2>3. CASE d = b /\ x \in 1..D
    BY <1>1, <1>2, <1>4, <2>3
  <2>4. CASE d = b /\ x \notin 1..D
    <3>1. PICK w \in 1..L : x = D + w
      BY <1>4, <1>5, <2>4
    <3> QED
      BY <1>4, <2>1, <2>4, <3>1 DEF old
  <2> QED
    BY <2>2, <2>3, <2>4
<1>11. ASSUME NEW c \in Arrays, Own(c), \A d \in DOMAIN T : InOrder(T[d], c),
              \E d \in DOMAIN T : AssignTo(c) \in Elements(T[d]), NEW e \in DOMAIN T
       PROVE  /\ Placed(code[e], c)
              /\ \A x \in DOMAIN code[e] : code[e][x] = Declare(c) => AssignTo(c) \in Elements(T[e])
  <2>1. c \notin p
    BY <1>1, <1>11 DEF CodePending, p
  <2>2. Placed(st.code[e], c)
    BY <1>1, <1>11 DEF CodePlaced
  <2>3. CASE e # b
    BY <1>3, <1>8, <2>2, <2>3
  <2>4. CASE e = b
    <3>1. \A y \in 1..D : code[b][y] # Declare(c) /\ code[b][y] # AssignTo(c) /\ code[b][y] # UseOf(c)
      <4> SUFFICES ASSUME NEW y \in 1..D
                   PROVE  ds[y] # Declare(c) /\ ds[y] # AssignTo(c) /\ ds[y] # UseOf(c)
        BY <1>4
      <4>1. PICK a \in p : ds[y] = Declare(a)
        BY <1>2, <1>4
      <4>2. a # c
        BY <2>1
      <4> QED
        BY <4>1, <4>2, EntriesDiffer
    <3>2. \A x, y \in 1..L : /\ old[x] = AssignTo(c) /\ old[y] = Declare(c) => x < y
                             /\ old[x] = Declare(c) /\ old[y] = UseOf(c) => x < y
      BY <1>4, <2>2, <2>4 DEF Placed, old
    <3>3. ASSUME NEW x \in 1..(D + L), NEW y \in 1..(D + L)
          PROVE  /\ code[b][x] = AssignTo(c) /\ code[b][y] = Declare(c) => x < y
                 /\ code[b][x] = Declare(c) /\ code[b][y] = UseOf(c) => x < y
      <4>1. CASE x \in 1..D \/ y \in 1..D
        BY <3>1, <4>1
      <4>2. CASE x \notin 1..D /\ y \notin 1..D
        <5>1. PICK w \in 1..L : x = D + w
          BY <1>5, <4>2
        <5>2. PICK z \in 1..L : y = D + z
          BY <1>5, <4>2
        <5>3. w < z => x < y
          BY <1>4, <5>1, <5>2
        <5> QED
          BY <1>4, <3>2, <5>1, <5>2, <5>3
      <4> QED
        BY <4>1, <4>2
    <3>4. Placed(code[b], c)
      BY <1>4, <3>3 DEF Placed
    <3>5. ASSUME NEW x \in 1..(D + L), code[b][x] = Declare(c) PROVE AssignTo(c) \in Elements(T[b])
      <4>1. PICK w \in 1..L : x = D + w
        BY <1>5, <3>1, <3>5
      <4> QED
        <5>1. old[w] = Declare(c)
          BY <1>4, <3>5, <4>1
        <5>2. w \in DOMAIN st.code[b] /\ st.code[b][w] = Declare(c)
          BY <1>4, <5>1 DEF old
        <5> QED
          BY <1>8, <5>2
    <3> QED
      BY <1>4, <2>4, <3>4, <3>5
  <2> QED
    BY <2>3, <2>4
<1>12. FinalCode(T, code)
  BY <1>3, <1>9, <1>10, <1>11 DEF FinalCode
<1> QED
  BY <1>12 DEF code, ds

\* What is left goes in front of a block that is not empty; there is one.
LEMMA FallbackIs ==
  ASSUME NEW T, T \in [DOMAIN T -> Seq(Statement)], NEW K \in Nat,
         NEW blocks \in [1..K -> DOMAIN T], \A b \in DOMAIN T : \E k \in 1..K : blocks[k] = b,
         NEW st \in CodeStates(DOMAIN T), CodeInv(T, blocks, st, K),
         Arrays # {} => \E b \in DOMAIN T : T[b] # <<>>
  PROVE  FinalCode(T, Fallback(st, blocks))
<1> DEFINE filled == {i \in DOMAIN blocks : st.code[blocks[i]] # <<>>}
           first == CHOOSE i \in filled : \A j \in filled : i <= j
<1>1. CASE filled = {}
  <2>1. \A b \in DOMAIN T : st.code[b] = <<>>
    BY <1>1
  <2>2. \A b \in DOMAIN T : T[b] = <<>>
    <3> SUFFICES ASSUME NEW b \in DOMAIN T PROVE T[b] = <<>>
      OBVIOUS
    <3>1. Len(T[b]) <= Len(st.code[b]) /\ T[b] \in Seq(Statement)
      BY DEF CodeInv, Longer
    <3>2. Len(st.code[b]) = 0
      BY <2>1
    <3> QED
      BY <3>1, <3>2
  <2>3. Arrays = {}
    BY <2>2
  <2>4. Fallback(st, blocks) = st.code
    BY <1>1 DEF Fallback
  <2>5. DOMAIN st.code = DOMAIN T
    BY DEF CodeStates
  <2>6. \A b \in DOMAIN T : DOMAIN st.code[b] = {}
    BY <2>1
  <2> QED
    BY <2>3, <2>4, <2>5, <2>6 DEF FinalCode
<1>2. CASE filled # {}
  <2>1. filled \subseteq Nat
    OBVIOUS
  <2>2. \E i \in filled : \A j \in filled : i <= j
    BY <1>2, <2>1, LeastNumber
  <2>3. first \in filled
    BY <2>2
  <2>4. blocks[first] \in DOMAIN T
    BY <2>3
  <2>5. Fallback(st, blocks) = [st.code EXCEPT ![blocks[first]] = Declarations(st.pending) \o @]
    BY <1>2 DEF Fallback, Declarations
  <2> DEFINE b == blocks[first]
  <2> HIDE DEF first
  <2>6. b \in DOMAIN T /\ Fallback(st, blocks) = [st.code EXCEPT ![b] = Declarations(st.pending) \o @]
    BY <2>4, <2>5
  <2> HIDE DEF b
  <2>7. FinalCode(T, [st.code EXCEPT ![b] = Declarations(st.pending) \o @])
    BY <2>6, InFront
  <2> QED
    BY <2>6, <2>7
<1> QED
  BY <1>1, <1>2

-----------------------------------------------------------------------------
(* The orders of blocks and arrays *)

LEMMA OrderIs ==
  ASSUME NEW S, IsFiniteSet(S), NEW s \in Orders(S)
  PROVE  /\ Cardinality(S) \in Nat /\ s \in [1..Cardinality(S) -> S]
         /\ \A i, j \in 1..Cardinality(S) : s[i] = s[j] => i = j
         /\ \A x \in S : \E i \in 1..Cardinality(S) : s[i] = x
<1> DEFINE C == Cardinality(S)
           D == 1..C
<1>1. C \in Nat
  BY FS_CardinalityType
<1>2. s \in [D -> S] /\ \A i, j \in D : s[i] = s[j] => i = j
  BY DEF Orders
<1>3. s \in Injection(D, S)
  BY <1>2 DEF Injection, IsInjective
<1>4. IsFiniteSet(D) /\ Cardinality(D) = C
  <2>1. 1 \in Int /\ C \in Int
    BY <1>1
  <2> HIDE DEF C
  <2>2. IsFiniteSet(1..C) /\ Cardinality(1..C) = IF 1 > C THEN 0 ELSE C - 1 + 1
    BY <2>1, FS_Interval
  <2> QED
    BY <1>1, <2>2
<1> HIDE DEF C, D
<1>5. s \in Surjection(D, S)
  BY <1>3, <1>4, FS_Injection DEF C
<1> QED
  BY <1>1, <1>2, <1>5 DEF Surjection, D, C

\* The order of the arrays makes each of them pending once.
LEMMA ArrayOrderIs ==
  ASSUME prog \in Programs, Len(prog.funcs) = 1, NEW p \in Orders(Arrays)
  PROVE  p \in Pending /\ Elements(p) = Arrays
<1> DEFINE V == VarsOf(1, {"vla"})
           h == [v \in V |-> <<1, v>>]
<1>1. Funcs = {1}
  BY OneFunction
<1>2. Arrays = {<<1, v>> : v \in V}
  BY <1>1 DEF Arrays
<1>3. IsFiniteSet(V)
  BY <1>1, VarsAre
<1>4. h \in Surjection(V, Arrays)
  BY <1>2 DEF Surjection
<1> HIDE DEF V, h
<1>5. IsFiniteSet(Arrays)
  BY <1>3, <1>4, FS_Surjection
<1> DEFINE C == Cardinality(Arrays)
<1>6. /\ C \in Nat /\ p \in [1..C -> Arrays]
      /\ \A i, j \in 1..C : p[i] = p[j] => i = j
      /\ \A x \in Arrays : \E i \in 1..C : p[i] = x
  BY <1>5, OrderIs
<1> HIDE DEF C
<1>7. p \in Seq(Arrays)
  BY <1>6, LengthIs
<1> QED
  BY <1>6, <1>7 DEF Pending, Distinct, Elements

-----------------------------------------------------------------------------
(* The statements of the code *)

\* Statements(code), in the first n entries of the code.
Kept(g, code) ==
  CHOOSE kept : kept = [n \in 0..Len(code) |->
    IF n = 0 THEN <<>>
    ELSE IF code[n].op = "alloca" THEN kept[n - 1]
    ELSE Append(kept[n - 1], [op |-> code[n].op, at |-> <<g, code[n].v>>])]

StatementsOf(g, code) == Kept(g, code)[Len(code)]

LEMMA StatementsAre == ASSUME NEW code PROVE Statements(code) = StatementsOf(f, code)
BY DEF Statements, StatementsOf, Kept

Stated(s) == [op |-> s.op, at |-> <<1, s.v>>]

\* The places in the code of the statements s.
KeptFrom(code, s, n, from) ==
  /\ from \in [DOMAIN s -> 1..n]
  /\ \A x \in DOMAIN s : code[from[x]].op # "alloca" /\ s[x] = Stated(code[from[x]])
  /\ \A x, y \in DOMAIN s : x < y => from[x] < from[y]
  /\ \A i \in 1..n : code[i].op # "alloca" => \E x \in DOMAIN s : from[x] = i

CodeEntry == [op : {"alloca", "assign", "use"}, v : DOMAIN Fn(1).vars]

LEMMA StatedTyped ==
  ASSUME NEW s \in CodeEntry, s.op # "alloca"
  PROVE  Stated(s) \in Statement
<1>1. s.op \in {"assign", "use"} /\ s.v \in DOMAIN Fn(1).vars
  BY DEF CodeEntry
<1> QED
  BY <1>1 DEF Stated, Statement

LEMMA AppendIs ==
  ASSUME NEW S, NEW s \in Seq(S), NEW e \in S
  PROVE  /\ Append(s, e) \in Seq(S) /\ Len(s) \in Nat /\ DOMAIN s = 1..Len(s)
         /\ DOMAIN Append(s, e) = 1..(Len(s) + 1)
         /\ \A x \in 1..Len(s) : Append(s, e)[x] = s[x]
         /\ Append(s, e)[Len(s) + 1] = e
OBVIOUS

LEMMA KeptStep ==
  ASSUME NEW n \in Nat, NEW code, NEW s \in Seq(Statement), NEW from,
         KeptFrom(code, s, n, from), code[n + 1] \in CodeEntry,
         NEW z, z = IF code[n + 1].op = "alloca" THEN s ELSE Append(s, Stated(code[n + 1]))
  PROVE  z \in Seq(Statement) /\ \E to : KeptFrom(code, z, n + 1, to)
<1>1. /\ from \in [DOMAIN s -> 1..n]
      /\ \A x \in DOMAIN s : code[from[x]].op # "alloca" /\ s[x] = Stated(code[from[x]])
      /\ \A x, y \in DOMAIN s : x < y => from[x] < from[y]
      /\ \A i \in 1..n : code[i].op # "alloca" => \E x \in DOMAIN s : from[x] = i
  BY DEF KeptFrom
<1>2. CASE code[n + 1].op = "alloca"
  <2>1. z = s
    BY <1>2
  <2>2. from \in [DOMAIN s -> 1..(n + 1)]
    BY <1>1
  <2>3. \A i \in 1..(n + 1) : code[i].op # "alloca" => i \in 1..n
    BY <1>2
  <2>4. KeptFrom(code, s, n + 1, from)
    BY <1>1, <2>2, <2>3 DEF KeptFrom
  <2> QED
    BY <2>1, <2>4
<1>3. CASE code[n + 1].op # "alloca"
  <2> DEFINE e == Stated(code[n + 1])
             L == Len(s)
             to == [x \in 1..(L + 1) |-> IF x = L + 1 THEN n + 1 ELSE from[x]]
  <2>1. z = Append(s, e) /\ e \in Statement
    BY <1>3, StatedTyped
  <2> HIDE DEF e
  <2>2. /\ z \in Seq(Statement) /\ L \in Nat /\ DOMAIN s = 1..L /\ DOMAIN z = 1..(L + 1)
        /\ \A x \in 1..L : z[x] = s[x]
        /\ z[L + 1] = e
    BY <2>1, AppendIs
  <2> HIDE DEF L
  <2>3. /\ to[L + 1] = n + 1
        /\ \A x \in 1..L : to[x] = from[x] /\ from[x] \in 1..n
    BY <1>1, <2>2
  <2>4. \A x \in 1..(L + 1) : x = L + 1 \/ x \in 1..L
    BY <2>2
  <2>5. to \in [DOMAIN z -> 1..(n + 1)]
    <3>1. \A x \in 1..L : from[x] \in 1..(n + 1)
      <4>1. 1..n \subseteq 1..(n + 1)
        OBVIOUS
      <4> QED
        BY <2>3, <4>1
    <3> QED
      BY <2>2, <2>3, <2>4, <3>1
  <2> HIDE DEF to
  <2>6. ASSUME NEW x \in DOMAIN z PROVE code[to[x]].op # "alloca" /\ z[x] = Stated(code[to[x]])
    <3>1. CASE x = L + 1
      BY <1>3, <2>2, <2>3, <3>1 DEF e
    <3>2. CASE x \in 1..L
      BY <1>1, <2>2, <2>3, <3>2
    <3> QED
      BY <2>2, <2>4, <3>1, <3>2
  <2>7. ASSUME NEW x \in DOMAIN z, NEW y \in DOMAIN z, x < y PROVE to[x] < to[y]
    <3>1. x \in 1..L /\ (y = L + 1 \/ y \in 1..L)
      BY <2>2, <2>7
    <3>2. CASE y = L + 1
      BY <2>3, <3>1, <3>2
    <3>3. CASE y \in 1..L
      BY <1>1, <2>2, <2>3, <2>7, <3>1, <3>3
    <3> QED
      BY <3>1, <3>2, <3>3
  <2>8. ASSUME NEW i \in 1..(n + 1), code[i].op # "alloca" PROVE \E x \in DOMAIN z : to[x] = i
    <3>1. CASE i = n + 1
      BY <2>2, <2>3, <3>1
    <3>2. CASE i \in 1..n
      <4>1. PICK x \in 1..L : from[x] = i
        BY <1>1, <2>2, <2>8, <3>2
      <4>2. x \in DOMAIN z /\ to[x] = i
        BY <2>2, <2>3, <4>1
      <4> QED
        BY <4>2
    <3> QED
      BY <3>1, <3>2
  <2>9. KeptFrom(code, z, n + 1, to)
    BY <2>5, <2>6, <2>7, <2>8 DEF KeptFrom
  <2> QED
    BY <2>2, <2>9
<1> QED
  BY <1>2, <1>3

LEMMA KeptIs ==
  ASSUME NEW code \in Seq(CodeEntry)
  PROVE  /\ StatementsOf(1, code) \in Seq(Statement)
         /\ \E from : KeptFrom(code, StatementsOf(1, code), Len(code), from)
<1> DEFINE K == Len(code)
           S == Seq(Statement)
           Next(n, y) == IF code[n].op = "alloca" THEN y ELSE Append(y, Stated(code[n]))
           kept == Kept(1, code)
           step == [n \in 1..K |-> [y \in S |-> Next(n, y)]]
<1>1. K \in Nat /\ DOMAIN code = 1..K
  OBVIOUS
<1>2. \A n \in 1..K : code[n] \in CodeEntry
  BY <1>1, ElementOf
<1>3. ASSUME NEW n \in 1..K, NEW y \in S PROVE step[n][y] = Next(n, y) /\ step[n][y] \in S
  <2>1. step[n][y] = Next(n, y)
    OBVIOUS
  <2>2. code[n].op # "alloca" => Stated(code[n]) \in Statement
    BY <1>2, StatedTyped
  <2>3. Next(n, y) \in S
    BY <2>2
  <2> QED
    BY <2>1, <2>3
<1>4. <<>> \in S
  OBVIOUS
<1> HIDE DEF step, S, K
<1>5. PICK R : Recursion(R, S, <<>>, step, K)
  BY <1>1, <1>3, <1>4, RecursionDefined DEF Steps
<1>6. /\ R \in [0..K -> S] /\ R[0] = <<>>
      /\ \A n \in 1..K : n - 1 \in 0..K /\ R[n - 1] \in S /\ R[n] = Next(n, R[n - 1])
  BY <1>1, <1>3, <1>5 DEF Recursion
<1>7. R = [n \in 0..K |-> IF n = 0 THEN <<>> ELSE Next(n, R[n - 1])]
  <2> HIDE DEF Next
  <2> SUFFICES ASSUME NEW n \in 0..K
               PROVE  R[n] = IF n = 0 THEN <<>> ELSE Next(n, R[n - 1])
    BY <1>6
  <2>1. n = 0 \/ (n # 0 /\ n \in 1..K)
    BY <1>1
  <2> QED
    BY <1>6, <2>1
<1>8. kept = [n \in 0..K |-> IF n = 0 THEN <<>> ELSE Next(n, kept[n - 1])]
  BY <1>7 DEF Kept, K, Stated
<1> HIDE DEF kept
<1>9. kept[0] = <<>> /\ \A n \in 1..K : kept[n] = Next(n, kept[n - 1])
  <2> HIDE DEF Next
  <2>1. 0 \in 0..K /\ \A n \in 1..K : n \in 0..K /\ n # 0
    BY <1>1
  <2> QED
    BY <1>8, <2>1
<1> DEFINE Inv(n) == kept[n] \in Seq(Statement) /\ \E from : KeptFrom(code, kept[n], n, from)
           N == {n \in Nat : n <= K => Inv(n)}
<1>10. 0 \in N
  <2>1. KeptFrom(code, <<>>, 0, <<>>)
    BY DEF KeptFrom
  <2>2. <<>> \in Seq(Statement)
    OBVIOUS
  <2>3. Inv(0)
    BY <1>9, <2>1, <2>2
  <2> HIDE DEF Inv
  <2> QED
    BY <2>3
<1>11. ASSUME NEW n \in N PROVE n + 1 \in N
  <2> SUFFICES ASSUME n + 1 <= K PROVE Inv(n + 1)
    OBVIOUS
  <2>1. n \in Nat /\ n + 1 \in 1..K /\ (n + 1) - 1 = n /\ n <= K
    BY <1>1
  <2>2. kept[n] \in Seq(Statement)
    BY <2>1
  <2>3. PICK from : KeptFrom(code, kept[n], n, from)
    BY <2>1
  <2>4. kept[n + 1] = Next(n + 1, kept[n])
    BY <1>9, <2>1
  <2>5. code[n + 1] \in CodeEntry
    BY <1>2, <2>1
  <2> QED
    BY <2>1, <2>2, <2>3, <2>4, <2>5, KeptStep
<1> HIDE DEF N
<1>12. K \in N /\ K <= K
  BY <1>1, <1>10, <1>11, SetInduction
<1>13. Inv(K)
  BY <1>1, <1>12 DEF N
<1> QED
  BY <1>13 DEF kept, K, StatementsOf

-----------------------------------------------------------------------------
(* The text of the only function *)

Code == Fn(1).code
Translation == [b \in DOMAIN Code |-> StatementsOf(1, Code[b])]

LEMMA CodeIs ==
  ASSUME prog \in Programs, Len(prog.funcs) = 1
  PROVE  /\ Len(Code) \in Nat /\ DOMAIN Code = 1..Len(Code)
         /\ \A b \in DOMAIN Code : Code[b] \in Seq(CodeEntry)
         /\ Arrays # {} => \E b \in DOMAIN Code : \E i \in DOMAIN Code[b] : Code[b][i].op # "alloca"
<1>1. 1 \in DOMAIN prog.funcs
  BY OneFunction DEF Funcs
<1>2. Code \in Seq(Seq(CodeEntry))
  BY <1>1, ProgramsAssumption DEF Code, Fn, CodeEntry
<1>3. Len(Code) \in Nat /\ DOMAIN Code = 1..Len(Code)
  BY <1>2
<1>4. \A b \in DOMAIN Code : Code[b] \in Seq(CodeEntry)
  BY <1>2, ElementOf
<1>5. ASSUME NEW a \in Arrays
      PROVE  \E b \in DOMAIN Code : \E i \in DOMAIN Code[b] : Code[b][i].op # "alloca"
  <2>1. a[1] = 1 /\ a[2] \in DOMAIN Fn(1).vars /\ Fn(1).vars[a[2]].kind = "vla"
    BY OneFunction, ArrayIs
  <2> QED
    BY <1>1, <2>1, ProgramsAssumption DEF Code, Fn
<1> QED
  BY <1>3, <1>4, <1>5

LEMMA TranslationIs ==
  ASSUME prog \in Programs, Len(prog.funcs) = 1
  PROVE  /\ DOMAIN Translation = DOMAIN Code
         /\ Translation \in [DOMAIN Code -> Seq(Statement)]
         /\ \A b \in DOMAIN Code : \E from : KeptFrom(Code[b], Translation[b], Len(Code[b]), from)
         /\ Arrays # {} => \E b \in DOMAIN Code : Translation[b] # <<>>
<1>1. ASSUME NEW b \in DOMAIN Code
      PROVE  /\ Translation[b] \in Seq(Statement)
             /\ \E from : KeptFrom(Code[b], Translation[b], Len(Code[b]), from)
  <2>1. Code[b] \in Seq(CodeEntry)
    BY CodeIs
  <2>2. Translation[b] = StatementsOf(1, Code[b])
    BY DEF Translation
  <2> QED
    BY <2>1, <2>2, KeptIs
<1>2. Translation = [b \in DOMAIN Code |-> Translation[b]]
  BY DEF Translation
<1>3. Translation \in [DOMAIN Code -> Seq(Statement)]
  BY <1>1, <1>2
<1>4. ASSUME Arrays # {} PROVE \E b \in DOMAIN Code : Translation[b] # <<>>
  <2>1. PICK b \in DOMAIN Code : \E i \in DOMAIN Code[b] : Code[b][i].op # "alloca"
    BY <1>4, CodeIs
  <2>2. PICK i \in DOMAIN Code[b] : Code[b][i].op # "alloca"
    BY <2>1
  <2>3. i \in 1..Len(Code[b])
    BY CodeIs
  <2>4. PICK from : KeptFrom(Code[b], Translation[b], Len(Code[b]), from)
    BY <1>1
  <2>5. \E x \in DOMAIN Translation[b] : from[x] = i
    BY <2>2, <2>3, <2>4 DEF KeptFrom
  <2>6. DOMAIN Translation[b] # {}
    BY <2>5
  <2> QED
    BY <2>6
<1> QED
  BY <1>1, <1>2, <1>3, <1>4

\* Before and after insertVLADecls.
TextInv ==
  Len(prog.funcs) = 1 =>
    /\ DOMAIN text = {1}
    /\ pass = "insertVLADecls" => text[1] = Translation
    /\ pass \in {"findMetadataVariableNames", "fixMainParameters", "end"} =>
         FinalCode(Translation, text[1])

LEMMA InsertedIs ==
  ASSUME NamesInv, TextInv, InsertVLADecls, Len(prog.funcs) = 1
  PROVE  FinalCode(Translation, text'[1]) /\ DOMAIN text' = {1}
<1>1. prog \in Programs /\ f = 1 /\ Inserting
  BY OneFunction DEF NamesInv, AtPlace, InsertVLADecls, Inserting
<1>2. DOMAIN text = {1} /\ text[1] = Translation
  BY DEF TextInv, InsertVLADecls, Running
<1>3. PICK blocks \in Orders(DOMAIN text[f]) : \E pending \in Orders(Arrays) :
        text' = [text EXCEPT ![f] = Fallback(VisitBlocks(blocks, pending), blocks)]
  BY DEF InsertVLADecls
<1>4. PICK pending \in Orders(Arrays) :
        text' = [text EXCEPT ![f] = Fallback(VisitBlocks(blocks, pending), blocks)]
  BY <1>3
<1> DEFINE T == Translation
           K == Cardinality(DOMAIN T)
<1>5. /\ T \in [DOMAIN T -> Seq(Statement)]
      /\ Arrays # {} => \E b \in DOMAIN T : T[b] # <<>>
  BY <1>1, TranslationIs
<1>6. IsFiniteSet(DOMAIN T)
  <2>1. DOMAIN T = 1..Len(Code) /\ Len(Code) \in Int
    BY <1>1, TranslationIs, CodeIs
  <2> HIDE DEF T
  <2>2. IsFiniteSet(1..Len(Code))
    BY <2>1, FS_Interval
  <2> QED
    BY <2>1, <2>2
<1>7. T = text[f] /\ blocks \in Orders(DOMAIN T)
  BY <1>1, <1>2
<1> HIDE DEF T
<1>8. /\ K \in Nat /\ blocks \in [1..K -> DOMAIN T]
      /\ \A i, j \in 1..K : blocks[i] = blocks[j] => i = j
      /\ \A b \in DOMAIN T : \E k \in 1..K : blocks[k] = b
  BY <1>6, <1>7, OrderIs
<1> HIDE DEF K
<1>9. pending \in Pending /\ Elements(pending) = Arrays
  BY <1>1, ArrayOrderIs
<1> DEFINE st == VisitBlocks(blocks, pending)
<1>10. st \in CodeStates(DOMAIN T) /\ CodeInv(T, blocks, st, K)
  BY <1>1, <1>5, <1>7, <1>8, <1>9, VisitBlocksIs
<1> HIDE DEF st
<1>11. FinalCode(T, Fallback(st, blocks))
  BY <1>5, <1>8, <1>10, FallbackIs
<1>12. DOMAIN text' = {1} /\ text'[1] = Fallback(st, blocks)
  BY <1>1, <1>2, <1>4 DEF st
<1> QED
  BY <1>11, <1>12 DEF T

LEMMA SameText ==
  ASSUME prog' = prog
  PROVE  /\ Translation' = Translation
         /\ \A h : FinalCode(Translation, h)' <=> FinalCode(Translation, h)
         /\ Code' = Code
BY DEF Translation, Code, Fn, FinalCode, Arrays, OnlyIn, Own, SizeOf, InOrder, AssignTo, UseOf, Placed,
       Declare, VarsOf, Funcs, Elements, StatementsOf, Kept

LEMMA TextStep == NamesInv /\ TextInv /\ [VANext]_vaVars => TextInv'
<1> SUFFICES ASSUME NamesInv, TextInv, [VANext]_vaVars, Len(prog'.funcs) = 1
             PROVE  /\ DOMAIN text' = {1}
                    /\ pass' = "insertVLADecls" => text'[1] = Translation'
                    /\ pass' \in {"findMetadataVariableNames", "fixMainParameters", "end"} =>
                         FinalCode(Translation, text[1])'
  BY DEF TextInv
<1>1. prog' = prog
  BY DEF VANext, vaVars, FindMetadataFunctionNames, CreateFunctionParameters, CreateAllocas,
         CreateExpressions, InsertVLADecls, FindMetadataVariableNames, FixMainParameters
<1>2. Len(prog.funcs) = 1 /\ prog \in Programs /\ f = 1 /\ DOMAIN text = {1}
  BY <1>1, OneFunction DEF NamesInv, AtPlace, TextInv
<1>3. Translation' = Translation
  BY <1>1, SameText
<1>4. ASSUME NEW h, h = text' , FinalCode(Translation, h[1])
      PROVE  FinalCode(Translation, text[1])'
  BY <1>1, <1>4, SameText
<1>5. CASE UNCHANGED vaVars
  BY <1>1, <1>2, <1>3, <1>4, <1>5 DEF vaVars, TextInv
<1>6. CASE FindMetadataFunctionNames
  BY <1>2, <1>6 DEF FindMetadataFunctionNames, NextFunction, Running, TextInv
<1>7. CASE CreateFunctionParameters
  BY <1>2, <1>7 DEF CreateFunctionParameters, NextFunction, Running, TextInv
<1>8. CASE CreateAllocas
  BY <1>2, <1>8 DEF CreateAllocas, NextFunction, Running, TextInv
<1>9. CASE CreateExpressions
  <2>1. pass' = "insertVLADecls" /\ DOMAIN text' = {1}
    BY <1>2, <1>9 DEF CreateExpressions, NextFunction, Running
  <2>2. text'[1] = [b \in DOMAIN Fn(1).code |-> Statements(Fn(1).code[b])]
    BY <1>2, <1>9 DEF CreateExpressions
  <2>3. \A b : Statements(Fn(1).code[b]) = StatementsOf(1, Fn(1).code[b])
    BY <1>2, StatementsAre
  <2>4. text'[1] = Translation
    BY <2>2, <2>3 DEF Translation, Code
  <2> QED
    BY <1>3, <2>1, <2>4
<1>10. CASE InsertVLADecls
  <2>1. FinalCode(Translation, text'[1]) /\ DOMAIN text' = {1}
    BY <1>2, <1>10, InsertedIs
  <2>2. pass' = "findMetadataVariableNames"
    BY <1>2, <1>10 DEF InsertVLADecls, NextFunction, Running
  <2> QED
    BY <1>4, <2>1, <2>2
<1>11. CASE FindMetadataVariableNames
  <2>1. pass' = "fixMainParameters" /\ text' = text /\ FinalCode(Translation, text[1])
    BY <1>2, <1>11 DEF FindMetadataVariableNames, NextFunction, Running, TextInv
  <2> QED
    BY <1>2, <1>4, <2>1
<1>12. CASE FixMainParameters
  <2>1. pass' = "end" /\ text' = text /\ FinalCode(Translation, text[1])
    BY <1>2, <1>12 DEF FixMainParameters, NextFunction, Running, TextInv
  <2> QED
    BY <1>2, <1>4, <2>1
<1> QED
  BY <1>5, <1>6, <1>7, <1>8, <1>9, <1>10, <1>11, <1>12 DEF VANext

LEMMA TextInvariant == VASpec => []TextInv
<1>1. VAInit => TextInv
  BY OneFunction DEF VAInit, TextInv
<1> QED
  BY <1>1, NamesInvariant, TextStep, PTL DEF VASpec

-----------------------------------------------------------------------------
(* Declarations between sizes and uses *)

LEMMA PositionIs ==
  ASSUME NEW code, NEW s
  PROVE  \A p : p \in PositionsIn(code, s) <=>
           \E b \in DOMAIN code : \E i \in DOMAIN code[b] : code[b][i] = s /\ p = <<b, i>>
BY DEF PositionsIn

LEMMA PositionsFinite ==
  ASSUME NEW code, NEW s, IsFiniteSet(DOMAIN code),
         \A b \in DOMAIN code : IsFiniteSet(DOMAIN code[b])
  PROVE  IsFiniteSet(PositionsIn(code, s))
<1> DEFINE In(b) == {b} \X {i \in DOMAIN code[b] : code[b][i] = s}
           B == DOMAIN code
           S == {In(b) : b \in B}
           h == [b \in B |-> In(b)]
<1>1. ASSUME NEW b \in B PROVE IsFiniteSet(In(b))
  <2> DEFINE I == {i \in DOMAIN code[b] : code[b][i] = s}
  <2>1. I \subseteq DOMAIN code[b]
    OBVIOUS
  <2> HIDE DEF I
  <2>2. IsFiniteSet(I) /\ IsFiniteSet({b})
    BY <2>1, FS_Subset, FS_Singleton
  <2>3. IsFiniteSet({b} \X I)
    BY <2>2, FS_Product
  <2> QED
    BY <2>3 DEF I
<1> HIDE DEF In
<1>2. h \in Surjection(B, S)
  BY DEF Surjection
<1> HIDE DEF h, S, B
<1>3. IsFiniteSet(S)
  BY <1>2, FS_Surjection DEF B
<1>4. \A T \in S : IsFiniteSet(T)
  BY <1>1 DEF S
<1>5. IsFiniteSet(UNION S)
  BY <1>3, <1>4, FS_UNION
<1> QED
  BY <1>5 DEF PositionsIn, S, B, In

\* The assignment to the size of an array is in one block, its uses are there or behind.
Sized(T, a) ==
  /\ Own(a) /\ \A b \in DOMAIN T : InOrder(T[b], a)
  /\ \E b \in DOMAIN T : AssignTo(a) \in Elements(T[b])
  /\ \A b, d \in DOMAIN T : AssignTo(a) \in Elements(T[b]) =>
       /\ AssignTo(a) \in Elements(T[d]) => b = d
       /\ UseOf(a) \in Elements(T[d]) => b < d \/ b = d

LEMMA CodeFinite ==
  ASSUME prog \in Programs, Len(prog.funcs) = 1
  PROVE  IsFiniteSet(DOMAIN Code) /\ \A b \in DOMAIN Code : IsFiniteSet(DOMAIN Code[b])
<1>1. ASSUME NEW n \in Nat PROVE IsFiniteSet(1..n)
  BY FS_Interval
<1>2. DOMAIN Code = 1..Len(Code) /\ Len(Code) \in Nat
  BY CodeIs
<1>3. ASSUME NEW b \in DOMAIN Code
      PROVE  DOMAIN Code[b] = 1..Len(Code[b]) /\ Len(Code[b]) \in Nat
  BY CodeIs
<1> QED
  BY <1>1, <1>2, <1>3

LEMMA SizedOnceIs ==
  ASSUME prog \in Programs, Len(prog.funcs) = 1, NEW a \in Arrays, SizedOnce(a)
  PROVE  Sized(Translation, a)
<1> DEFINE T == Translation
           size == [op |-> "assign", v |-> SizeOf(a)]
           use == [op |-> "use", v |-> a[2]]
           P(s) == PositionsIn(Code, s)
<1>1. a[1] = 1 /\ a = <<1, a[2]>>
  BY OneFunction, ArrayIs
<1>2. /\ Own(a) /\ Cardinality(P(size)) = 1
      /\ \A p \in P(size), q \in P(use) : Earlier(p, q)
  BY <1>1 DEF SizedOnce, Own, Code
<1>3. IsFiniteSet(P(size))
  BY CodeFinite, PositionsFinite
<1>4. PICK p : P(size) = {p}
  BY <1>2, <1>3, FS_Singleton
<1>5. AssignTo(a) = Stated(size) /\ UseOf(a) = Stated(use)
  BY <1>1 DEF AssignTo, UseOf, Stated
<1> DEFINE B == DOMAIN Code
<1>6. \A b \in B : \A i \in DOMAIN Code[b] : Code[b][i] \in CodeEntry
  BY CodeIs, ElementOf
<1>7. ASSUME NEW s \in {size, use}, NEW b \in B, NEW i \in DOMAIN Code[b], Stated(Code[b][i]) = Stated(s)
      PROVE  Code[b][i] = s
  <2> DEFINE c == Code[b][i]
  <2>1. c \in CodeEntry
    BY <1>6
  <2> HIDE DEF c
  <2>2. c.op = s.op /\ <<1, c.v>> = <<1, s.v>>
    BY <1>7 DEF Stated, c
  <2>3. c = [op |-> c.op, v |-> c.v] /\ s = [op |-> s.op, v |-> s.v]
    BY <2>1 DEF CodeEntry
  <2> QED
    BY <2>2, <2>3 DEF c
<1> HIDE DEF size, use, P, T, B
<1>8. DOMAIN T = B /\ \A b \in B : T[b] \in Seq(Statement)
  BY TranslationIs DEF T, B
<1>9. ASSUME NEW b \in B
      PROVE  \E from : KeptFrom(Code[b], T[b], Len(Code[b]), from)
  BY TranslationIs DEF T, B
<1>10. ASSUME NEW b \in B, NEW from, KeptFrom(Code[b], T[b], Len(Code[b]), from),
              NEW x \in DOMAIN T[b], NEW s \in {size, use}, T[b][x] = Stated(s)
       PROVE  <<b, from[x]>> \in P(s)
  <2>1. from[x] \in 1..Len(Code[b]) /\ T[b][x] = Stated(Code[b][from[x]])
    BY <1>10 DEF KeptFrom
  <2>2. from[x] \in DOMAIN Code[b]
    BY <2>1, CodeIs DEF B
  <2>3. Code[b][from[x]] = s
    BY <1>7, <1>10, <2>1, <2>2
  <2> QED
    BY <2>2, <2>3, PositionIs DEF P, B
<1>11. ASSUME NEW b \in B PROVE InOrder(T[b], a)
  <2>1. PICK from : KeptFrom(Code[b], T[b], Len(Code[b]), from)
    BY <1>9
  <2>2. /\ \A x \in DOMAIN T[b] : from[x] \in Nat
        /\ \A x, y \in DOMAIN T[b] : x < y => from[x] < from[y]
        /\ DOMAIN T[b] \subseteq Nat
    BY <1>8, <2>1 DEF KeptFrom
  <2>3. ASSUME NEW k \in DOMAIN T[b], NEW l \in DOMAIN T[b], T[b][k] = AssignTo(a), T[b][l] = AssignTo(a)
        PROVE  k = l
    <3>1. <<b, from[k]>> = p /\ <<b, from[l]>> = p
      BY <1>4, <1>5, <1>10, <2>1, <2>3
    <3>2. from[k] = from[l]
      BY <3>1
    <3> QED
      BY <2>2, <3>2
  <2>4. ASSUME NEW k \in DOMAIN T[b], NEW l \in DOMAIN T[b], T[b][k] = AssignTo(a), T[b][l] = UseOf(a)
        PROVE  k < l
    <3>1. <<b, from[k]>> \in P(size) /\ <<b, from[l]>> \in P(use)
      BY <1>5, <1>10, <2>1, <2>4
    <3>2. b \in Nat
      BY CodeIs DEF B
    <3>3. from[k] < from[l]
      BY <1>2, <3>1, <3>2 DEF Earlier
    <3> QED
      BY <2>2, <3>3
  <2> QED
    BY <2>3, <2>4 DEF InOrder
<1>12. \E b \in B : AssignTo(a) \in Elements(T[b])
  <2>1. p \in P(size)
    BY <1>4
  <2>2. PICK b \in B : \E i \in DOMAIN Code[b] : Code[b][i] = size
    BY <2>1, PositionIs DEF P, B
  <2>3. PICK i \in DOMAIN Code[b] : Code[b][i] = size
    BY <2>2
  <2>4. i \in 1..Len(Code[b]) /\ Code[b][i].op # "alloca"
    BY <2>3, CodeIs DEF B, size
  <2>5. PICK from : KeptFrom(Code[b], T[b], Len(Code[b]), from)
    BY <1>9
  <2>6. PICK x \in DOMAIN T[b] : from[x] = i /\ T[b][x] = Stated(Code[b][i])
    BY <2>4, <2>5 DEF KeptFrom
  <2>7. T[b][x] = AssignTo(a)
    BY <1>5, <2>3, <2>6
  <2> QED
    BY <2>7 DEF Elements
<1>13. ASSUME NEW b \in B, NEW d \in B, AssignTo(a) \in Elements(T[b])
       PROVE  /\ AssignTo(a) \in Elements(T[d]) => b = d
              /\ UseOf(a) \in Elements(T[d]) => b < d \/ b = d
  <2>1. PICK from : KeptFrom(Code[b], T[b], Len(Code[b]), from)
    BY <1>9
  <2>2. PICK to : KeptFrom(Code[d], T[d], Len(Code[d]), to)
    BY <1>9
  <2>3. PICK x \in DOMAIN T[b] : T[b][x] = AssignTo(a)
    BY <1>13 DEF Elements
  <2>4. <<b, from[x]>> \in P(size)
    BY <1>5, <1>10, <2>1, <2>3
  <2>5. ASSUME AssignTo(a) \in Elements(T[d]) PROVE b = d
    <3>1. PICK y \in DOMAIN T[d] : T[d][y] = AssignTo(a)
      BY <2>5 DEF Elements
    <3>2. <<d, to[y]>> \in P(size)
      BY <1>5, <1>10, <2>2, <3>1
    <3>3. <<b, from[x]>> = <<d, to[y]>>
      BY <1>4, <2>4, <3>2
    <3> QED
      BY <3>3
  <2>6. ASSUME UseOf(a) \in Elements(T[d]) PROVE b < d \/ b = d
    <3>1. PICK y \in DOMAIN T[d] : T[d][y] = UseOf(a)
      BY <2>6 DEF Elements
    <3>2. <<d, to[y]>> \in P(use)
      BY <1>5, <1>10, <2>2, <3>1
    <3>3. Earlier(<<b, from[x]>>, <<d, to[y]>>)
      BY <1>2, <2>4, <3>2
    <3> QED
      BY <3>3 DEF Earlier
  <2> QED
    BY <2>5, <2>6
<1>14. Sized(T, a)
  BY <1>2, <1>8, <1>11, <1>12, <1>13 DEF Sized
<1> QED
  BY <1>14 DEF T

LEMMA FinalCodeIs ==
  ASSUME prog \in Programs, Len(prog.funcs) = 1, NEW T, NEW code, FinalCode(T, code), NEW a \in Arrays
  PROVE  /\ Cardinality(PositionsIn(code, Declare(a))) = 1
         /\ Sized(T, a) =>
              \A p \in PositionsIn(code, Declare(a)) :
                /\ \A q \in PositionsIn(code, AssignTo(a)) : Earlier(q, p)
                /\ \A q \in PositionsIn(code, UseOf(a)) : Earlier(p, q)
<1> DEFINE P(s) == PositionsIn(code, s)
<1>1. DOMAIN code = DOMAIN T
  BY DEF FinalCode
<1>2. Cardinality(P(Declare(a))) = 1
  <2>1. PICK b \in DOMAIN T : \E x \in DOMAIN code[b] : OnlyIn(code, Declare(a), b, x)
    BY DEF FinalCode
  <2>2. PICK x \in DOMAIN code[b] : OnlyIn(code, Declare(a), b, x)
    BY <2>1
  <2>3. \A p : p \in P(Declare(a)) <=> p = <<b, x>>
    BY <1>1, <2>2, PositionIs DEF OnlyIn
  <2>4. P(Declare(a)) = {<<b, x>>}
    BY <2>3
  <2> QED
    BY <2>4, FS_Singleton
<1>3. ASSUME NEW s \in {AssignTo(a), UseOf(a)}, NEW d \in DOMAIN code, NEW y \in DOMAIN code[d], code[d][y] = s
      PROVE  s \in Elements(T[d])
  <2>1. \A c : code[d][y].op # Declare(c).op
    BY <1>3 DEF AssignTo, UseOf, Declare
  <2>2. \A c : code[d][y] # Declare(c)
    BY <2>1
  <2> QED
    BY <1>1, <1>3, <2>2 DEF FinalCode
<1>4. ASSUME Sized(T, a), NEW p \in P(Declare(a))
      PROVE  /\ \A q \in P(AssignTo(a)) : Earlier(q, p)
             /\ \A q \in P(UseOf(a)) : Earlier(p, q)
  <2>1. PICK b \in DOMAIN code : \E x \in DOMAIN code[b] : code[b][x] = Declare(a) /\ p = <<b, x>>
    BY PositionIs
  <2>2. PICK x \in DOMAIN code[b] : code[b][x] = Declare(a) /\ p = <<b, x>>
    BY <2>1
  <2>3. Placed(code[b], a) /\ AssignTo(a) \in Elements(T[b])
    BY <1>1, <1>4, <2>2 DEF FinalCode, Sized
  <2>4. ASSUME NEW q \in P(AssignTo(a)) PROVE Earlier(q, p)
    <3>1. PICK d \in DOMAIN code : \E y \in DOMAIN code[d] : code[d][y] = AssignTo(a) /\ q = <<d, y>>
      BY PositionIs
    <3>2. PICK y \in DOMAIN code[d] : code[d][y] = AssignTo(a) /\ q = <<d, y>>
      BY <3>1
    <3>3. AssignTo(a) \in Elements(T[d])
      BY <1>3, <3>2
    <3>4. b = d
      BY <1>1, <1>4, <2>3, <3>3 DEF Sized
    <3>5. y < x
      BY <2>2, <2>3, <3>2, <3>4 DEF Placed
    <3> QED
      BY <2>2, <3>2, <3>4, <3>5 DEF Earlier
  <2>5. ASSUME NEW q \in P(UseOf(a)) PROVE Earlier(p, q)
    <3>1. PICK d \in DOMAIN code : \E y \in DOMAIN code[d] : code[d][y] = UseOf(a) /\ q = <<d, y>>
      BY PositionIs
    <3>2. PICK y \in DOMAIN code[d] : code[d][y] = UseOf(a) /\ q = <<d, y>>
      BY <3>1
    <3>3. UseOf(a) \in Elements(T[d])
      BY <1>3, <3>2
    <3>4. b < d \/ b = d
      BY <1>1, <1>4, <2>3, <3>3 DEF Sized
    <3>5. b = d => x < y
      BY <2>2, <2>3, <3>2 DEF Placed
    <3> QED
      BY <2>2, <3>2, <3>4, <3>5 DEF Earlier
  <2> QED
    BY <2>4, <2>5
<1> QED
  BY <1>2, <1>4

\* insertVLADecls: in a program of one function each array is declared once,
\* whatever the addresses of blocks and arrays; behind the assignment to its
\* size and before its uses, if that is its only one and no other array's.
THEOREM ArraysInTime == VASpec => []ArraysDeclaredInTime
<1>1. NamesInv /\ TextInv => ArraysDeclaredInTime
  <2> SUFFICES ASSUME NamesInv, TextInv, Ended, Len(prog.funcs) = 1, NEW a \in Arrays
               PROVE  LET P(s) == PositionsIn(text[a[1]], s)
                      IN /\ Cardinality(P(Declare(a))) = 1
                         /\ SizedOnce(a) =>
                              \A p \in P(Declare(a)) :
                                /\ \A q \in P([op |-> "assign", at |-> <<a[1], SizeOf(a)>>]) : Earlier(q, p)
                                /\ \A q \in P([op |-> "use", at |-> a]) : Earlier(p, q)
    BY DEF ArraysDeclaredInTime
  <2>1. prog \in Programs /\ a[1] = 1
    BY OneFunction DEF NamesInv, AtPlace
  <2>2. FinalCode(Translation, text[1])
    BY DEF TextInv, Ended
  <2> QED
    BY <2>1, <2>2, SizedOnceIs, FinalCodeIs DEF AssignTo, UseOf
<1> QED
  BY <1>1, NamesInvariant, TextInvariant, PTL
=============================================================================
