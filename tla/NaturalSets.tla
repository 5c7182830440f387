----------------------------- MODULE NaturalSets -----------------------------
(***************************************************************************)
(* Induction over the numbers for a property given as a set, and the       *)
(* functions that are defined by recursion over them.                      *)
(***************************************************************************)
EXTENDS Naturals, WellFoundedInduction, TLAPS

LEMMA LeastNumber ==
  ASSUME NEW T, T \subseteq Nat, T # {}
  PROVE  \E m \in T : \A n \in T : m <= n
<1>1. \E m \in T : \A n \in T : <<n, m>> \notin OpToRel(<, Nat)
  BY NatLessThanWellFounded, WFMin
<1>2. \A m, n \in Nat : <<n, m>> \notin OpToRel(<, Nat) => m <= n
  BY DEF OpToRel
<1> QED
  BY <1>1, <1>2

LEMMA SetInduction ==
  ASSUME NEW T, 0 \in T, \A n \in T : n + 1 \in T
  PROVE  Nat \subseteq T
<1> SUFFICES ASSUME Nat \ T # {} PROVE FALSE
  OBVIOUS
<1>1. PICK m \in Nat \ T : \A n \in Nat \ T : m <= n
  BY LeastNumber
<1>2. m # 0 /\ m - 1 \in Nat /\ m - 1 \in T
  BY <1>1
<1> QED
  BY <1>1, <1>2

\* The first k + 1 members of x, step[x], step[step[x]], ...
Iterates(R, k, x, step) == R = [n \in 0..k |-> IF n = 0 THEN x ELSE step[R[n-1]]]

LEMMA IteratesDefined ==
  ASSUME NEW x, NEW step, NEW k \in Nat
  PROVE  \E R : Iterates(R, k, x, step)
<1> DEFINE T == {n \in Nat : \E R : Iterates(R, n, x, step)}
<1>1. 0 \in T
  <2> DEFINE R == [n \in 0..0 |-> x]
  <2>1. Iterates(R, 0, x, step)
    BY DEF Iterates
  <2> HIDE DEF R
  <2> QED
    BY <2>1
<1>2. ASSUME NEW n \in T
      PROVE  n + 1 \in T
  <2>1. PICK R : Iterates(R, n, x, step)
    OBVIOUS
  <2> DEFINE Q == [i \in 0..n+1 |-> IF i = n + 1 THEN step[R[n]] ELSE R[i]]
  <2>2. \A i \in 0..n : R[i] = IF i = 0 THEN x ELSE step[R[i-1]]
    BY <2>1 DEF Iterates
  <2>3. ASSUME NEW i \in 0..n+1
        PROVE  Q[i] = IF i = 0 THEN x ELSE step[Q[i-1]]
    <3>1. CASE i = n + 1
      <4>1. Q[i] = step[R[n]] /\ Q[i-1] = R[n]
        BY <3>1
      <4> QED
        BY <3>1, <4>1
    <3>2. CASE i \in 0..n
      <4>1. Q[i] = R[i] /\ (i # 0 => Q[i-1] = R[i-1])
        BY <3>2
      <4> QED
        BY <2>2, <3>2, <4>1
    <3> QED
      BY <3>1, <3>2
  <2>4. Iterates(Q, n + 1, x, step)
    <3>1. Q = [i \in 0..n+1 |-> Q[i]]
      OBVIOUS
    <3> HIDE DEF Q
    <3> QED
      BY <2>3, <3>1 DEF Iterates
  <2> HIDE DEF Q
  <2> QED
    BY <2>4
<1> HIDE DEF T
<1>3. Nat \subseteq T
  BY <1>1, <1>2, SetInduction
<1> QED
  BY <1>3 DEF T

\* Any definition by recursion is the one of its iterates.
LEMMA IteratesTypical ==
  ASSUME NEW S, NEW x \in S, NEW step, \A y \in S : step[y] \in S, NEW k \in Nat,
         NEW R, Iterates(R, k, x, step)
  PROVE  \A n \in 0..k : R[n] \in S
<1> DEFINE T == {n \in Nat : n <= k => R[n] \in S}
<1>1. 0 \in T
  BY DEF Iterates
<1>2. ASSUME NEW n \in T PROVE n + 1 \in T
  <2> SUFFICES ASSUME n + 1 <= k PROVE R[n+1] \in S
    OBVIOUS
  <2>1. n + 1 \in 0..k /\ n + 1 # 0 /\ (n + 1) - 1 = n /\ n <= k
    OBVIOUS
  <2>2. R[n+1] = step[R[n]]
    BY <2>1 DEF Iterates
  <2> QED
    BY <2>1, <2>2
<1> HIDE DEF T
<1>3. Nat \subseteq T
  BY <1>1, <1>2, SetInduction
<1> QED
  BY <1>3 DEF T

\* A function that is defined by recursion over 0..k, each of its values from
\* the one before and the number it is for.
Steps(step, S, k) == \A n \in 1..k, y \in S : step[n][y] \in S

Recursion(R, S, x, step, k) ==
  R \in [0..k -> S] /\ R[0] = x /\ \A n \in 1..k : R[n] = step[n][R[n-1]]

LEMMA RecursionDefined ==
  ASSUME NEW S, NEW x \in S, NEW k \in Nat, NEW step, Steps(step, S, k)
  PROVE  \E R : Recursion(R, S, x, step, k)
<1> DEFINE Start(n, R) == R[0] = x /\ \A i \in 1..n : R[i] = step[i][R[i-1]]
           T == {n \in Nat : n <= k => \E R \in [0..n -> S] : Start(n, R)}
<1>1. 0 \in T
  <2> DEFINE R == [n \in 0..0 |-> x]
  <2>1. R \in [0..0 -> S] /\ R[0] = x /\ 1..0 = {}
    OBVIOUS
  <2>2. Start(0, R)
    BY <2>1
  <2> HIDE DEF R
  <2> QED
    BY <2>1, <2>2
<1>2. ASSUME NEW n \in T
      PROVE  n + 1 \in T
  <2> SUFFICES ASSUME n + 1 <= k
               PROVE  \E R \in [0..n+1 -> S] : Start(n + 1, R)
    OBVIOUS
  <2>1. n \in Nat /\ n <= k
    OBVIOUS
  <2>2. PICK R \in [0..n -> S] : Start(n, R)
    BY <2>1
  <2> DEFINE Q == [i \in 0..n+1 |-> IF i = n + 1 THEN step[n + 1][R[n]] ELSE R[i]]
  <2>3. step[n + 1][R[n]] \in S
    BY <2>1 DEF Steps
  <2>4. Q \in [0..n+1 -> S] /\ Q[0] = x
    BY <2>1, <2>2, <2>3
  <2>5. ASSUME NEW i \in 1..n+1
        PROVE  Q[i] = step[i][Q[i-1]]
    <3>1. CASE i = n + 1
      <4>1. Q[i] = step[n + 1][R[n]] /\ Q[i-1] = R[n]
        BY <2>1, <3>1
      <4> QED
        BY <3>1, <4>1
    <3>2. CASE i \in 1..n
      <4>1. Q[i] = R[i] /\ Q[i-1] = R[i-1]
        BY <2>1, <3>2
      <4> QED
        BY <2>2, <3>2, <4>1
    <3> QED
      BY <2>1, <3>1, <3>2
  <2> HIDE DEF Q
  <2> QED
    BY <2>4, <2>5
<1> HIDE DEF T
<1>3. k \in T /\ k <= k
  BY <1>1, <1>2, SetInduction
<1>4. \E R \in [0..k -> S] : Start(k, R)
  BY <1>3 DEF T
<1> QED
  BY <1>4 DEF Recursion

-----------------------------------------------------------------------------
(* Induction and recursion over the depth of terms. *)

LEMMA DepthInduction ==
  ASSUME NEW S, NEW depth \in [S -> Nat], NEW P,
         \A t \in S : (\A u \in S : depth[u] < depth[t] => u \in P) => t \in P
  PROVE  S \subseteq P
<1> DEFINE T == {n \in Nat : \A t \in S : depth[t] < n => t \in P}
<1>1. 0 \in T
  OBVIOUS
<1>2. ASSUME NEW n \in T PROVE n + 1 \in T
  <2> SUFFICES ASSUME NEW t \in S, depth[t] < n + 1 PROVE t \in P
    OBVIOUS
  <2>1. \A u \in S : depth[u] \in Nat /\ (depth[u] < n => u \in P)
    OBVIOUS
  <2>2. \A u \in S : depth[u] < depth[t] => u \in P
    BY <2>1
  <2> QED
    BY <2>2
<1> HIDE DEF T
<1>3. \A n \in Nat : n \in T
  BY <1>1, <1>2, SetInduction
<1> SUFFICES ASSUME NEW t \in S PROVE t \in P
  OBVIOUS
<1>4. depth[t] + 1 \in Nat /\ depth[t] < depth[t] + 1
  OBVIOUS
<1> QED
  BY <1>3, <1>4 DEF T

\* body[g] gives a term a value that depends on g for less deep terms only.
Agree(S, depth, g, h, n) == \A u \in S : depth[u] < n => g[u] = h[u]

Local(S, X, depth, body) ==
  /\ body \in [[S -> X] -> [S -> X]]
  /\ \A g, h \in [S -> X], t \in S : Agree(S, depth, g, h, depth[t]) => body[g][t] = body[h][t]

\* g is what the recursion defines, for terms that are not as deep as n.
Solves(S, X, depth, body, g, n) ==
  g \in [S -> X] /\ \A t \in S : depth[t] < n => g[t] = body[g][t]

LEMMA SolvesOnce ==
  ASSUME NEW S, NEW X, NEW depth \in [S -> Nat], NEW body, Local(S, X, depth, body),
         NEW n \in Nat, NEW g, NEW h, Solves(S, X, depth, body, g, n), Solves(S, X, depth, body, h, n)
  PROVE  Agree(S, depth, g, h, n)
<1> DEFINE T == {m \in Nat : m <= n => Agree(S, depth, g, h, m)}
<1>1. 0 \in T
  BY DEF Agree
<1>2. ASSUME NEW m \in T PROVE m + 1 \in T
  <2> SUFFICES ASSUME m + 1 <= n, NEW t \in S, depth[t] < m + 1 PROVE g[t] = h[t]
    BY DEF Agree
  <2>1. Agree(S, depth, g, h, m) /\ depth[t] \in Nat /\ depth[t] <= m /\ depth[t] < n
    OBVIOUS
  <2>2. \A u \in S : depth[u] \in Nat
    OBVIOUS
  <2>3. Agree(S, depth, g, h, depth[t])
    BY <2>1, <2>2 DEF Agree
  <2>4. body[g][t] = body[h][t]
    BY <2>3 DEF Local, Solves
  <2> QED
    BY <2>1, <2>4 DEF Solves
<1> HIDE DEF T
<1>3. n \in T
  BY <1>1, <1>2, SetInduction
<1> QED
  BY <1>3 DEF T

LEMMA SolvesUpTo ==
  ASSUME NEW S, NEW X, S # {} => X # {}, NEW depth \in [S -> Nat], NEW body,
         Local(S, X, depth, body)
  PROVE  \A n \in Nat : \E g : Solves(S, X, depth, body, g, n)
<1> DEFINE T == {n \in Nat : \E g : Solves(S, X, depth, body, g, n)}
<1>1. 0 \in T
  <2>1. [t \in S |-> CHOOSE x \in X : TRUE] \in [S -> X]
    OBVIOUS
  <2>2. Solves(S, X, depth, body, [t \in S |-> CHOOSE x \in X : TRUE], 0)
    BY <2>1 DEF Solves
  <2> QED
    BY <2>2
<1>2. ASSUME NEW n \in T PROVE n + 1 \in T
  <2>1. PICK g : Solves(S, X, depth, body, g, n)
    OBVIOUS
  <2> DEFINE h == body[g]
  <2>2. g \in [S -> X] /\ h \in [S -> X]
    BY <2>1 DEF Solves, Local
  <2>3. Agree(S, depth, h, g, n)
    BY <2>1 DEF Solves, Agree
  <2> HIDE DEF h
  <2>4. ASSUME NEW t \in S, depth[t] < n + 1 PROVE h[t] = body[h][t]
    <3>1. \A u \in S : depth[u] \in Nat
      OBVIOUS
    <3>2. Agree(S, depth, h, g, depth[t])
      BY <2>3, <2>4, <3>1 DEF Agree
    <3>3. body[h][t] = body[g][t]
      BY <2>2, <3>2 DEF Local
    <3> QED
      BY <3>3 DEF h
  <2>5. Solves(S, X, depth, body, h, n + 1)
    BY <2>2, <2>4 DEF Solves
  <2> QED
    BY <2>5
<1> HIDE DEF T
<1>3. \A n \in Nat : n \in T
  BY <1>1, <1>2, SetInduction
<1> QED
  BY <1>3 DEF T

LEMMA DepthRecursion ==
  ASSUME NEW S, NEW X, S # {} => X # {}, NEW depth \in [S -> Nat], NEW body,
         Local(S, X, depth, body)
  PROVE  \E h \in [S -> X] : h = body[h]
<1> DEFINE g(n) == CHOOSE g : Solves(S, X, depth, body, g, n)
           h == [t \in S |-> g(depth[t] + 1)[t]]
<1>1. \A n \in Nat : Solves(S, X, depth, body, g(n), n)
  BY SolvesUpTo
<1> HIDE DEF g
<1>2. \A t \in S : depth[t] \in Nat /\ depth[t] + 1 \in Nat
  OBVIOUS
<1>3. h \in [S -> X]
  BY <1>1, <1>2 DEF Solves
<1>4. ASSUME NEW t \in S PROVE h[t] = body[h][t]
  <2> DEFINE n == depth[t] + 1
  <2>1. n \in Nat /\ depth[t] < n
    BY <1>2
  <2>2. Solves(S, X, depth, body, g(n), n)
    BY <1>1, <2>1
  <2>3. ASSUME NEW u \in S, depth[u] < depth[t] PROVE h[u] = g(n)[u]
    <3> DEFINE m == depth[u] + 1
    <3>1. m \in Nat /\ depth[u] < m /\ m <= n /\ Solves(S, X, depth, body, g(m), m)
      BY <1>1, <1>2, <2>3
    <3>2. Solves(S, X, depth, body, g(n), m)
      <4>1. \A v \in S : depth[v] < m => depth[v] < n
        BY <1>2, <2>1, <3>1
      <4> QED
        BY <2>2, <4>1 DEF Solves
    <3>3. Agree(S, depth, g(m), g(n), m)
      BY <3>1, <3>2, SolvesOnce
    <3> QED
      BY <3>1, <3>3 DEF Agree
  <2>4. Agree(S, depth, h, g(n), depth[t])
    BY <2>3 DEF Agree
  <2>5. g(n) \in [S -> X]
    BY <2>2 DEF Solves
  <2> HIDE DEF h, n
  <2>6. body[h][t] = body[g(n)][t]
    BY <1>3, <2>4, <2>5 DEF Local
  <2>7. g(n)[t] = body[g(n)][t]
    BY <2>1, <2>2 DEF Solves
  <2>8. h[t] = g(n)[t]
    BY DEF h, n
  <2> QED
    BY <2>6, <2>7, <2>8
<1> HIDE DEF h
<1>5. body[h] \in [S -> X]
  BY <1>3 DEF Local
<1>6. h = body[h]
  BY <1>3, <1>4, <1>5
<1> QED
  BY <1>3, <1>6
=============================================================================
