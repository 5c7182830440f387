------------------------------ MODULE CTypesProofs ------------------------------
(***************************************************************************)
(* What the functions over LLVM's types are, though TLA+ gives them by     *)
(* recursion, and what they promise: getType makes a type behind the types *)
(* it is of, and the structs a declaration needs are those its text starts *)
(* with.  Also the facts about sequences the proofs about Declarations     *)
(* rest on.                                                                *)
(***************************************************************************)
EXTENDS CTypes, NaturalSets, FiniteSetTheorems

-----------------------------------------------------------------------------
(* Places in a sequence. *)

\* The place behind one of q, or behind q.
LEMMA NextPlace ==
  ASSUME NEW S, NEW q \in Seq(S), NEW i \in DOMAIN q
  PROVE  i + 1 \in 1..Len(q) + 1 /\ i + 1 \in 1..(Len(q) + 1) /\ i \in Nat
OBVIOUS

\* Each sequence has a place to append to.
LEMMA FirstPlace ==
  ASSUME NEW S, NEW q \in Seq(S)
  PROVE  1 \in 1..Len(q) + 1 /\ 1 \in 1..(Len(q) + 1)
OBVIOUS

\* Places are positive numbers.
LEMMA PlaceIs ==
  ASSUME NEW S, NEW q \in Seq(S), NEW i \in DOMAIN q
  PROVE  i \in Nat /\ i >= 1 /\ ~(i < 1)
OBVIOUS

\* One more and one less.
LEMMA BackAgain == \A k \in Nat : k + 1 - 1 = k /\ k # k + 1
OBVIOUS

\* The places of a sequence with one more element.
LEMMA OneMorePlace ==
  ASSUME NEW n \in Nat
  PROVE  /\ \A m \in 1..(n + 1) : m \in 1..n \/ m = n + 1
         /\ \A m \in 2..(n + 1) : m \in 2..n \/ m = n + 1
         /\ \A m \in 2..n : m \in 1..n
OBVIOUS

\* Less than the next and not equal is less.
LEMMA SmallerOrEqual == \A j, k \in Nat : j < k + 1 /\ j # k => j < k
OBVIOUS

-----------------------------------------------------------------------------
(* What the functions over types are. *)

\* The depth of a type is a natural number.
LEMMA DepthIs == Depth \in [Types -> Nat]
BY TypesAssumption

\* What a pointer points to and an array is of is a type less deep.
LEMMA PartOf ==
  ASSUME NEW t \in Types, t[1] \in {"array", "vla", "pointer"}
  PROVE  t = <<t[1], t[2]>> /\ t[2] \in Types /\ Depth[t[2]] < Depth[t]
BY TypesAssumption DEF Is, IsFunction

\* StructArray is what its definition says.
LEMMA StructArrayIs ==
  \A t \in Types :
    /\ StructArray[t] \in Types \cup {None}
    /\ StructArray[t] =
         IF ~Is(t, "array") THEN None ELSE IF IsStruct(t[2]) THEN t[2] ELSE StructArray[t[2]]
<1> DEFINE X == Types \cup {None}
           E(t, g) ==
             IF ~Is(t, "array") THEN None ELSE IF IsStruct(t[2]) THEN t[2] ELSE g[t[2]]
           body == [g \in [Types -> X] |-> [t \in Types |-> E(t, g)]]
           P == {t \in Types : StructArray[t] \in X}
<1>1. ASSUME NEW g, NEW t \in Types, \A u \in Types : Depth[u] < Depth[t] => g[u] \in X
      PROVE  E(t, g) \in X
  BY <1>1, PartOf DEF Is
<1>2. ASSUME NEW g, NEW h, NEW t \in Types, Agree(Types, Depth, g, h, Depth[t])
      PROVE  E(t, g) = E(t, h)
  BY <1>2, PartOf DEF Agree, Is
<1>3. Types # {} => X # {}
  OBVIOUS
<1> HIDE DEF E, X
<1>4. Local(Types, X, Depth, body)
  BY <1>1, <1>2 DEF Local
<1> HIDE DEF body
<1>5. PICK h \in [Types -> X] : h = body[h]
  BY <1>3, <1>4, DepthIs, DepthRecursion
<1>6. h = [t \in Types |-> E(t, h)]
  BY <1>5 DEF body
<1>7. StructArray = [t \in Types |-> E(t, StructArray)]
  BY <1>6 DEF StructArray, E
<1>8. ASSUME NEW t \in Types, \A u \in Types : Depth[u] < Depth[t] => u \in P
      PROVE  t \in P
  BY <1>1, <1>7, <1>8
<1> HIDE DEF P
<1>9. Types \subseteq P
  BY <1>8, DepthIs, DepthInduction
<1> QED
  BY <1>7, <1>9 DEF P, E, X

\* PointerArray is what its definition says.
LEMMA PointerArrayIs ==
  \A t \in Types :
    /\ PointerArray[t] \in Types \cup {None}
    /\ PointerArray[t] =
         IF ~Is(t, "array") THEN None ELSE IF Is(t[2], "pointer") THEN t[2] ELSE PointerArray[t[2]]
<1> DEFINE X == Types \cup {None}
           E(t, g) ==
             IF ~Is(t, "array") THEN None ELSE IF Is(t[2], "pointer") THEN t[2] ELSE g[t[2]]
           body == [g \in [Types -> X] |-> [t \in Types |-> E(t, g)]]
           P == {t \in Types : PointerArray[t] \in X}
<1>1. ASSUME NEW g, NEW t \in Types, \A u \in Types : Depth[u] < Depth[t] => g[u] \in X
      PROVE  E(t, g) \in X
  BY <1>1, PartOf DEF Is
<1>2. ASSUME NEW g, NEW h, NEW t \in Types, Agree(Types, Depth, g, h, Depth[t])
      PROVE  E(t, g) = E(t, h)
  BY <1>2, PartOf DEF Agree, Is
<1>3. Types # {} => X # {}
  OBVIOUS
<1> HIDE DEF E, X
<1>4. Local(Types, X, Depth, body)
  BY <1>1, <1>2 DEF Local
<1> HIDE DEF body
<1>5. PICK h \in [Types -> X] : h = body[h]
  BY <1>3, <1>4, DepthIs, DepthRecursion
<1>6. h = [t \in Types |-> E(t, h)]
  BY <1>5 DEF body
<1>7. PointerArray = [t \in Types |-> E(t, PointerArray)]
  BY <1>6 DEF PointerArray, E
<1>8. ASSUME NEW t \in Types, \A u \in Types : Depth[u] < Depth[t] => u \in P
      PROVE  t \in P
  BY <1>1, <1>7, <1>8
<1> HIDE DEF P
<1>9. Types \subseteq P
  BY <1>8, DepthIs, DepthInduction
<1> QED
  BY <1>7, <1>9 DEF P, E, X

\* IsArrayPointer is what its definition says.
LEMMA IsArrayPointerIs ==
  \A t \in Types :
    /\ IsArrayPointer[t] \in BOOLEAN
    /\ IsArrayPointer[t] =
         (Is(t, "pointer") /\ (Is(t[2], "array") \/ IsArrayPointer[t[2]]))
<1> DEFINE X == BOOLEAN
           E(t, g) ==
             (Is(t, "pointer") /\ (Is(t[2], "array") \/ g[t[2]]))
           body == [g \in [Types -> X] |-> [t \in Types |-> E(t, g)]]
           P == {t \in Types : IsArrayPointer[t] \in X}
<1>1. ASSUME NEW g, NEW t \in Types, \A u \in Types : Depth[u] < Depth[t] => g[u] \in X
      PROVE  E(t, g) \in X
  BY <1>1, PartOf DEF Is
<1>2. ASSUME NEW g, NEW h, NEW t \in Types, Agree(Types, Depth, g, h, Depth[t])
      PROVE  E(t, g) = E(t, h)
  BY <1>2, PartOf DEF Agree, Is
<1>3. Types # {} => X # {}
  OBVIOUS
<1> HIDE DEF E, X
<1>4. Local(Types, X, Depth, body)
  BY <1>1, <1>2 DEF Local
<1> HIDE DEF body
<1>5. PICK h \in [Types -> X] : h = body[h]
  BY <1>3, <1>4, DepthIs, DepthRecursion
<1>6. h = [t \in Types |-> E(t, h)]
  BY <1>5 DEF body
<1>7. IsArrayPointer = [t \in Types |-> E(t, IsArrayPointer)]
  BY <1>6 DEF IsArrayPointer, E
<1>8. ASSUME NEW t \in Types, \A u \in Types : Depth[u] < Depth[t] => u \in P
      PROVE  t \in P
  BY <1>1, <1>7, <1>8
<1> HIDE DEF P
<1>9. Types \subseteq P
  BY <1>8, DepthIs, DepthInduction
<1> QED
  BY <1>7, <1>9 DEF P, E, X

\* StructPointer is what its definition says.
LEMMA StructPointerIs ==
  \A t \in Types :
    /\ StructPointer[t] \in Types \cup {None}
    /\ StructPointer[t] =
         CASE ~Is(t, "pointer") -> None
           [] Is(t, "pointer") /\ Is(t[2], "array") -> StructArray[t[2]]
           [] Is(t, "pointer") /\ IsStruct(t[2]) -> t[2]
           [] OTHER -> StructPointer[t[2]]
<1> DEFINE X == Types \cup {None}
           E(t, g) ==
             CASE ~Is(t, "pointer") -> None
           [] Is(t, "pointer") /\ Is(t[2], "array") -> StructArray[t[2]]
           [] Is(t, "pointer") /\ IsStruct(t[2]) -> t[2]
           [] OTHER -> g[t[2]]
           body == [g \in [Types -> X] |-> [t \in Types |-> E(t, g)]]
           P == {t \in Types : StructPointer[t] \in X}
<1>1. ASSUME NEW g, NEW t \in Types, \A u \in Types : Depth[u] < Depth[t] => g[u] \in X
      PROVE  E(t, g) \in X
  BY <1>1, PartOf, StructArrayIs DEF Is
<1>2. ASSUME NEW g, NEW h, NEW t \in Types, Agree(Types, Depth, g, h, Depth[t])
      PROVE  E(t, g) = E(t, h)
  BY <1>2, PartOf, StructArrayIs DEF Agree, Is
<1>3. Types # {} => X # {}
  OBVIOUS
<1> HIDE DEF E, X
<1>4. Local(Types, X, Depth, body)
  BY <1>1, <1>2 DEF Local
<1> HIDE DEF body
<1>5. PICK h \in [Types -> X] : h = body[h]
  BY <1>3, <1>4, DepthIs, DepthRecursion
<1>6. h = [t \in Types |-> E(t, h)]
  BY <1>5 DEF body
<1>7. StructPointer = [t \in Types |-> E(t, StructPointer)]
  BY <1>6 DEF StructPointer, E
<1>8. ASSUME NEW t \in Types, \A u \in Types : Depth[u] < Depth[t] => u \in P
      PROVE  t \in P
  BY <1>1, <1>7, <1>8
<1> HIDE DEF P
<1>9. Types \subseteq P
  BY <1>8, DepthIs, DepthInduction
<1> QED
  BY <1>7, <1>9 DEF P, E, X

\* Levels is what its definition says, a natural number.
LEMMA LevelsIs ==
  \A t \in Types :
    /\ Levels[t] \in Nat
    /\ Levels[t] =
         IF Is(t, "pointer") THEN Levels[t[2]] + 1 ELSE 0
<1> DEFINE X == Nat
           E(t, g) ==
             IF Is(t, "pointer") THEN g[t[2]] + 1 ELSE 0
           body == [g \in [Types -> X] |-> [t \in Types |-> E(t, g)]]
           P == {t \in Types : Levels[t] \in X}
<1>1. ASSUME NEW g, NEW t \in Types, \A u \in Types : Depth[u] < Depth[t] => g[u] \in X
      PROVE  E(t, g) \in X
  BY <1>1, PartOf DEF Is
<1>2. ASSUME NEW g, NEW h, NEW t \in Types, Agree(Types, Depth, g, h, Depth[t])
      PROVE  E(t, g) = E(t, h)
  BY <1>2, PartOf DEF Agree, Is
<1>3. Types # {} => X # {}
  OBVIOUS
<1> HIDE DEF E, X
<1>4. Local(Types, X, Depth, body)
  BY <1>1, <1>2 DEF Local
<1> HIDE DEF body
<1>5. PICK h \in [Types -> X] : h = body[h]
  BY <1>3, <1>4, DepthIs, DepthRecursion
<1>6. h = [t \in Types |-> E(t, h)]
  BY <1>5 DEF body
<1>7. Levels = [t \in Types |-> E(t, Levels)]
  BY <1>6 DEF Levels, E
<1>8. ASSUME NEW t \in Types, \A u \in Types : Depth[u] < Depth[t] => u \in P
      PROVE  t \in P
  BY <1>1, <1>7, <1>8
<1> HIDE DEF P
<1>9. Types \subseteq P
  BY <1>8, DepthIs, DepthInduction
<1> QED
  BY <1>7, <1>9 DEF P, E, X

\* Sizes is what its definition says, a natural number.
LEMMA SizesIs ==
  \A t \in Types :
    /\ Sizes[t] \in Nat
    /\ Sizes[t] =
         IF Is(t, "array") THEN 1 + Sizes[t[2]] ELSE 0
<1> DEFINE X == Nat
           E(t, g) ==
             IF Is(t, "array") THEN 1 + g[t[2]] ELSE 0
           body == [g \in [Types -> X] |-> [t \in Types |-> E(t, g)]]
           P == {t \in Types : Sizes[t] \in X}
<1>1. ASSUME NEW g, NEW t \in Types, \A u \in Types : Depth[u] < Depth[t] => g[u] \in X
      PROVE  E(t, g) \in X
  BY <1>1, PartOf DEF Is
<1>2. ASSUME NEW g, NEW h, NEW t \in Types, Agree(Types, Depth, g, h, Depth[t])
      PROVE  E(t, g) = E(t, h)
  BY <1>2, PartOf DEF Agree, Is
<1>3. Types # {} => X # {}
  OBVIOUS
<1> HIDE DEF E, X
<1>4. Local(Types, X, Depth, body)
  BY <1>1, <1>2 DEF Local
<1> HIDE DEF body
<1>5. PICK h \in [Types -> X] : h = body[h]
  BY <1>3, <1>4, DepthIs, DepthRecursion
<1>6. h = [t \in Types |-> E(t, h)]
  BY <1>5 DEF body
<1>7. Sizes = [t \in Types |-> E(t, Sizes)]
  BY <1>6 DEF Sizes, E
<1>8. ASSUME NEW t \in Types, \A u \in Types : Depth[u] < Depth[t] => u \in P
      PROVE  t \in P
  BY <1>1, <1>7, <1>8
<1> HIDE DEF P
<1>9. Types \subseteq P
  BY <1>8, DepthIs, DepthInduction
<1> QED
  BY <1>7, <1>9 DEF P, E, X

\* TypeText is what its definition says.
LEMMA TypeTextIs ==
  \A t \in Types :
    /\ TypeText[t] \in [base : Types, stars : Nat]
    /\ TypeText[t] =
         CASE Is(t, "array") -> TypeText[t[2]]
           [] Is(t, "pointer") /\ (IsArrayPointer[t] \/ IsFunction(t[2])) -> TypeText[t[2]]
           [] Is(t, "pointer") /\ ~(IsArrayPointer[t] \/ IsFunction(t[2])) ->
                [TypeText[t[2]] EXCEPT !.stars = @ + 1]
           [] OTHER -> [base |-> t, stars |-> 0]
<1> DEFINE X == [base : Types, stars : Nat]
           E(t, g) ==
             CASE Is(t, "array") -> g[t[2]]
           [] Is(t, "pointer") /\ (IsArrayPointer[t] \/ IsFunction(t[2])) -> g[t[2]]
           [] Is(t, "pointer") /\ ~(IsArrayPointer[t] \/ IsFunction(t[2])) ->
                [g[t[2]] EXCEPT !.stars = @ + 1]
           [] OTHER -> [base |-> t, stars |-> 0]
           body == [g \in [Types -> X] |-> [t \in Types |-> E(t, g)]]
           P == {t \in Types : TypeText[t] \in X}
<1>1. ASSUME NEW g, NEW t \in Types, \A u \in Types : Depth[u] < Depth[t] => g[u] \in X
      PROVE  E(t, g) \in X
  BY <1>1, PartOf DEF Is
<1>2. ASSUME NEW g, NEW h, NEW t \in Types, Agree(Types, Depth, g, h, Depth[t])
      PROVE  E(t, g) = E(t, h)
  BY <1>2, PartOf DEF Agree, Is
<1>3. Types # {} => X # {}
  BY \A t \in Types : [base |-> t, stars |-> 0] \in X
<1> HIDE DEF E, X
<1>4. Local(Types, X, Depth, body)
  BY <1>1, <1>2 DEF Local
<1> HIDE DEF body
<1>5. PICK h \in [Types -> X] : h = body[h]
  BY <1>3, <1>4, DepthIs, DepthRecursion
<1>6. h = [t \in Types |-> E(t, h)]
  BY <1>5 DEF body
<1>7. TypeText = [t \in Types |-> E(t, TypeText)]
  BY <1>6 DEF TypeText, E
<1>8. ASSUME NEW t \in Types, \A u \in Types : Depth[u] < Depth[t] => u \in P
      PROVE  t \in P
  BY <1>1, <1>7, <1>8
<1> HIDE DEF P
<1>9. Types \subseteq P
  BY <1>8, DepthIs, DepthInduction
<1> QED
  BY <1>7, <1>9 DEF P, E, X

\* SaysItAll is what its definition says.
LEMMA SaysItAllIs ==
  \A t \in Types :
    /\ SaysItAll[t] \in BOOLEAN
    /\ SaysItAll[t] =
         CASE Is(t, "array") ->
                SaysItAll[t[2]] /\ (PointerArray[t] = None \/ ~IsArrayPointer[PointerArray[t]])
           [] Is(t, "pointer") ->
                SaysItAll[t[2]] /\ ~IsFunction(t[2]) /\ (IsArrayPointer[t] => Is(t[2], "array"))
           [] OTHER -> TRUE
<1> DEFINE X == BOOLEAN
           E(t, g) ==
             CASE Is(t, "array") ->
                g[t[2]] /\ (PointerArray[t] = None \/ ~IsArrayPointer[PointerArray[t]])
           [] Is(t, "pointer") ->
                g[t[2]] /\ ~IsFunction(t[2]) /\ (IsArrayPointer[t] => Is(t[2], "array"))
           [] OTHER -> TRUE
           body == [g \in [Types -> X] |-> [t \in Types |-> E(t, g)]]
           P == {t \in Types : SaysItAll[t] \in X}
<1>1. ASSUME NEW g, NEW t \in Types, \A u \in Types : Depth[u] < Depth[t] => g[u] \in X
      PROVE  E(t, g) \in X
  BY <1>1, PartOf DEF Is
<1>2. ASSUME NEW g, NEW h, NEW t \in Types, Agree(Types, Depth, g, h, Depth[t])
      PROVE  E(t, g) = E(t, h)
  BY <1>2, PartOf DEF Agree, Is
<1>3. Types # {} => X # {}
  OBVIOUS
<1> HIDE DEF E, X
<1>4. Local(Types, X, Depth, body)
  BY <1>1, <1>2 DEF Local
<1> HIDE DEF body
<1>5. PICK h \in [Types -> X] : h = body[h]
  BY <1>3, <1>4, DepthIs, DepthRecursion
<1>6. h = [t \in Types |-> E(t, h)]
  BY <1>5 DEF body
<1>7. SaysItAll = [t \in Types |-> E(t, SaysItAll)]
  BY <1>6 DEF SaysItAll, E
<1>8. ASSUME NEW t \in Types, \A u \in Types : Depth[u] < Depth[t] => u \in P
      PROVE  t \in P
  BY <1>1, <1>7, <1>8
<1> HIDE DEF P
<1>9. Types \subseteq P
  BY <1>8, DepthIs, DepthInduction
<1> QED
  BY <1>7, <1>9 DEF P, E, X

\* A type wrapped n + 1 times is one around it wrapped n times.
LEMMA WrappedIs ==
  ASSUME NEW kind, NEW t
  PROVE  /\ Wrapped(kind, 0, t) = t
         /\ \A n \in Nat : Wrapped(kind, n + 1, t) = <<kind, Wrapped(kind, n, t)>>
<1> DEFINE Is0(w, n) == w = [k \in 0..n |-> IF k = 0 THEN t ELSE <<kind, w[k - 1]>>]
           W(n) == CHOOSE w : Is0(w, n)
           T == {n \in Nat : \E w : Is0(w, n)}
<1>1. 0 \in T
  <2>1. Is0([k \in 0..0 |-> t], 0)
    OBVIOUS
  <2> HIDE DEF Is0
  <2> QED
    BY <2>1
<1>2. ASSUME NEW n \in T PROVE n + 1 \in T
  <2>1. PICK w : Is0(w, n)
    OBVIOUS
  <2> DEFINE z == [k \in 0..(n + 1) |-> IF k = n + 1 THEN <<kind, w[n]>> ELSE w[k]]
  <2>2. ASSUME NEW k \in 0..(n + 1) PROVE z[k] = IF k = 0 THEN t ELSE <<kind, z[k - 1]>>
    <3>1. CASE k = n + 1
      BY <3>1
    <3>2. CASE k \in 0..n
      <4>1. z[k] = w[k] /\ (k # 0 => z[k - 1] = w[k - 1])
        BY <3>2
      <4> QED
        BY <2>1, <3>2, <4>1
    <3> QED
      BY <3>1, <3>2
  <2>3. z = [k \in 0..(n + 1) |-> z[k]]
    OBVIOUS
  <2> HIDE DEF z
  <2>4. Is0(z, n + 1)
    BY <2>2, <2>3
  <2> HIDE DEF Is0
  <2> QED
    BY <2>4
<1> HIDE DEF T
<1>3. \A n \in Nat : n \in T
  BY <1>1, <1>2, SetInduction
<1>4. ASSUME NEW n \in Nat PROVE Is0(W(n), n)
  <2>1. \E w : Is0(w, n)
    BY <1>3 DEF T
  <2> HIDE DEF Is0
  <2> QED
    BY <2>1
<1> HIDE DEF W
<1>5. \A n \in Nat : /\ W(n)[0] = t
                     /\ \A k \in 1..n : W(n)[k] = <<kind, W(n)[k - 1]>>
  BY <1>4
<1>6. ASSUME NEW n \in Nat PROVE W(n + 1)[n] = W(n)[n]
  <2> DEFINE V == {k \in Nat : k <= n => W(n + 1)[k] = W(n)[k]}
  <2>1. 0 \in V
    BY <1>5
  <2>2. ASSUME NEW k \in V PROVE k + 1 \in V
    <3> SUFFICES ASSUME k + 1 <= n PROVE W(n + 1)[k + 1] = W(n)[k + 1]
      OBVIOUS
    <3>1. k + 1 \in 1..n /\ k + 1 \in 1..(n + 1) /\ (k + 1) - 1 = k /\ n + 1 \in Nat
      OBVIOUS
    <3>2. W(n + 1)[k] = W(n)[k]
      OBVIOUS
    <3> QED
      BY <1>5, <3>1, <3>2
  <2> HIDE DEF V
  <2>3. n \in V
    BY <2>1, <2>2, SetInduction
  <2> QED
    BY <2>3 DEF V
<1>7. \A n \in Nat : Wrapped(kind, n, t) = W(n)[n]
  BY DEF Wrapped, W
<1>8. ASSUME NEW n \in Nat PROVE Wrapped(kind, n + 1, t) = <<kind, Wrapped(kind, n, t)>>
  <2>1. n + 1 \in Nat /\ n + 1 \in 1..(n + 1) /\ (n + 1) - 1 = n
    OBVIOUS
  <2> QED
    BY <1>5, <1>6, <1>7, <2>1
<1> QED
  BY <1>5, <1>7, <1>8

-----------------------------------------------------------------------------
(* Declarations say the types they are of. *)

\* The text of a type that is neither an array nor a pointer to one.
LEMMA PlainDeclared ==
  ASSUME NEW t \in Types, ~Is(t, "array"), ~IsArrayPointer[t]
  PROVE  Declared(t) = Wrapped("pointer", TypeText[t].stars, TypeText[t].base)
<1>1. SurroundName(t) = [levels |-> 0, inside |-> 0, behind |-> 0]
  BY DEF SurroundName
<1> QED
  BY <1>1, WrappedIs DEF Declared

\* The declaration of an array is that of its elements with one more size.
LEMMA ArrayDeclared ==
  ASSUME NEW t \in Types, Is(t, "array"), SaysItAll[t]
  PROVE  Declared(t) = Wrapped("array", Sizes[t],
                         Wrapped("pointer", TypeText[t].stars, TypeText[t].base))
<1>1. PointerArray[t] = None \/ ~IsArrayPointer[PointerArray[t]]
  BY SaysItAllIs DEF Is
<1>2. SurroundName(t) = [levels |-> 0, inside |-> Sizes[t], behind |-> 0]
  <2>1. SurroundName(t) = SurroundArrayName(t)
    BY DEF SurroundName, Is
  <2>2. ~(PointerArray[t] # None /\ IsArrayPointer[PointerArray[t]])
    BY <1>1
  <2> QED
    BY <2>1, <2>2 DEF SurroundArrayName
<1> QED
  BY <1>2, WrappedIs DEF Declared

\* A declaration that says it all declares the type it is printed for.
LEMMA DeclaredIs ==
  ASSUME NEW t \in Types, SaysItAll[t]
  PROVE  Declared(t) = t
<1> DEFINE P == {u \in Types : SaysItAll[u] => Declared(u) = u}
<1>1. ASSUME NEW u \in Types, \A v \in Types : Depth[v] < Depth[u] => v \in P, SaysItAll[u]
      PROVE  Declared(u) = u
  <2>1. CASE Is(u, "array")
    <3> DEFINE e == u[2]
    <3>1. u = <<"array", e>> /\ e \in Types /\ e \in P
      BY <1>1, <2>1, PartOf DEF Is
    <3>2. SaysItAll[e] /\ (PointerArray[u] = None \/ ~IsArrayPointer[PointerArray[u]])
      BY <1>1, <2>1, SaysItAllIs DEF Is
    <3>3. Declared(e) = e
      BY <3>1, <3>2
    <3>4. TypeText[u] = TypeText[e] /\ Sizes[u] = Sizes[e] + 1 /\ Sizes[e] \in Nat
      <4>1. TypeText[u] = TypeText[e]
        BY <2>1, TypeTextIs DEF Is
      <4>2. Sizes[u] = 1 + Sizes[e] /\ Sizes[e] \in Nat
        BY <2>1, <3>1, SizesIs
      <4> QED
        BY <4>1, <4>2
    <3> DEFINE w == Wrapped("pointer", TypeText[e].stars, TypeText[e].base)
    <3>5. Declared(u) = <<"array", Wrapped("array", Sizes[e], w)>>
      <4>1. Declared(u) = Wrapped("array", Sizes[e] + 1, w)
        BY <1>1, <2>1, <3>4, ArrayDeclared
      <4> HIDE DEF w
      <4> QED
        BY <3>4, <4>1, WrappedIs
    <3>6. CASE Is(e, "array")
      BY <3>1, <3>2, <3>3, <3>5, <3>6, ArrayDeclared
    <3>7. CASE ~Is(e, "array")
      <4>1. Sizes[e] = 0
        BY <3>1, <3>7, SizesIs
      <4>2. ~IsArrayPointer[e]
        <5>1. CASE Is(e, "pointer")
          <6>1. PointerArray[u] = e
            BY <2>1, <5>1, PointerArrayIs
          <6>2. e # None
            BY <5>1 DEF None, Is
          <6> QED
            BY <3>2, <6>1, <6>2
        <5>2. CASE ~Is(e, "pointer")
          BY <3>1, <5>2, IsArrayPointerIs
        <5> QED
          BY <5>1, <5>2
      <4>3. e = w
        BY <3>1, <3>3, <3>7, <4>2, PlainDeclared
      <4> HIDE DEF w
      <4>4. Declared(u) = <<"array", w>>
        BY <3>5, <4>1, WrappedIs
      <4> QED
        BY <3>1, <4>3, <4>4
    <3> QED
      BY <3>6, <3>7
  <2>2. CASE Is(u, "pointer")
    <3> DEFINE e == u[2]
    <3>1. u = <<"pointer", e>> /\ e \in Types /\ e \in P
      BY <1>1, <2>2, PartOf DEF Is
    <3>2. SaysItAll[e] /\ ~IsFunction(e) /\ (IsArrayPointer[u] => Is(e, "array")) /\ ~Is(u, "array")
      <4>1. ~Is(u, "array")
        BY <2>2 DEF Is
      <4> QED
        BY <1>1, <2>2, <4>1, SaysItAllIs
    <3>3. Declared(e) = e
      BY <3>1, <3>2
    <3> DEFINE w == Wrapped("pointer", TypeText[e].stars, TypeText[e].base)
    <3>4. CASE IsArrayPointer[u]
      <4>1. Is(e, "array") /\ TypeText[u] = TypeText[e] /\ Levels[u] = 1
        <5>1. Is(e, "array")
          BY <3>2, <3>4
        <5>2. TypeText[u] = TypeText[e]
          BY <2>2, <3>2, <3>4, TypeTextIs
        <5>3. Levels[e] = 0
          BY <3>1, <5>1, LevelsIs DEF Is
        <5>4. Levels[u] = 1
          BY <2>2, <5>3, LevelsIs
        <5> QED
          BY <5>1, <5>2, <5>4
      <4>2. SurroundName(u) = [levels |-> 1, inside |-> 0, behind |-> Sizes[e]]
        BY <2>2, <3>2, <3>4, <4>1 DEF SurroundName, SurroundPointerName
      <4>3. Declared(u) = Wrapped("array", 0, Wrapped("pointer", 1, Wrapped("array", Sizes[e], w)))
        BY <4>1, <4>2 DEF Declared
      <4>4. Wrapped("array", Sizes[e], w) = e
        BY <3>1, <3>2, <3>3, <4>1, ArrayDeclared
      <4> HIDE DEF w
      <4>5. Wrapped("pointer", 0 + 1, e) = <<"pointer", Wrapped("pointer", 0, e)>>
        BY WrappedIs
      <4>6. Wrapped("pointer", 1, e) = <<"pointer", e>>
        BY <4>5, WrappedIs
      <4> QED
        BY <3>1, <4>3, <4>4, <4>6, WrappedIs
    <3>5. CASE ~IsArrayPointer[u]
      <4>1. ~Is(e, "array") /\ ~IsArrayPointer[e]
        BY <2>2, <3>1, <3>5, IsArrayPointerIs
      <4>2. TypeText[u] = [TypeText[e] EXCEPT !.stars = @ + 1] /\ TypeText[e] \in [base : Types, stars : Nat]
        BY <2>2, <3>1, <3>2, <3>5, TypeTextIs
      <4>3. TypeText[u].stars = TypeText[e].stars + 1 /\ TypeText[u].base = TypeText[e].base
            /\ TypeText[e].stars \in Nat
        BY <4>2
      <4>4. Declared(u) = Wrapped("pointer", TypeText[e].stars + 1, TypeText[e].base)
        BY <3>2, <3>5, <4>3, PlainDeclared
      <4>5. Declared(u) = <<"pointer", w>>
        <5> DEFINE n == TypeText[e].stars
                   b == TypeText[e].base
        <5>1. n \in Nat
          BY <4>3
        <5>2. Declared(u) = Wrapped("pointer", n + 1, b)
          BY <4>4
        <5> HIDE DEF n, b
        <5>3. Declared(u) = <<"pointer", Wrapped("pointer", n, b)>>
          BY <5>1, <5>2, WrappedIs
        <5> QED
          BY <5>3 DEF n, b
      <4>6. w = e
        BY <3>1, <3>3, <4>1, PlainDeclared
      <4> QED
        BY <3>1, <4>5, <4>6
    <3> QED
      BY <3>4, <3>5
  <2>3. CASE ~Is(u, "array") /\ ~Is(u, "pointer")
    <3>1. TypeText[u] = [base |-> u, stars |-> 0] /\ ~IsArrayPointer[u]
      BY <2>3, TypeTextIs, IsArrayPointerIs
    <3>2. Declared(u) = Wrapped("pointer", 0, u)
      BY <2>3, <3>1, PlainDeclared
    <3> QED
      BY <3>2, WrappedIs
  <2> QED
    BY <2>1, <2>2, <2>3
<1>2. ASSUME NEW u \in Types, \A v \in Types : Depth[v] < Depth[u] => v \in P
      PROVE  u \in P
  BY <1>1, <1>2
<1> HIDE DEF P
<1>3. Types \subseteq P
  BY <1>2, DepthIs, DepthInduction
<1> QED
  BY <1>3 DEF P

-----------------------------------------------------------------------------
(* Sequences put one behind the other. *)

Flattening(f, S, seqs) ==
  /\ f \in [0..Len(seqs) -> Seq(S)] /\ f[0] = <<>>
  /\ \A i \in 1..Len(seqs) : f[i] = f[i - 1] \o seqs[i]

\* FlattenSeq puts one sequence behind the other, from the first on.
LEMMA FlattenIs ==
  ASSUME NEW S, NEW seqs \in Seq(Seq(S))
  PROVE  \E f : Flattening(f, S, seqs) /\ FlattenSeq(seqs) = f[Len(seqs)]
<1> DEFINE k == Len(seqs)
           Is0(g) == g = [i \in 1..k |-> IF i = 1 THEN seqs[i] ELSE g[i - 1] \o seqs[i]]
           step == [n \in 1..k |-> [y \in Seq(S) |-> y \o seqs[n]]]
<1>1. k \in Nat /\ \A i \in 1..k : seqs[i] \in Seq(S)
  OBVIOUS
<1>2. CASE k = 0
  <2>1. FlattenSeq(seqs) = <<>>
    BY <1>2 DEF FlattenSeq
  <2> DEFINE f == [i \in 0..0 |-> <<>>]
  <2>2. f \in [0..k -> Seq(S)] /\ f[0] = <<>> /\ f[k] = <<>> /\ 1..k = {}
    BY <1>2
  <2>3. Flattening(f, S, seqs)
    BY <2>2 DEF Flattening
  <2> HIDE DEF f
  <2> QED
    BY <2>1, <2>2, <2>3
<1>3. CASE k # 0
  <2>1. \A n \in 1..k : \A y \in Seq(S) : step[n][y] = y \o seqs[n] /\ y \o seqs[n] \in Seq(S)
    BY <1>1
  <2> HIDE DEF step
  <2>2. Steps(step, Seq(S), k)
    BY <2>1 DEF Steps
  <2>3. <<>> \in Seq(S)
    OBVIOUS
  <2>4. PICK R : Recursion(R, Seq(S), <<>>, step, k)
    BY <1>1, <2>2, <2>3, RecursionDefined
  <2>5. R[0] = <<>> /\ \A n \in 1..k : R[n - 1] \in Seq(S) /\ R[n] = R[n - 1] \o seqs[n]
    <3>1. ASSUME NEW n \in 1..k PROVE R[n - 1] \in Seq(S) /\ R[n] = step[n][R[n - 1]]
      <4>1. n - 1 \in 0..k
        BY <1>1
      <4> HIDE DEF k
      <4> QED
        BY <2>4, <4>1 DEF Recursion
    <3> QED
      BY <2>1, <2>4, <3>1 DEF Recursion
  <2> DEFINE h == [i \in 1..k |-> R[i]]
  <2>6. Is0(h)
    <3>1. ASSUME NEW i \in 1..k PROVE R[i] = IF i = 1 THEN seqs[i] ELSE h[i - 1] \o seqs[i]
      <4>1. CASE i = 1
        <5>1. 1 \in 1..k /\ 1 - 1 = 0
          BY <4>1
        <5>3. R[1] = R[1 - 1] \o seqs[1] /\ seqs[1] \in Seq(S)
          BY <1>1, <2>5, <5>1
        <5>2. R[i] = <<>> \o seqs[i] /\ seqs[i] \in Seq(S)
          BY <2>5, <4>1, <5>1, <5>3
        <5> QED
          BY <4>1, <5>2
      <4>2. CASE i # 1
        <5>1. i - 1 \in 1..k
          BY <1>1, <4>2
        <5>2. h[i - 1] = R[i - 1]
          BY <5>1
        <5> QED
          BY <2>5, <4>2, <5>2
      <4> QED
        BY <4>1, <4>2
    <3>2. h = [i \in 1..k |-> IF i = 1 THEN seqs[i] ELSE h[i - 1] \o seqs[i]]
      BY <3>1
    <3> QED
      BY <3>2
  <2> DEFINE g == CHOOSE g : Is0(g)
  <2>7. Is0(g)
    <3> HIDE DEF h, Is0
    <3> QED
      BY <2>6
  <2>8. FlattenSeq(seqs) = g[k]
    BY <1>3 DEF FlattenSeq
  <2> HIDE DEF h, g, k
  <2>9. \A i \in 1..k : g[i] = IF i = 1 THEN seqs[i] ELSE g[i - 1] \o seqs[i]
    BY <2>7
  <2> DEFINE f == [i \in 0..k |-> IF i = 0 THEN <<>> ELSE g[i]]
  <2>10. f[0] = <<>> /\ \A i \in 1..k : f[i] = f[i - 1] \o seqs[i]
    <3>1. f[0] = <<>>
      BY <1>1
    <3>2. ASSUME NEW i \in 1..k PROVE f[i] = f[i - 1] \o seqs[i]
      <4>1. CASE i = 1
        <5>1. f[i] = seqs[i] /\ f[i - 1] = <<>> /\ seqs[i] \in Seq(S)
          BY <1>1, <2>9, <4>1
        <5>2. <<>> \o seqs[i] = seqs[i]
          BY <5>1
        <5> QED
          BY <5>1, <5>2
      <4>2. CASE i # 1
        <5>1. i - 1 \in 0..k /\ i - 1 # 0 /\ i \in 0..k /\ i # 0
          BY <1>1, <4>2
        <5>2. f[i] = g[i] /\ f[i - 1] = g[i - 1]
          BY <5>1
        <5> QED
          BY <2>9, <4>2, <5>2
      <4> QED
        BY <4>1, <4>2
    <3> QED
      BY <3>1, <3>2
  <2>11. f = [i \in 0..k |-> f[i]] /\ f[k] = g[k]
    BY <1>1, <1>3
  <2> HIDE DEF f
  <2> DEFINE T == {n \in Nat : n <= k => f[n] \in Seq(S)}
  <2>12. 0 \in T
    <3>1. <<>> \in Seq(S) /\ 0 \in Nat
      OBVIOUS
    <3> QED
      BY <2>10, <3>1
  <2>13. ASSUME NEW n \in T PROVE n + 1 \in T
    <3> SUFFICES ASSUME n + 1 <= k PROVE f[n + 1] \in Seq(S)
      OBVIOUS
    <3>1. n \in Nat /\ n <= k /\ n + 1 \in 1..k /\ (n + 1) - 1 = n
      BY <1>1
    <3>2. f[n] \in Seq(S) /\ seqs[n + 1] \in Seq(S) /\ f[n + 1] = f[n] \o seqs[n + 1]
      BY <1>1, <2>10, <3>1
    <3> QED
      BY <3>2
  <2> HIDE DEF T
  <2>14. Nat \subseteq T
    BY <2>12, <2>13, SetInduction
  <2>15. \A i \in 0..k : f[i] \in Seq(S)
    BY <1>1, <2>14 DEF T
  <2>16. f \in [0..k -> Seq(S)]
    BY <2>11, <2>15
  <2>17. Flattening(f, S, seqs)
    BY <2>10, <2>16 DEF Flattening, k
  <2> QED
    BY <2>8, <2>11, <2>17 DEF k
<1> QED
  BY <1>2, <1>3

\* The elements of a \o b are those of a and then those of b.
LEMMA ConcatIs ==
  ASSUME NEW S, NEW a \in Seq(S), NEW b \in Seq(S)
  PROVE  /\ a \o b \in Seq(S) /\ Len(a \o b) = Len(a) + Len(b)
         /\ \A n \in DOMAIN a : n \in DOMAIN (a \o b) /\ (a \o b)[n] = a[n]
         /\ \A n \in DOMAIN b : Len(a) + n \in DOMAIN (a \o b) /\ (a \o b)[Len(a) + n] = b[n]
         /\ \A n \in DOMAIN (a \o b) : n \in DOMAIN a \/ \E m \in DOMAIN b : n = Len(a) + m
         /\ Range(a \o b) = Range(a) \cup Range(b)
<1>1. /\ a \o b \in Seq(S) /\ Len(a \o b) = Len(a) + Len(b)
      /\ \A n \in DOMAIN a : n \in DOMAIN (a \o b) /\ (a \o b)[n] = a[n]
      /\ \A n \in DOMAIN b : Len(a) + n \in DOMAIN (a \o b) /\ (a \o b)[Len(a) + n] = b[n]
  OBVIOUS
<1>2. ASSUME NEW n \in DOMAIN (a \o b)
      PROVE  n \in DOMAIN a \/ \E m \in DOMAIN b : n = Len(a) + m
  <2>1. n \in 1..(Len(a) + Len(b)) /\ Len(a) \in Nat /\ Len(b) \in Nat
    OBVIOUS
  <2>2. CASE n <= Len(a)
    BY <2>1, <2>2
  <2>3. CASE ~(n <= Len(a))
    <3>1. n - Len(a) \in 1..Len(b) /\ n = Len(a) + (n - Len(a))
      BY <2>1, <2>3
    <3> QED
      BY <3>1
  <2> QED
    BY <2>2, <2>3
<1>3. Range(a \o b) = Range(a) \cup Range(b)
  <2>1. Range(a) \cup Range(b) \subseteq Range(a \o b)
    BY <1>1 DEF Range
  <2>2. Range(a \o b) \subseteq Range(a) \cup Range(b)
    <3> SUFFICES ASSUME NEW n \in DOMAIN (a \o b) PROVE (a \o b)[n] \in Range(a) \cup Range(b)
      BY DEF Range
    <3> QED
      BY <1>1, <1>2 DEF Range
  <2> QED
    BY <2>1, <2>2
<1> QED
  BY <1>1, <1>2, <1>3

\* The flattened sequence has the elements of all of them.
LEMMA FlattenRange ==
  ASSUME NEW S, NEW seqs \in Seq(Seq(S))
  PROVE  /\ FlattenSeq(seqs) \in Seq(S)
         /\ Range(FlattenSeq(seqs)) = UNION {Range(seqs[i]) : i \in DOMAIN seqs}
<1> DEFINE k == Len(seqs)
<1>1. PICK f : Flattening(f, S, seqs) /\ FlattenSeq(seqs) = f[k]
  BY FlattenIs
<1>2. k \in Nat /\ DOMAIN seqs = 1..k /\ \A i \in 1..k : seqs[i] \in Seq(S)
  OBVIOUS
<1>3. f \in [0..k -> Seq(S)] /\ f[0] = <<>> /\ \A i \in 1..k : f[i] = f[i - 1] \o seqs[i]
  BY <1>1 DEF Flattening
<1> HIDE DEF k
<1> DEFINE U(n) == UNION {Range(seqs[i]) : i \in 1..n}
           T == {n \in Nat : n <= k => Range(f[n]) = U(n)}
<1>4. 0 \in T
  <2>1. Range(<<>>) = {} /\ U(0) = {}
    BY DEF Range
  <2> QED
    BY <1>3, <2>1
<1>5. ASSUME NEW n \in T PROVE n + 1 \in T
  <2> SUFFICES ASSUME n + 1 <= k PROVE Range(f[n + 1]) = U(n + 1)
    OBVIOUS
  <2>1. n \in Nat /\ n <= k /\ n + 1 \in 1..k /\ (n + 1) - 1 = n /\ n \in 0..k /\ 1..n + 1 = 1..n \cup {n + 1}
    BY <1>2
  <2>2. f[n + 1] = f[n] \o seqs[n + 1] /\ f[n] \in Seq(S) /\ seqs[n + 1] \in Seq(S)
    BY <1>2, <1>3, <2>1
  <2>3. Range(f[n + 1]) = Range(f[n]) \cup Range(seqs[n + 1])
    BY <2>2, ConcatIs
  <2>4. U(n + 1) = U(n) \cup Range(seqs[n + 1])
    BY <2>1
  <2> QED
    BY <2>1, <2>3, <2>4
<1> HIDE DEF T
<1>6. k \in T
  BY <1>2, <1>4, <1>5, SetInduction
<1>7. f[k] \in Seq(S)
  BY <1>2, <1>3
<1> QED
  BY <1>1, <1>2, <1>6, <1>7 DEF T

\* The members of a struct without a name are types less deep.
LEMMA ItemsOf ==
  ASSUME NEW t \in Types, Is(t, "literal")
  PROVE  /\ t[2] \in Seq(Types)
         /\ \A p \in Range(t[2]) : p \in Types /\ Depth[p] < Depth[t]
         /\ \A i \in DOMAIN t[2] : t[2][i] \in Types /\ Depth[t[2][i]] < Depth[t]
<1>1. t[2] \in Seq(Types) /\ \A p \in Range(t[2]) : Depth[p] < Depth[t]
  BY TypesAssumption DEF Is, IsFunction
<1> QED
  BY <1>1 DEF Range

\* The parameters and the result of a function type are types less deep.
LEMMA PartsOfFunction ==
  ASSUME NEW t \in Types, IsFunction(t)
  PROVE  /\ t[2] \in Seq(Types) /\ t[3] \in Types /\ Depth[t[3]] < Depth[t]
         /\ \A p \in Range(t[2]) \cup {t[3]} : p \in Types /\ Depth[p] < Depth[t]
         /\ \A i \in DOMAIN t[2] : t[2][i] \in Types /\ Depth[t[2][i]] < Depth[t]
<1>1. /\ t[2] \in Seq(Types) /\ t[3] \in Types
      /\ \A p \in Range(t[2]) \cup {t[3]} : Depth[p] < Depth[t]
  BY TypesAssumption DEF Is, IsFunction
<1> QED
  BY <1>1 DEF Range

\* FunctionsIn is what its definition says.
LEMMA FunctionsInIs ==
  \A t \in Types :
    /\ FunctionsIn[t] \in SUBSET Types
    /\ FunctionsIn[t] =
         CASE t[1] \in {"array", "vla", "pointer"} -> FunctionsIn[t[2]]
           [] IsFunction(t) -> {t}
           [] OTHER -> {}
<1> DEFINE X == SUBSET Types
           E(t, g) ==
             CASE t[1] \in {"array", "vla", "pointer"} -> g[t[2]]
           [] IsFunction(t) -> {t}
           [] OTHER -> {}
           body == [g \in [Types -> X] |-> [t \in Types |-> E(t, g)]]
           P == {t \in Types : FunctionsIn[t] \in X}
<1>1. ASSUME NEW g, NEW t \in Types, \A u \in Types : Depth[u] < Depth[t] => g[u] \in X
      PROVE  E(t, g) \in X
  BY <1>1, PartOf DEF IsFunction
<1>2. ASSUME NEW g, NEW h, NEW t \in Types, Agree(Types, Depth, g, h, Depth[t])
      PROVE  E(t, g) = E(t, h)
  BY <1>2, PartOf DEF Agree, IsFunction
<1>3. Types # {} => X # {}
  OBVIOUS
<1> HIDE DEF E, X
<1>4. Local(Types, X, Depth, body)
  BY <1>1, <1>2 DEF Local
<1> HIDE DEF body
<1>5. PICK h \in [Types -> X] : h = body[h]
  BY <1>3, <1>4, DepthIs, DepthRecursion
<1>6. h = [t \in Types |-> E(t, h)]
  BY <1>5 DEF body
<1>7. FunctionsIn = [t \in Types |-> E(t, FunctionsIn)]
  BY <1>6 DEF FunctionsIn, E
<1>8. ASSUME NEW t \in Types, \A u \in Types : Depth[u] < Depth[t] => u \in P
      PROVE  t \in P
  BY <1>1, <1>7, <1>8
<1> HIDE DEF P
<1>9. Types \subseteq P
  BY <1>8, DepthIs, DepthInduction
<1> QED
  BY <1>7, <1>9 DEF P, E, X

\* Two functions that agree on a set have the same values there.
LEMMA SameUnion ==
  ASSUME NEW S, NEW g, NEW h, \A p \in S : g[p] = h[p]
  PROVE  UNION {g[p] : p \in S} = UNION {h[p] : p \in S}
<1>1. ASSUME NEW x
      PROVE  x \in UNION {g[p] : p \in S} <=> x \in UNION {h[p] : p \in S}
  <2>1. x \in UNION {g[p] : p \in S} <=> \E p \in S : x \in g[p]
    OBVIOUS
  <2>2. x \in UNION {h[p] : p \in S} <=> \E p \in S : x \in h[p]
    OBVIOUS
  <2> QED
    BY <2>1, <2>2
<1> QED
  BY <1>1

\* FunctionTypes is what its definition says.
LEMMA FunctionTypesIs ==
  \A t \in Types :
    /\ FunctionTypes[t] \in SUBSET Types
    /\ FunctionTypes[t] =
         CASE t[1] \in {"array", "vla", "pointer"} -> FunctionTypes[t[2]]
           [] Is(t, "literal") -> UNION {FunctionTypes[p] : p \in Range(t[2])}
           [] IsFunction(t) -> {t} \cup UNION {FunctionTypes[p] : p \in Range(t[2]) \cup {t[3]}}
           [] OTHER -> {}
<1> DEFINE X == SUBSET Types
           E(t, g) ==
             CASE t[1] \in {"array", "vla", "pointer"} -> g[t[2]]
           [] Is(t, "literal") -> UNION {g[p] : p \in Range(t[2])}
           [] IsFunction(t) -> {t} \cup UNION {g[p] : p \in Range(t[2]) \cup {t[3]}}
           [] OTHER -> {}
           body == [g \in [Types -> X] |-> [t \in Types |-> E(t, g)]]
           P == {t \in Types : FunctionTypes[t] \in X}
<1>1. ASSUME NEW g, NEW t \in Types, \A u \in Types : Depth[u] < Depth[t] => g[u] \in X
      PROVE  E(t, g) \in X
  <2>1. CASE t[1] \in {"array", "vla", "pointer"}
    BY <1>1, <2>1, PartOf DEF Is, IsFunction
  <2>2. CASE Is(t, "literal")
    <3>1. E(t, g) = UNION {g[p] : p \in Range(t[2])}
      BY <2>2 DEF Is, IsFunction
    <3>2. \A p \in Range(t[2]) : g[p] \in SUBSET Types
      BY <1>1, <2>2, ItemsOf
    <3> QED
      BY <3>1, <3>2
  <2>3. CASE IsFunction(t)
    <3>1. E(t, g) = {t} \cup UNION {g[p] : p \in Range(t[2]) \cup {t[3]}}
      BY <2>3 DEF Is, IsFunction
    <3>2. \A p \in Range(t[2]) \cup {t[3]} : g[p] \in SUBSET Types
      BY <1>1, <2>3, PartsOfFunction
    <3> QED
      BY <3>1, <3>2
  <2>4. CASE t[1] \notin {"array", "vla", "pointer", "literal"} /\ ~IsFunction(t)
    BY <2>4 DEF Is
  <2> QED
    BY <2>1, <2>2, <2>3, <2>4 DEF Is
<1>2. ASSUME NEW g, NEW h, NEW t \in Types, Agree(Types, Depth, g, h, Depth[t])
      PROVE  E(t, g) = E(t, h)
  <2>1. CASE t[1] \in {"array", "vla", "pointer"}
    BY <1>2, <2>1, PartOf DEF Agree, Is, IsFunction
  <2>2. CASE Is(t, "literal")
    <3>1. /\ E(t, g) = UNION {g[p] : p \in Range(t[2])}
          /\ E(t, h) = UNION {h[p] : p \in Range(t[2])}
      BY <2>2 DEF Is, IsFunction
    <3>2. \A p \in Range(t[2]) : g[p] = h[p]
      BY <1>2, <2>2, ItemsOf DEF Agree
    <3>3. UNION {g[p] : p \in Range(t[2])} = UNION {h[p] : p \in Range(t[2])}
      BY <3>2, SameUnion
    <3> HIDE DEF E
    <3> QED
      BY <3>1, <3>3
  <2>3. CASE IsFunction(t)
    <3>1. /\ E(t, g) = {t} \cup UNION {g[p] : p \in Range(t[2]) \cup {t[3]}}
          /\ E(t, h) = {t} \cup UNION {h[p] : p \in Range(t[2]) \cup {t[3]}}
      BY <2>3 DEF Is, IsFunction
    <3>2. \A p \in Range(t[2]) \cup {t[3]} : g[p] = h[p]
      BY <1>2, <2>3, PartsOfFunction DEF Agree
    <3>3. UNION {g[p] : p \in Range(t[2]) \cup {t[3]}} = UNION {h[p] : p \in Range(t[2]) \cup {t[3]}}
      BY <3>2, SameUnion
    <3> HIDE DEF E
    <3> QED
      BY <3>1, <3>3
  <2>4. CASE t[1] \notin {"array", "vla", "pointer", "literal"} /\ ~IsFunction(t)
    BY <2>4 DEF Is
  <2> QED
    BY <2>1, <2>2, <2>3, <2>4 DEF Is
<1>3. Types # {} => X # {}
  OBVIOUS
<1> HIDE DEF E, X
<1>4. Local(Types, X, Depth, body)
  BY <1>1, <1>2 DEF Local
<1> HIDE DEF body
<1>5. PICK h \in [Types -> X] : h = body[h]
  BY <1>3, <1>4, DepthIs, DepthRecursion
<1>6. h = [t \in Types |-> E(t, h)]
  BY <1>5 DEF body
<1>7. FunctionTypes = [t \in Types |-> E(t, FunctionTypes)]
  BY <1>6 DEF FunctionTypes, E
<1>8. ASSUME NEW t \in Types, \A u \in Types : Depth[u] < Depth[t] => u \in P
      PROVE  t \in P
  BY <1>1, <1>7, <1>8
<1> HIDE DEF P
<1>9. Types \subseteq P
  BY <1>8, DepthIs, DepthInduction
<1> QED
  BY <1>7, <1>9 DEF P, E, X

\* The function pointers a type is made of, by the kind of the type.
LEMMA FunctionTypesOf ==
  ASSUME NEW t \in Types
  PROVE  /\ FunctionTypes[t] \subseteq Types
         /\ t[1] \in {"array", "vla", "pointer"} => FunctionTypes[t] = FunctionTypes[t[2]]
         /\ Is(t, "literal") => FunctionTypes[t] = UNION {FunctionTypes[p] : p \in Range(t[2])}
         /\ IsFunction(t) =>
              FunctionTypes[t] = {t} \cup UNION {FunctionTypes[p] : p \in Range(t[2]) \cup {t[3]}}
         /\ t[1] \notin {"array", "vla", "pointer", "literal"} /\ ~IsFunction(t) =>
              FunctionTypes[t] = {}
<1>1. t[1] \in {"array", "vla", "pointer"} => ~Is(t, "literal") /\ ~IsFunction(t)
  BY DEF Is, IsFunction
<1>2. Is(t, "literal") => t[1] \notin {"array", "vla", "pointer"} /\ ~IsFunction(t)
  BY DEF Is, IsFunction
<1>3. IsFunction(t) => t[1] \notin {"array", "vla", "pointer"} /\ ~Is(t, "literal")
  BY DEF Is, IsFunction
<1>4. t[1] = "literal" <=> Is(t, "literal")
  BY DEF Is
<1> QED
  BY <1>1, <1>2, <1>3, <1>4, FunctionTypesIs

\* The function pointers in a type's text are some of those it is made of.
LEMMA FunctionsInTypes ==
  \A t \in Types : FunctionsIn[t] \subseteq FunctionTypes[t]
<1> DEFINE P == {t \in Types : FunctionsIn[t] \subseteq FunctionTypes[t]}
<1>1. ASSUME NEW t \in Types, \A u \in Types : Depth[u] < Depth[t] => u \in P
      PROVE  t \in P
  <2>1. CASE t[1] \in {"array", "vla", "pointer"}
    <3>1. t[2] \in P
      BY <1>1, <2>1, PartOf
    <3>2. FunctionTypes[t] = FunctionTypes[t[2]]
      BY <2>1, FunctionTypesOf
    <3>3. FunctionsIn[t] = FunctionsIn[t[2]]
      BY <1>1, <2>1, FunctionsInIs DEF Is, IsFunction
    <3> QED
      BY <3>1, <3>2, <3>3
  <2>2. CASE IsFunction(t)
    <3>1. FunctionsIn[t] = {t}
      BY <2>2, FunctionsInIs DEF Is, IsFunction
    <3> QED
      BY <2>2, <3>1, FunctionTypesOf
  <2>3. CASE t[1] \notin {"array", "vla", "pointer"} /\ ~IsFunction(t)
    BY <2>3, FunctionsInIs
  <2> QED
    BY <2>1, <2>2, <2>3
<1> HIDE DEF P
<1>2. Types \subseteq P
  BY <1>1, DepthIs, DepthInduction
<1> QED
  BY <1>2 DEF P

\* CompleteIn is what its definition says.
LEMMA CompleteInIs ==
  \A t \in Types :
    /\ CompleteIn[t] \in SUBSET Types
    /\ CompleteIn[t] =
         CASE IsStruct(t) -> {t}
           [] t[1] \in {"array", "vla"} -> CompleteIn[t[2]]
           [] Is(t, "pointer") /\ ~IsStruct(t[2]) -> CompleteIn[t[2]]
           [] OTHER -> {}
<1> DEFINE X == SUBSET Types
           E(t, g) ==
             CASE IsStruct(t) -> {t}
           [] t[1] \in {"array", "vla"} -> g[t[2]]
           [] Is(t, "pointer") /\ ~IsStruct(t[2]) -> g[t[2]]
           [] OTHER -> {}
           body == [g \in [Types -> X] |-> [t \in Types |-> E(t, g)]]
           P == {t \in Types : CompleteIn[t] \in X}
<1>1. ASSUME NEW g, NEW t \in Types, \A u \in Types : Depth[u] < Depth[t] => g[u] \in X
      PROVE  E(t, g) \in X
  BY <1>1, PartOf DEF Is, IsStruct
<1>2. ASSUME NEW g, NEW h, NEW t \in Types, Agree(Types, Depth, g, h, Depth[t])
      PROVE  E(t, g) = E(t, h)
  BY <1>2, PartOf DEF Agree, Is, IsStruct
<1>3. Types # {} => X # {}
  OBVIOUS
<1> HIDE DEF E, X
<1>4. Local(Types, X, Depth, body)
  BY <1>1, <1>2 DEF Local
<1> HIDE DEF body
<1>5. PICK h \in [Types -> X] : h = body[h]
  BY <1>3, <1>4, DepthIs, DepthRecursion
<1>6. h = [t \in Types |-> E(t, h)]
  BY <1>5 DEF body
<1>7. CompleteIn = [t \in Types |-> E(t, CompleteIn)]
  BY <1>6 DEF CompleteIn, E
<1>8. ASSUME NEW t \in Types, \A u \in Types : Depth[u] < Depth[t] => u \in P
      PROVE  t \in P
  BY <1>1, <1>7, <1>8
<1> HIDE DEF P
<1>9. Types \subseteq P
  BY <1>8, DepthIs, DepthInduction
<1> QED
  BY <1>7, <1>9 DEF P, E, X

\* IsLlvm is what its definition says.
LEMMA IsLlvmIs ==
  \A t \in Types :
    /\ IsLlvm[t] \in BOOLEAN
    /\ IsLlvm[t] =
         CASE t[1] \in {"array", "pointer"} -> IsLlvm[t[2]]
           [] Is(t, "literal") -> \A p \in Range(t[2]) : IsLlvm[p]
           [] Is(t, "function") -> \A p \in Range(t[2]) \cup {t[3]} : IsLlvm[p]
           [] OTHER -> t[1] \in {"int", "struct", "union"}
<1> DEFINE X == BOOLEAN
           E(t, g) ==
             CASE t[1] \in {"array", "pointer"} -> g[t[2]]
           [] Is(t, "literal") -> \A p \in Range(t[2]) : g[p]
           [] Is(t, "function") -> \A p \in Range(t[2]) \cup {t[3]} : g[p]
           [] OTHER -> t[1] \in {"int", "struct", "union"}
           body == [g \in [Types -> X] |-> [t \in Types |-> E(t, g)]]
           P == {t \in Types : IsLlvm[t] \in X}
<1>1. ASSUME NEW g, NEW t \in Types, \A u \in Types : Depth[u] < Depth[t] => g[u] \in X
      PROVE  E(t, g) \in X
  <2>1. CASE t[1] \in {"array", "pointer"}
    <3>1. E(t, g) = (g[t[2]])
      BY <2>1 DEF Is, IsFunction
    <3>2. (g[t[2]]) \in BOOLEAN
      BY <1>1, <2>1, PartOf, ItemsOf, PartsOfFunction DEF Is, IsFunction
    <3> QED
      BY <3>1, <3>2
  <2>2. CASE Is(t, "literal")
    <3>1. E(t, g) = (\A p \in Range(t[2]) : g[p])
      BY <2>2 DEF Is, IsFunction
    <3>2. (\A p \in Range(t[2]) : g[p]) \in BOOLEAN
      BY <1>1, <2>2, PartOf, ItemsOf, PartsOfFunction DEF Is, IsFunction
    <3> QED
      BY <3>1, <3>2
  <2>3. CASE Is(t, "function")
    <3>1. E(t, g) = (\A p \in Range(t[2]) \cup {t[3]} : g[p])
      BY <2>3 DEF Is, IsFunction
    <3>2. (\A p \in Range(t[2]) \cup {t[3]} : g[p]) \in BOOLEAN
      BY <1>1, <2>3, PartOf, ItemsOf, PartsOfFunction DEF Is, IsFunction
    <3> QED
      BY <3>1, <3>2
  <2>4. CASE t[1] \notin {"array", "pointer", "literal", "function"}
    <3>1. E(t, g) = (t[1] \in {"int", "struct", "union"})
      BY <2>4 DEF Is
    <3>2. (t[1] \in {"int", "struct", "union"}) \in BOOLEAN
      OBVIOUS
    <3> QED
      BY <3>1, <3>2
  <2> QED
    BY <2>1, <2>2, <2>3, <2>4 DEF Is
<1>2. ASSUME NEW g, NEW h, NEW t \in Types, Agree(Types, Depth, g, h, Depth[t])
      PROVE  E(t, g) = E(t, h)
  <2>1. CASE t[1] \in {"array", "pointer"}
    <3>1. E(t, g) = (g[t[2]]) /\ E(t, h) = (h[t[2]])
      BY <2>1 DEF Is, IsFunction
    <3>2. (g[t[2]]) = (h[t[2]])
      BY <1>2, <2>1, PartOf, ItemsOf, PartsOfFunction DEF Agree, Is, IsFunction
    <3> QED
      BY <3>1, <3>2
  <2>2. CASE Is(t, "literal")
    <3>1. E(t, g) = (\A p \in Range(t[2]) : g[p]) /\ E(t, h) = (\A p \in Range(t[2]) : h[p])
      BY <2>2 DEF Is, IsFunction
    <3>2. (\A p \in Range(t[2]) : g[p]) = (\A p \in Range(t[2]) : h[p])
      BY <1>2, <2>2, PartOf, ItemsOf, PartsOfFunction DEF Agree, Is, IsFunction
    <3> QED
      BY <3>1, <3>2
  <2>3. CASE Is(t, "function")
    <3>1. E(t, g) = (\A p \in Range(t[2]) \cup {t[3]} : g[p]) /\ E(t, h) = (\A p \in Range(t[2]) \cup {t[3]} : h[p])
      BY <2>3 DEF Is, IsFunction
    <3>2. (\A p \in Range(t[2]) \cup {t[3]} : g[p]) = (\A p \in Range(t[2]) \cup {t[3]} : h[p])
      BY <1>2, <2>3, PartOf, ItemsOf, PartsOfFunction DEF Agree, Is, IsFunction
    <3> QED
      BY <3>1, <3>2
  <2>4. CASE t[1] \notin {"array", "pointer", "literal", "function"}
    BY <2>4 DEF Is
  <2> QED
    BY <2>1, <2>2, <2>3, <2>4 DEF Is
<1>3. Types # {} => X # {}
  OBVIOUS
<1> HIDE DEF E, X
<1>4. Local(Types, X, Depth, body)
  BY <1>1, <1>2 DEF Local
<1> HIDE DEF body
<1>5. PICK h \in [Types -> X] : h = body[h]
  BY <1>3, <1>4, DepthIs, DepthRecursion
<1>6. h = [t \in Types |-> E(t, h)]
  BY <1>5 DEF body
<1>7. IsLlvm = [t \in Types |-> E(t, IsLlvm)]
  BY <1>6 DEF IsLlvm, E
<1>8. ASSUME NEW t \in Types, \A u \in Types : Depth[u] < Depth[t] => u \in P
      PROVE  t \in P
  BY <1>1, <1>7, <1>8
<1> HIDE DEF P
<1>9. Types \subseteq P
  BY <1>8, DepthIs, DepthInduction
<1> QED
  BY <1>7, <1>9 DEF P, E, X

\* IsDebug is what its definition says.
LEMMA IsDebugIs ==
  \A t \in Types :
    /\ IsDebug[t] \in BOOLEAN
    /\ IsDebug[t] =
         CASE t[1] \in {"array", "vla", "pointer"} -> IsDebug[t[2]]
           [] Is(t, "debug function") -> \A p \in Range(t[2]) \cup {t[3]} : IsDebug[p]
           [] OTHER -> t[1] \in {"int", "unsigned", "struct", "union"}
<1> DEFINE X == BOOLEAN
           E(t, g) ==
             CASE t[1] \in {"array", "vla", "pointer"} -> g[t[2]]
           [] Is(t, "debug function") -> \A p \in Range(t[2]) \cup {t[3]} : g[p]
           [] OTHER -> t[1] \in {"int", "unsigned", "struct", "union"}
           body == [g \in [Types -> X] |-> [t \in Types |-> E(t, g)]]
           P == {t \in Types : IsDebug[t] \in X}
<1>1. ASSUME NEW g, NEW t \in Types, \A u \in Types : Depth[u] < Depth[t] => g[u] \in X
      PROVE  E(t, g) \in X
  <2>1. CASE t[1] \in {"array", "vla", "pointer"}
    <3>1. E(t, g) = (g[t[2]])
      BY <2>1 DEF Is, IsFunction
    <3>2. (g[t[2]]) \in BOOLEAN
      BY <1>1, <2>1, PartOf, PartsOfFunction DEF Is, IsFunction
    <3> QED
      BY <3>1, <3>2
  <2>2. CASE Is(t, "debug function")
    <3>1. E(t, g) = (\A p \in Range(t[2]) \cup {t[3]} : g[p])
      BY <2>2 DEF Is, IsFunction
    <3>2. (\A p \in Range(t[2]) \cup {t[3]} : g[p]) \in BOOLEAN
      BY <1>1, <2>2, PartOf, PartsOfFunction DEF Is, IsFunction
    <3> QED
      BY <3>1, <3>2
  <2>3. CASE t[1] \notin {"array", "vla", "pointer", "debug function"}
    <3>1. E(t, g) = (t[1] \in {"int", "unsigned", "struct", "union"})
      BY <2>3 DEF Is
    <3>2. (t[1] \in {"int", "unsigned", "struct", "union"}) \in BOOLEAN
      OBVIOUS
    <3> QED
      BY <3>1, <3>2
  <2> QED
    BY <2>1, <2>2, <2>3 DEF Is
<1>2. ASSUME NEW g, NEW h, NEW t \in Types, Agree(Types, Depth, g, h, Depth[t])
      PROVE  E(t, g) = E(t, h)
  <2>1. CASE t[1] \in {"array", "vla", "pointer"}
    <3>1. E(t, g) = (g[t[2]]) /\ E(t, h) = (h[t[2]])
      BY <2>1 DEF Is, IsFunction
    <3>2. (g[t[2]]) = (h[t[2]])
      BY <1>2, <2>1, PartOf, PartsOfFunction DEF Agree, Is, IsFunction
    <3> QED
      BY <3>1, <3>2
  <2>2. CASE Is(t, "debug function")
    <3>1. E(t, g) = (\A p \in Range(t[2]) \cup {t[3]} : g[p]) /\ E(t, h) = (\A p \in Range(t[2]) \cup {t[3]} : h[p])
      BY <2>2 DEF Is, IsFunction
    <3>2. (\A p \in Range(t[2]) \cup {t[3]} : g[p]) = (\A p \in Range(t[2]) \cup {t[3]} : h[p])
      BY <1>2, <2>2, PartOf, PartsOfFunction DEF Agree, Is, IsFunction
    <3> QED
      BY <3>1, <3>2
  <2>3. CASE t[1] \notin {"array", "vla", "pointer", "debug function"}
    BY <2>3 DEF Is
  <2> QED
    BY <2>1, <2>2, <2>3 DEF Is
<1>3. Types # {} => X # {}
  OBVIOUS
<1> HIDE DEF E, X
<1>4. Local(Types, X, Depth, body)
  BY <1>1, <1>2 DEF Local
<1> HIDE DEF body
<1>5. PICK h \in [Types -> X] : h = body[h]
  BY <1>3, <1>4, DepthIs, DepthRecursion
<1>6. h = [t \in Types |-> E(t, h)]
  BY <1>5 DEF body
<1>7. IsDebug = [t \in Types |-> E(t, IsDebug)]
  BY <1>6 DEF IsDebug, E
<1>8. ASSUME NEW t \in Types, \A u \in Types : Depth[u] < Depth[t] => u \in P
      PROVE  t \in P
  BY <1>1, <1>7, <1>8
<1> HIDE DEF P
<1>9. Types \subseteq P
  BY <1>8, DepthIs, DepthInduction
<1> QED
  BY <1>7, <1>9 DEF P, E, X

\* The types a type is made of, made one after the other.
LEMMA GetTypesOf ==
  ASSUME NEW ps \in Seq(Types), NEW g, \A i \in DOMAIN ps : g[ps[i]] \in Seq(Types)
  PROVE  /\ [i \in DOMAIN ps |-> g[ps[i]]] \in Seq(Seq(Types))
         /\ FlattenSeq([i \in DOMAIN ps |-> g[ps[i]]]) \in Seq(Types)
         /\ Range(FlattenSeq([i \in DOMAIN ps |-> g[ps[i]]])) = UNION {Range(g[p]) : p \in Range(ps)}
<1> DEFINE seqs == [i \in DOMAIN ps |-> g[ps[i]]]
<1>1. seqs \in Seq(Seq(Types)) /\ DOMAIN seqs = DOMAIN ps /\ \A i \in DOMAIN ps : seqs[i] = g[ps[i]]
  OBVIOUS
<1> HIDE DEF seqs
<1>2. /\ FlattenSeq(seqs) \in Seq(Types)
      /\ Range(FlattenSeq(seqs)) = UNION {Range(seqs[i]) : i \in DOMAIN seqs}
  BY <1>1, FlattenRange
<1>3. {Range(seqs[i]) : i \in DOMAIN seqs} = {Range(g[p]) : p \in Range(ps)}
  <2>1. ASSUME NEW i \in DOMAIN seqs PROVE \E p \in Range(ps) : Range(seqs[i]) = Range(g[p])
    <3>1. seqs[i] = g[ps[i]] /\ ps[i] \in Range(ps)
      BY <1>1 DEF Range
    <3> QED
      BY <3>1
  <2>2. ASSUME NEW p \in Range(ps) PROVE \E i \in DOMAIN seqs : Range(seqs[i]) = Range(g[p])
    <3>1. PICK i \in DOMAIN ps : ps[i] = p
      BY DEF Range
    <3> QED
      BY <1>1, <3>1
  <2> QED
    BY <2>1, <2>2
<1> QED
  BY <1>1, <1>2, <1>3 DEF seqs

\* GetType is what its definition says, a list of types.
LEMMA GetTypeIs ==
  \A t \in Types :
    /\ GetType[t] \in Seq(Types)
    /\ GetType[t] =
         CASE t[1] \in {"array", "pointer"} -> GetType[t[2]]
           [] Is(t, "literal") -> FlattenSeq([i \in DOMAIN t[2] |-> GetType[t[2][i]]]) \o <<t>>
           [] Is(t, "function") ->
                FlattenSeq([i \in DOMAIN t[2] |-> GetType[t[2][i]]]) \o GetType[t[3]] \o <<t>>
           [] OTHER -> <<>>
<1> DEFINE X == Seq(Types)
           E(t, g) ==
             CASE t[1] \in {"array", "pointer"} -> g[t[2]]
               [] Is(t, "literal") -> FlattenSeq([i \in DOMAIN t[2] |-> g[t[2][i]]]) \o <<t>>
               [] Is(t, "function") ->
                    FlattenSeq([i \in DOMAIN t[2] |-> g[t[2][i]]]) \o g[t[3]] \o <<t>>
               [] OTHER -> <<>>
           body == [g \in [Types -> X] |-> [t \in Types |-> E(t, g)]]
           P == {t \in Types : GetType[t] \in X}
<1>1. ASSUME NEW g, NEW t \in Types, \A u \in Types : Depth[u] < Depth[t] => g[u] \in X
      PROVE  E(t, g) \in X
  <2>1. CASE t[1] \in {"array", "pointer"}
    BY <1>1, <2>1, PartOf DEF Is
  <2>2. CASE Is(t, "literal")
    <3> DEFINE f == FlattenSeq([i \in DOMAIN t[2] |-> g[t[2][i]]])
    <3>1. f \in Seq(Types)
      BY <1>1, <2>2, ItemsOf, GetTypesOf
    <3>2. E(t, g) = f \o <<t>>
      BY <2>2 DEF Is
    <3> HIDE DEF f, E
    <3> QED
      BY <3>1, <3>2
  <2>3. CASE Is(t, "function")
    <3> DEFINE f == FlattenSeq([i \in DOMAIN t[2] |-> g[t[2][i]]])
    <3>1. IsFunction(t)
      BY <2>3 DEF Is, IsFunction
    <3>2. f \in Seq(Types) /\ g[t[3]] \in Seq(Types)
      BY <1>1, <3>1, PartsOfFunction, GetTypesOf
    <3>3. E(t, g) = f \o g[t[3]] \o <<t>>
      BY <2>3 DEF Is
    <3> HIDE DEF f, E
    <3> QED
      BY <3>2, <3>3
  <2>4. CASE t[1] \notin {"array", "pointer", "literal", "function"}
    BY <2>4 DEF Is
  <2> QED
    BY <2>1, <2>2, <2>3, <2>4 DEF Is
<1>2. ASSUME NEW g, NEW h, NEW t \in Types, Agree(Types, Depth, g, h, Depth[t])
      PROVE  E(t, g) = E(t, h)
  <2>1. CASE t[1] \in {"array", "pointer"}
    BY <1>2, <2>1, PartOf DEF Is, Agree
  <2>2. CASE Is(t, "literal")
    <3>1. [i \in DOMAIN t[2] |-> g[t[2][i]]] = [i \in DOMAIN t[2] |-> h[t[2][i]]]
      BY <1>2, <2>2, ItemsOf DEF Agree
    <3>2. E(t, g) = FlattenSeq([i \in DOMAIN t[2] |-> g[t[2][i]]]) \o <<t>>
          /\ E(t, h) = FlattenSeq([i \in DOMAIN t[2] |-> h[t[2][i]]]) \o <<t>>
      BY <2>2 DEF Is
    <3> QED
      BY <3>1, <3>2
  <2>3. CASE Is(t, "function")
    <3>1. IsFunction(t)
      BY <2>3 DEF Is, IsFunction
    <3>2. /\ [i \in DOMAIN t[2] |-> g[t[2][i]]] = [i \in DOMAIN t[2] |-> h[t[2][i]]]
          /\ g[t[3]] = h[t[3]]
      BY <1>2, <3>1, PartsOfFunction DEF Agree
    <3>3. /\ E(t, g) = FlattenSeq([i \in DOMAIN t[2] |-> g[t[2][i]]]) \o g[t[3]] \o <<t>>
          /\ E(t, h) = FlattenSeq([i \in DOMAIN t[2] |-> h[t[2][i]]]) \o h[t[3]] \o <<t>>
      BY <2>3 DEF Is
    <3> QED
      BY <3>2, <3>3
  <2>4. CASE t[1] \notin {"array", "pointer", "literal", "function"}
    BY <2>4 DEF Is
  <2> QED
    BY <2>1, <2>2, <2>3, <2>4 DEF Is
<1>3. Types # {} => X # {}
  BY <<>> \in X
<1> HIDE DEF E, X
<1>4. Local(Types, X, Depth, body)
  BY <1>1, <1>2 DEF Local
<1> HIDE DEF body
<1>5. PICK h \in [Types -> X] : h = body[h]
  BY <1>3, <1>4, DepthIs, DepthRecursion
<1>6. h = [t \in Types |-> E(t, h)]
  BY <1>5 DEF body
<1>7. GetType = [t \in Types |-> E(t, GetType)]
  BY <1>6 DEF GetType, E
<1>8. ASSUME NEW t \in Types, \A u \in Types : Depth[u] < Depth[t] => u \in P
      PROVE  t \in P
  BY <1>1, <1>7, <1>8
<1> HIDE DEF P
<1>9. Types \subseteq P
  BY <1>8, DepthIs, DepthInduction
<1> QED
  BY <1>7, <1>9 DEF P, E, X

-----------------------------------------------------------------------------
(* What getType makes on its way. *)

\* One more element at the end.
LEMMA AppendIs ==
  ASSUME NEW S, NEW s \in Seq(S), NEW x \in S
  PROVE  /\ Append(s, x) \in Seq(S) /\ Len(Append(s, x)) = Len(s) + 1
         /\ \A n \in DOMAIN s : Append(s, x)[n] = s[n]
         /\ Append(s, x)[Len(s) + 1] = x
         /\ Range(Append(s, x)) = Range(s) \cup {x}
<1>1. /\ Append(s, x) \in Seq(S) /\ Len(Append(s, x)) = Len(s) + 1
      /\ \A n \in DOMAIN s : Append(s, x)[n] = s[n]
      /\ Append(s, x)[Len(s) + 1] = x /\ Len(s) \in Nat
      /\ DOMAIN s = 1..Len(s) /\ DOMAIN Append(s, x) = 1..(Len(s) + 1)
  OBVIOUS
<1>2. DOMAIN Append(s, x) = DOMAIN s \cup {Len(s) + 1}
  BY <1>1
<1>3. Range(Append(s, x)) = Range(s) \cup {x}
  BY <1>1, <1>2 DEF Range
<1> QED
  BY <1>1, <1>3

\* One type behind others.
LEMMA OneMore ==
  ASSUME NEW S, NEW s \in Seq(S), NEW x \in S
  PROVE  s \o <<x>> = Append(s, x) /\ Range(s \o <<x>>) = Range(s) \cup {x}
<1>1. s \o <<x>> = Append(s, x)
  OBVIOUS
<1>2. Range(Append(s, x)) = Range(s) \cup {x}
  BY AppendIs
<1> QED
  BY <1>1, <1>2

\* The types getType makes for a type, by the kind of the type.
LEMMA GetTypesMade ==
  ASSUME NEW ps \in Seq(Types)
  PROVE  /\ [i \in DOMAIN ps |-> GetType[ps[i]]] \in Seq(Seq(Types))
         /\ FlattenSeq([i \in DOMAIN ps |-> GetType[ps[i]]]) \in Seq(Types)
         /\ Range(FlattenSeq([i \in DOMAIN ps |-> GetType[ps[i]]]))
              = UNION {Range(GetType[p]) : p \in Range(ps)}
<1>1. \A i \in DOMAIN ps : GetType[ps[i]] \in Seq(Types)
  <2>1. \A i \in DOMAIN ps : ps[i] \in Types
    OBVIOUS
  <2> QED
    BY <2>1, GetTypeIs
<1> QED
  BY <1>1, GetTypesOf

\* getType makes the structs without a name and the functions a type is made of.
LEMMA GetTypeRange ==
  ASSUME NEW t \in Types
  PROVE  /\ t[1] \in {"array", "pointer"} => Range(GetType[t]) = Range(GetType[t[2]])
         /\ Is(t, "literal") =>
              Range(GetType[t]) = {t} \cup UNION {Range(GetType[p]) : p \in Range(t[2])}
         /\ Is(t, "function") =>
              Range(GetType[t]) =
                {t} \cup UNION {Range(GetType[p]) : p \in Range(t[2]) \cup {t[3]}}
         /\ t[1] \notin {"array", "pointer", "literal", "function"} => Range(GetType[t]) = {}
<1> DEFINE f == FlattenSeq([i \in DOMAIN t[2] |-> GetType[t[2][i]]])
<1>1. CASE t[1] \in {"array", "pointer"}
  BY <1>1, GetTypeIs DEF Is
<1>2. CASE Is(t, "literal")
  <2>1. f \in Seq(Types) /\ Range(f) = UNION {Range(GetType[p]) : p \in Range(t[2])}
    <3>1. t[2] \in Seq(Types) /\ \A i \in DOMAIN t[2] : GetType[t[2][i]] \in Seq(Types)
      BY <1>2, ItemsOf, GetTypeIs
    <3> QED
      BY <3>1, GetTypesOf
  <2>2. GetType[t] = f \o <<t>>
    BY <1>2, GetTypeIs DEF Is
  <2> HIDE DEF f
  <2>3. Range(GetType[t]) = Range(f) \cup {t}
    BY <2>1, <2>2, OneMore
  <2> QED
    BY <1>2, <2>1, <2>3 DEF Is
<1>3. CASE Is(t, "function")
  <2>0. IsFunction(t)
    BY <1>3 DEF Is, IsFunction
  <2>1. /\ f \in Seq(Types) /\ Range(f) = UNION {Range(GetType[p]) : p \in Range(t[2])}
        /\ GetType[t[3]] \in Seq(Types)
    <3>1. /\ t[2] \in Seq(Types) /\ \A i \in DOMAIN t[2] : GetType[t[2][i]] \in Seq(Types)
          /\ GetType[t[3]] \in Seq(Types)
      BY <2>0, PartsOfFunction, GetTypeIs
    <3> QED
      BY <3>1, GetTypesOf
  <2>2. GetType[t] = f \o GetType[t[3]] \o <<t>>
    BY <1>3, GetTypeIs DEF Is
  <2> HIDE DEF f
  <2>3. f \o GetType[t[3]] \in Seq(Types) /\ Range(f \o GetType[t[3]]) = Range(f) \cup Range(GetType[t[3]])
    BY <2>1, ConcatIs
  <2>4. Range(GetType[t]) = Range(f \o GetType[t[3]]) \cup {t}
    <3> DEFINE g == f \o GetType[t[3]]
    <3>1. g \in Seq(Types) /\ GetType[t] = g \o <<t>>
      BY <2>2, <2>3
    <3> HIDE DEF g
    <3>2. Range(GetType[t]) = Range(g) \cup {t}
      BY <3>1, OneMore
    <3> QED
      BY <3>2 DEF g
  <2>5. Range(GetType[t]) = {t} \cup UNION {Range(GetType[p]) : p \in Range(t[2]) \cup {t[3]}}
    BY <2>1, <2>3, <2>4
  <2> QED
    BY <1>3, <2>5 DEF Is
<1>4. CASE t[1] \notin {"array", "pointer", "literal", "function"}
  <2>1. GetType[t] = <<>>
    BY <1>4, GetTypeIs DEF Is
  <2> QED
    BY <1>4, <2>1 DEF Is, Range
<1> QED
  BY <1>1, <1>2, <1>3, <1>4 DEF Is

\* What is made for a type of LLVM: its function pointers, its structs without
\* a name and what is in them.
MadeFor(t) ==
  /\ \A u \in Range(GetType[t]) : IsLlvm[u] /\ (Is(u, "literal") \/ Is(u, "function"))
  /\ FunctionsIn[t] \subseteq Range(GetType[t]) /\ \A u \in FunctionsIn[t] : Is(u, "function")
  /\ \A u \in CompleteIn[t] : Is(u, "literal") => u \in Range(GetType[t])
  /\ \A u \in Range(GetType[t]) : Is(u, "literal") =>
       \A p \in Range(u[2]) : Range(GetType[p]) \subseteq Range(GetType[t])

\* getTypes makes what getType makes for each.
LEMMA MadeForEach ==
  \A t \in Types : IsLlvm[t] => MadeFor(t)
<1> DEFINE P == {t \in Types : IsLlvm[t] => MadeFor(t)}
<1>1. ASSUME NEW t \in Types, \A u \in Types : Depth[u] < Depth[t] => u \in P, IsLlvm[t]
      PROVE  MadeFor(t)
  <2>1. CASE t[1] \in {"array", "pointer"}
    <3>1. t[2] \in Types /\ Depth[t[2]] < Depth[t] /\ IsLlvm[t[2]]
      BY <1>1, <2>1, PartOf, IsLlvmIs DEF Is
    <3>2. MadeFor(t[2])
      BY <1>1, <3>1
    <3>3. Range(GetType[t]) = Range(GetType[t[2]]) /\ FunctionsIn[t] = FunctionsIn[t[2]]
      BY <2>1, GetTypeRange, FunctionsInIs DEF Is, IsFunction
    <3>4. CompleteIn[t] \subseteq CompleteIn[t[2]]
      <4>1. CASE Is(t, "array")
        BY <4>1, CompleteInIs DEF Is, IsStruct
      <4>2. CASE Is(t, "pointer")
        BY <4>2, CompleteInIs DEF Is, IsStruct
      <4> QED
        BY <2>1, <4>1, <4>2 DEF Is
    <3> QED
      BY <3>2, <3>3, <3>4 DEF MadeFor
  <2>2. CASE Is(t, "literal")
    <3>1. \A p \in Range(t[2]) : p \in Types /\ MadeFor(p)
      <4>1. \A p \in Range(t[2]) : IsLlvm[p]
        BY <1>1, <2>2, IsLlvmIs DEF Is
      <4> QED
        BY <1>1, <2>2, <4>1, ItemsOf
    <3>2. Range(GetType[t]) = {t} \cup UNION {Range(GetType[p]) : p \in Range(t[2])}
      BY <2>2, GetTypeRange
    <3>3. FunctionsIn[t] = {} /\ CompleteIn[t] = {t}
      BY <2>2, FunctionsInIs, CompleteInIs DEF Is, IsFunction, IsStruct
    <3>4. ASSUME NEW u \in Range(GetType[t])
          PROVE  IsLlvm[u] /\ (Is(u, "literal") \/ Is(u, "function"))
      BY <1>1, <2>2, <3>1, <3>2 DEF MadeFor
    <3>5. ASSUME NEW u \in Range(GetType[t]), Is(u, "literal"), NEW p \in Range(u[2])
          PROVE  Range(GetType[p]) \subseteq Range(GetType[t])
      <4>1. CASE u = t
        BY <3>2, <3>5, <4>1
      <4>2. CASE u # t
        <5>1. PICK q \in Range(t[2]) : u \in Range(GetType[q])
          BY <3>2, <3>5, <4>2
        <5>2. Range(GetType[p]) \subseteq Range(GetType[q])
          BY <3>1, <3>5, <5>1 DEF MadeFor
        <5> QED
          BY <3>2, <5>1, <5>2
      <4> QED
        BY <4>1, <4>2
    <3> QED
      BY <3>2, <3>3, <3>4, <3>5 DEF MadeFor
  <2>3. CASE Is(t, "function")
    <3>0. IsFunction(t)
      BY <2>3 DEF Is, IsFunction
    <3>1. \A p \in Range(t[2]) \cup {t[3]} : p \in Types /\ MadeFor(p)
      <4>1. \A p \in Range(t[2]) \cup {t[3]} : IsLlvm[p]
        BY <1>1, <2>3, IsLlvmIs DEF Is
      <4> QED
        BY <1>1, <3>0, <4>1, PartsOfFunction
    <3>2. Range(GetType[t]) = {t} \cup UNION {Range(GetType[p]) : p \in Range(t[2]) \cup {t[3]}}
      BY <2>3, GetTypeRange
    <3>3. FunctionsIn[t] = {t} /\ CompleteIn[t] = {}
      BY <2>3, FunctionsInIs, CompleteInIs DEF Is, IsFunction, IsStruct
    <3>4. ASSUME NEW u \in Range(GetType[t])
          PROVE  IsLlvm[u] /\ (Is(u, "literal") \/ Is(u, "function"))
      BY <1>1, <2>3, <3>1, <3>2 DEF MadeFor
    <3>5. ASSUME NEW u \in Range(GetType[t]), Is(u, "literal"), NEW p \in Range(u[2])
          PROVE  Range(GetType[p]) \subseteq Range(GetType[t])
      <4>1. u # t
        BY <2>3, <3>5 DEF Is
      <4>2. PICK q \in Range(t[2]) \cup {t[3]} : u \in Range(GetType[q])
        BY <3>2, <3>5, <4>1
      <4>3. Range(GetType[p]) \subseteq Range(GetType[q])
        BY <3>1, <3>5, <4>2 DEF MadeFor
      <4> QED
        BY <3>2, <4>2, <4>3
    <3> QED
      BY <2>3, <3>2, <3>3, <3>4, <3>5 DEF MadeFor
  <2>4. CASE t[1] \notin {"array", "pointer", "literal", "function"}
    <3>1. t[1] \in {"int", "struct", "union"}
      BY <1>1, <2>4, IsLlvmIs DEF Is
    <3>2. Range(GetType[t]) = {} /\ FunctionsIn[t] = {} /\ CompleteIn[t] \subseteq {t}
      BY <2>4, <3>1, GetTypeRange, FunctionsInIs, CompleteInIs DEF Is, IsFunction, IsStruct
    <3> QED
      BY <2>4, <3>2 DEF MadeFor, Is
  <2> QED
    BY <2>1, <2>2, <2>3, <2>4 DEF Is
<1>2. ASSUME NEW t \in Types, \A u \in Types : Depth[u] < Depth[t] => u \in P
      PROVE  t \in P
  BY <1>1, <1>2
<1> HIDE DEF P
<1>3. Types \subseteq P
  BY <1>2, DepthIs, DepthInduction
<1> QED
  BY <1>3 DEF P

\* getType makes the function pointers a type of LLVM is made of.
LEMMA FunctionTypesMade ==
  \A t \in Types : IsLlvm[t] => FunctionTypes[t] = {u \in Range(GetType[t]) : Is(u, "function")}
<1> DEFINE F(t) == {u \in Range(GetType[t]) : Is(u, "function")}
           P == {t \in Types : IsLlvm[t] => FunctionTypes[t] = F(t)}
<1>1. ASSUME NEW t \in Types, \A u \in Types : Depth[u] < Depth[t] => u \in P, IsLlvm[t]
      PROVE  FunctionTypes[t] = F(t)
  <2>1. CASE t[1] \in {"array", "pointer"}
    <3>1. t[2] \in Types /\ Depth[t[2]] < Depth[t] /\ IsLlvm[t[2]]
      BY <1>1, <2>1, PartOf, IsLlvmIs DEF Is
    <3>2. FunctionTypes[t] = FunctionTypes[t[2]] /\ F(t) = F(t[2])
      BY <2>1, FunctionTypesOf, GetTypeRange
    <3> QED
      BY <1>1, <3>1, <3>2
  <2>2. CASE Is(t, "literal")
    <3>1. \A p \in Range(t[2]) : p \in Types /\ Depth[p] < Depth[t] /\ IsLlvm[p]
      BY <1>1, <2>2, ItemsOf, IsLlvmIs DEF Is
    <3>2. \A p \in Range(t[2]) : FunctionTypes[p] = F(p)
      BY <1>1, <3>1
    <3>3. FunctionTypes[t] = UNION {FunctionTypes[p] : p \in Range(t[2])}
      BY <2>2, FunctionTypesOf
    <3>4. Range(GetType[t]) = {t} \cup UNION {Range(GetType[p]) : p \in Range(t[2])}
      BY <2>2, GetTypeRange
    <3>5. ~Is(t, "function")
      BY <2>2 DEF Is
    <3> QED
      BY <3>2, <3>3, <3>4, <3>5
  <2>3. CASE Is(t, "function")
    <3>0. IsFunction(t)
      BY <2>3 DEF Is, IsFunction
    <3>1. \A p \in Range(t[2]) \cup {t[3]} : p \in Types /\ Depth[p] < Depth[t] /\ IsLlvm[p]
      BY <1>1, <2>3, <3>0, PartsOfFunction, IsLlvmIs DEF Is
    <3>2. \A p \in Range(t[2]) \cup {t[3]} : FunctionTypes[p] = F(p)
      BY <1>1, <3>1
    <3>3. FunctionTypes[t] = {t} \cup UNION {FunctionTypes[p] : p \in Range(t[2]) \cup {t[3]}}
      BY <3>0, FunctionTypesOf
    <3>4. Range(GetType[t]) = {t} \cup UNION {Range(GetType[p]) : p \in Range(t[2]) \cup {t[3]}}
      BY <2>3, GetTypeRange
    <3> DEFINE Q == Range(t[2]) \cup {t[3]}
    <3> HIDE DEF Q
    <3>5. F(t) = {t} \cup UNION {F(p) : p \in Q}
      BY <2>3, <3>4 DEF Q
    <3> QED
      BY <3>2, <3>3, <3>5 DEF Q
  <2>4. CASE t[1] \notin {"array", "pointer", "literal", "function"}
    <3>1. t[1] \notin {"array", "vla", "pointer", "literal"} /\ ~IsFunction(t)
      BY <1>1, <2>4, IsLlvmIs DEF IsFunction, Is
    <3>2. FunctionTypes[t] = {} /\ Range(GetType[t]) = {}
      BY <2>4, <3>1, FunctionTypesOf, GetTypeRange
    <3> QED
      BY <3>2
  <2> QED
    BY <2>1, <2>2, <2>3, <2>4 DEF Is
<1>2. ASSUME NEW t \in Types, \A u \in Types : Depth[u] < Depth[t] => u \in P
      PROVE  t \in P
  BY <1>1, <1>2
<1> HIDE DEF P
<1>3. Types \subseteq P
  BY <1>2, DepthIs, DepthInduction
<1> QED
  BY <1>3 DEF P

-----------------------------------------------------------------------------
(* Function pointers are made from the inside out. *)

\* The function pointers in a function pointer.
Inner(f) == IF IsFunction(f) THEN UNION {FunctionTypes[p] : p \in Range(f[2]) \cup {f[3]}} ELSE {}

\* Those the text of its typedef names are some of them.
LEMMA NamedInner ==
  ASSUME NEW f \in Types, IsFunction(f), NEW p \in Range(f[2]) \cup {f[3]}
  PROVE  FunctionsIn[p] \subseteq Inner(f)
<1>1. p \in Types
  BY PartsOfFunction
<1> QED
  BY <1>1, FunctionsInTypes DEF Inner

\* In the debug information every function pointer a type is made of is named in
\* its text or in one of those.
LEMMA DebugInner ==
  \A t \in Types : IsDebug[t] =>
    /\ FunctionTypes[t] = FunctionsIn[t] \cup UNION {Inner(g) : g \in FunctionsIn[t]}
    /\ \A f \in FunctionTypes[t] : Is(f, "debug function")
<1> DEFINE Q(t) == /\ FunctionTypes[t] = FunctionsIn[t] \cup UNION {Inner(g) : g \in FunctionsIn[t]}
                   /\ \A f \in FunctionTypes[t] : Is(f, "debug function")
           P == {t \in Types : IsDebug[t] => Q(t)}
<1>1. ASSUME NEW t \in Types, \A u \in Types : Depth[u] < Depth[t] => u \in P, IsDebug[t]
      PROVE  Q(t)
  <2>1. CASE t[1] \in {"array", "vla", "pointer"}
    <3>1. t[2] \in Types /\ Depth[t[2]] < Depth[t] /\ IsDebug[t[2]]
      BY <1>1, <2>1, PartOf, IsDebugIs DEF Is
    <3>2. FunctionTypes[t] = FunctionTypes[t[2]]
      BY <1>1, <2>1, FunctionTypesOf
    <3>3. FunctionsIn[t] = FunctionsIn[t[2]]
      BY <1>1, <2>1, FunctionsInIs DEF Is, IsFunction
    <3>4. Q(t[2])
      BY <1>1, <3>1
    <3> QED
      BY <3>2, <3>3, <3>4
  <2>2. CASE Is(t, "debug function")
    <3>0. IsFunction(t)
      BY <2>2 DEF Is, IsFunction
    <3>1. \A p \in Range(t[2]) \cup {t[3]} : p \in Types /\ Depth[p] < Depth[t] /\ IsDebug[p]
      BY <1>1, <2>2, <3>0, PartsOfFunction, IsDebugIs DEF Is
    <3>2. \A p \in Range(t[2]) \cup {t[3]} : Q(p)
      BY <1>1, <3>1
    <3>3. FunctionTypes[t] = {t} \cup Inner(t)
      BY <3>0, FunctionTypesOf DEF Inner
    <3>4. FunctionsIn[t] = {t}
      BY <3>0, FunctionsInIs DEF Is, IsFunction
    <3>5. \A f \in Inner(t) : Is(f, "debug function")
      BY <3>0, <3>2 DEF Inner
    <3> QED
      BY <2>2, <3>3, <3>4, <3>5
  <2>3. CASE t[1] \notin {"array", "vla", "pointer", "debug function"}
    <3>1. t[1] \notin {"array", "vla", "pointer", "literal"} /\ ~IsFunction(t)
      BY <1>1, <2>3, IsDebugIs DEF IsFunction, Is
    <3>2. FunctionTypes[t] = {} /\ FunctionsIn[t] = {}
      BY <3>1, FunctionTypesOf, FunctionsInIs
    <3> QED
      BY <3>2
  <2> QED
    BY <2>1, <2>2, <2>3 DEF Is
<1>2. ASSUME NEW t \in Types, \A u \in Types : Depth[u] < Depth[t] => u \in P
      PROVE  t \in P
  BY <1>1, <1>2
<1> HIDE DEF P
<1>3. Types \subseteq P
  BY <1>2, DepthIs, DepthInduction
<1> QED
  BY <1>3 DEF P

InOrder(s) == \A n \in DOMAIN s : \A g \in Inner(s[n]) : \E j \in 1..(n - 1) : s[j] = g

\* Lists in order, one behind the other, are in order.
LEMMA ConcatInOrder ==
  ASSUME NEW S, NEW a \in Seq(S), NEW b \in Seq(S), InOrder(a), InOrder(b)
  PROVE  InOrder(a \o b)
<1> SUFFICES ASSUME NEW n \in DOMAIN (a \o b), NEW g \in Inner((a \o b)[n])
             PROVE  \E j \in 1..(n - 1) : (a \o b)[j] = g
  BY DEF InOrder
<1> HIDE DEF Inner
<1>0. DOMAIN a = 1..Len(a) /\ DOMAIN b = 1..Len(b) /\ Len(a) \in Nat /\ Len(b) \in Nat
  OBVIOUS
<1>1. CASE n \in DOMAIN a
  <2>1. (a \o b)[n] = a[n]
    BY <1>1, ConcatIs
  <2>2. PICK j \in 1..(n - 1) : a[j] = g
    BY <1>1, <2>1 DEF InOrder
  <2>3. j \in DOMAIN a
    BY <1>0, <1>1
  <2> QED
    BY <2>2, <2>3, ConcatIs
<1>2. ASSUME NEW m \in DOMAIN b, n = Len(a) + m
      PROVE  \E j \in 1..(n - 1) : (a \o b)[j] = g
  <2>1. (a \o b)[n] = b[m]
    BY <1>2, ConcatIs
  <2>2. PICK j \in 1..(m - 1) : b[j] = g
    BY <2>1 DEF InOrder
  <2>3. j \in DOMAIN b /\ Len(a) + j \in 1..(n - 1)
    BY <1>0, <1>2
  <2>4. (a \o b)[Len(a) + j] = g
    <3>1. (a \o b)[Len(a) + j] = b[j]
      BY <2>3, ConcatIs
    <3> QED
      BY <2>2, <3>1
  <2> QED
    BY <2>3, <2>4
<1>3. n \in DOMAIN a \/ \E m \in DOMAIN b : n = Len(a) + m
  BY ConcatIs
<1> QED
  BY <1>1, <1>2, <1>3

\* A type behind the function pointers in it is in order.
LEMMA AppendInOrder ==
  ASSUME NEW S, NEW s \in Seq(S), NEW x \in S, InOrder(s), Inner(x) \subseteq Range(s)
  PROVE  InOrder(Append(s, x))
<1> SUFFICES ASSUME NEW n \in DOMAIN Append(s, x), NEW g \in Inner(Append(s, x)[n])
             PROVE  \E j \in 1..(n - 1) : Append(s, x)[j] = g
  BY DEF InOrder
<1>0. /\ DOMAIN s = 1..Len(s) /\ Len(s) \in Nat /\ DOMAIN Append(s, x) = 1..(Len(s) + 1)
      /\ \A m \in DOMAIN s : Append(s, x)[m] = s[m]
      /\ Append(s, x)[Len(s) + 1] = x
  OBVIOUS
<1>1. CASE n \in DOMAIN s
  <2>1. PICK j \in 1..(n - 1) : s[j] = g
    BY <1>0, <1>1 DEF InOrder
  <2>2. j \in DOMAIN s
    BY <1>0, <1>1
  <2> QED
    BY <1>0, <2>1, <2>2
<1>2. CASE n = Len(s) + 1
  <2>1. g \in Range(s)
    BY <1>0, <1>2
  <2>2. PICK j \in DOMAIN s : s[j] = g
    BY <2>1 DEF Range
  <2>3. j \in 1..(n - 1)
    BY <1>0, <1>2
  <2> QED
    BY <1>0, <2>2, <2>3
<1> QED
  BY <1>0, <1>1, <1>2

\* Any number of lists in order, one behind the other, are in order.
LEMMA FlattenInOrder ==
  ASSUME NEW S, NEW seqs \in Seq(Seq(S)), \A i \in DOMAIN seqs : InOrder(seqs[i])
  PROVE  InOrder(FlattenSeq(seqs))
<1> DEFINE k == Len(seqs)
<1>1. PICK f : Flattening(f, S, seqs) /\ FlattenSeq(seqs) = f[k]
  BY FlattenIs
<1>2. k \in Nat /\ DOMAIN seqs = 1..k /\ \A i \in 1..k : seqs[i] \in Seq(S)
  OBVIOUS
<1>3. f \in [0..k -> Seq(S)] /\ f[0] = <<>> /\ \A i \in 1..k : f[i] = f[i - 1] \o seqs[i]
  BY <1>1 DEF Flattening
<1> HIDE DEF k
<1> DEFINE T == {n \in Nat : n <= k => InOrder(f[n])}
<1>4. 0 \in T
  <2>1. InOrder(<<>>)
    BY DEF InOrder
  <2> QED
    BY <1>3, <2>1
<1>5. ASSUME NEW n \in T PROVE n + 1 \in T
  <2> SUFFICES ASSUME n + 1 <= k PROVE InOrder(f[n + 1])
    OBVIOUS
  <2>1. n \in Nat /\ n <= k /\ n + 1 \in 1..k /\ (n + 1) - 1 = n /\ n \in 0..k
    BY <1>2
  <2>2. f[n + 1] = f[n] \o seqs[n + 1] /\ f[n] \in Seq(S) /\ seqs[n + 1] \in Seq(S)
    BY <1>2, <1>3, <2>1
  <2>3. InOrder(f[n]) /\ InOrder(seqs[n + 1])
    BY <1>2, <2>1
  <2> QED
    BY <2>2, <2>3, ConcatInOrder
<1> HIDE DEF T
<1>6. k \in T
  BY <1>2, <1>4, <1>5, SetInduction
<1> QED
  BY <1>1, <1>6 DEF T

\* getType makes each function pointer behind those in it.
LEMMA MadeInOrder ==
  \A t \in Types : IsLlvm[t] => InOrder(GetType[t])
<1> DEFINE P == {t \in Types : IsLlvm[t] => InOrder(GetType[t])}
<1>1. ASSUME NEW t \in Types, \A u \in Types : Depth[u] < Depth[t] => u \in P, IsLlvm[t]
      PROVE  InOrder(GetType[t])
  <2>1. CASE t[1] \in {"array", "pointer"}
    <3>1. t[2] \in Types /\ Depth[t[2]] < Depth[t] /\ IsLlvm[t[2]]
      BY <1>1, <2>1, PartOf, IsLlvmIs DEF Is
    <3>2. GetType[t] = GetType[t[2]]
      BY <2>1, GetTypeIs DEF Is
    <3> QED
      BY <1>1, <3>1, <3>2
  <2>2. ASSUME NEW ps \in Seq(Types), \A p \in Range(ps) : Depth[p] < Depth[t] /\ IsLlvm[p]
        PROVE  /\ FlattenSeq([i \in DOMAIN ps |-> GetType[ps[i]]]) \in Seq(Types)
               /\ InOrder(FlattenSeq([i \in DOMAIN ps |-> GetType[ps[i]]]))
    <3> DEFINE seqs == [i \in DOMAIN ps |-> GetType[ps[i]]]
    <3>1. seqs \in Seq(Seq(Types)) /\ FlattenSeq(seqs) \in Seq(Types)
      BY GetTypesMade
    <3>2. \A i \in DOMAIN seqs : InOrder(seqs[i])
      <4> SUFFICES ASSUME NEW i \in DOMAIN ps PROVE InOrder(GetType[ps[i]])
        OBVIOUS
      <4>1. ps[i] \in Range(ps) /\ ps[i] \in Types
        BY DEF Range
      <4> QED
        BY <1>1, <2>2, <4>1
    <3> HIDE DEF seqs
    <3>3. InOrder(FlattenSeq(seqs))
      BY <3>1, <3>2, FlattenInOrder
    <3> QED
      BY <3>1, <3>3 DEF seqs
  <2>3. CASE Is(t, "literal")
    <3> DEFINE f == FlattenSeq([i \in DOMAIN t[2] |-> GetType[t[2][i]]])
    <3>1. \A p \in Range(t[2]) : Depth[p] < Depth[t] /\ IsLlvm[p]
      BY <1>1, <2>3, ItemsOf, IsLlvmIs DEF Is
    <3>2. f \in Seq(Types) /\ InOrder(f)
      BY <2>2, <2>3, <3>1, ItemsOf
    <3>3. GetType[t] = f \o <<t>>
      BY <2>3, GetTypeIs DEF Is
    <3> HIDE DEF f
    <3>4. GetType[t] = Append(f, t)
      BY <3>2, <3>3, OneMore
    <3>5. Inner(t) = {}
      BY <2>3 DEF Inner, IsFunction, Is
    <3> QED
      BY <3>2, <3>4, <3>5, AppendInOrder
  <2>4. CASE Is(t, "function")
    <3>0. IsFunction(t)
      BY <2>4 DEF Is, IsFunction
    <3> DEFINE f == FlattenSeq([i \in DOMAIN t[2] |-> GetType[t[2][i]]])
    <3>1. \A p \in Range(t[2]) \cup {t[3]} : p \in Types /\ Depth[p] < Depth[t] /\ IsLlvm[p]
      BY <1>1, <2>4, <3>0, PartsOfFunction, IsLlvmIs DEF Is
    <3>2. f \in Seq(Types) /\ InOrder(f)
      BY <2>2, <3>0, <3>1, PartsOfFunction
    <3>3. GetType[t[3]] \in Seq(Types) /\ InOrder(GetType[t[3]])
      BY <1>1, <3>1, GetTypeIs
    <3>4. GetType[t] = f \o GetType[t[3]] \o <<t>> /\ Range(f) = UNION {Range(GetType[p]) : p \in Range(t[2])}
      <4>1. GetType[t] = f \o GetType[t[3]] \o <<t>>
        BY <2>4, GetTypeIs DEF Is
      <4>2. Range(f) = UNION {Range(GetType[p]) : p \in Range(t[2])}
        BY <3>0, PartsOfFunction, GetTypesMade
      <4> HIDE DEF f
      <4> QED
        BY <4>1, <4>2
    <3> HIDE DEF f
    <3> DEFINE g == f \o GetType[t[3]]
    <3>5. g \in Seq(Types) /\ InOrder(g) /\ Range(g) = Range(f) \cup Range(GetType[t[3]])
      BY <3>2, <3>3, ConcatIs, ConcatInOrder
    <3>6. Inner(t) \subseteq Range(g)
      <4>1. \A p \in Range(t[2]) \cup {t[3]} : FunctionTypes[p] \subseteq Range(GetType[p])
        BY <3>1, FunctionTypesMade
      <4>2. Inner(t) = UNION {FunctionTypes[p] : p \in Range(t[2]) \cup {t[3]}}
        BY <3>0 DEF Inner
      <4> QED
        BY <3>4, <3>5, <4>1, <4>2
    <3>7. GetType[t] = g \o <<t>>
      BY <3>4
    <3> HIDE DEF g
    <3>8. GetType[t] = Append(g, t)
      BY <3>5, <3>7, OneMore
    <3> QED
      BY <3>5, <3>6, <3>8, AppendInOrder
  <2>5. CASE t[1] \notin {"array", "pointer", "literal", "function"}
    <3>1. GetType[t] = <<>>
      BY <2>5, GetTypeIs DEF Is
    <3> QED
      BY <3>1 DEF InOrder
  <2> QED
    BY <2>1, <2>3, <2>4, <2>5 DEF Is
<1>2. ASSUME NEW t \in Types, \A u \in Types : Depth[u] < Depth[t] => u \in P
      PROVE  t \in P
  BY <1>1, <1>2
<1> HIDE DEF P
<1>3. Types \subseteq P
  BY <1>2, DepthIs, DepthInduction
<1> QED
  BY <1>3 DEF P

\* All that is made for a sequence of types.
LEMMA ReachedIs ==
  ASSUME NEW ts \in Seq({t \in Types : IsLlvm[t]})
  PROVE  /\ Reached(ts) \in Seq(Types) /\ InOrder(Reached(ts))
         /\ Range(Reached(ts)) = UNION {Range(GetType[t]) : t \in Range(ts)}
<1>1. ts \in Seq(Types) /\ \A i \in DOMAIN ts : IsLlvm[ts[i]]
  OBVIOUS
<1> DEFINE seqs == [i \in DOMAIN ts |-> GetType[ts[i]]]
<1>2. seqs \in Seq(Seq(Types)) /\ FlattenSeq(seqs) \in Seq(Types)
      /\ Range(FlattenSeq(seqs)) = UNION {Range(GetType[p]) : p \in Range(ts)}
  BY <1>1, GetTypesMade
<1>3. \A i \in DOMAIN seqs : InOrder(seqs[i])
  BY <1>1, MadeInOrder
<1> HIDE DEF seqs
<1>4. InOrder(FlattenSeq(seqs))
  BY <1>2, <1>3, FlattenInOrder
<1> QED
  BY <1>2, <1>4 DEF Reached, seqs

-----------------------------------------------------------------------------
(* Lists of typedefs. *)

\* A new element leaves a list without doubles.
LEMMA StaysInjective ==
  ASSUME NEW S, NEW s \in Seq(S), NEW x \in S, IsInjective(s), x \notin Range(s)
  PROVE  IsInjective(Append(s, x))
<1> DEFINE e == Append(s, x)
<1>1. /\ DOMAIN s = 1..Len(s) /\ Len(s) \in Nat /\ DOMAIN e = 1..(Len(s) + 1)
      /\ e[Len(s) + 1] = x
      /\ \A m \in DOMAIN s : e[m] = s[m]
  OBVIOUS
<1>2. \A m \in DOMAIN s : s[m] # x
  BY DEF Range
<1>3. \A m \in DOMAIN e : m \in DOMAIN s \/ m = Len(s) + 1
  BY <1>1
<1>4. \A m, n \in DOMAIN s : s[m] = s[n] => m = n
  BY DEF IsInjective
<1> HIDE DEF e
<1>5. \A m, n \in DOMAIN e : e[m] = e[n] => m = n
  BY <1>1, <1>2, <1>3, <1>4
<1>6. IsInjective(e)
  BY <1>5 DEF IsInjective
<1> QED
  BY <1>6 DEF e

\* Typedefs: one for each function pointer, from the inside out.
TypeDefsOK(ds) ==
  /\ ds \in Seq(Types) /\ IsInjective(ds) /\ InOrder(ds)
  /\ \A d \in Range(ds) : Is(d, "function")

\* A new typedef behind those it needs.
LEMMA AppendTypeDef ==
  ASSUME NEW ds, TypeDefsOK(ds), NEW x \in Types, Is(x, "function"), x \notin Range(ds),
         Inner(x) \subseteq Range(ds)
  PROVE  TypeDefsOK(Append(ds, x)) /\ Range(Append(ds, x)) = Range(ds) \cup {x}
<1>1. ds \in Seq(Types) /\ IsInjective(ds) /\ InOrder(ds) /\ \A d \in Range(ds) : Is(d, "function")
  BY DEF TypeDefsOK
<1>2. Range(Append(ds, x)) = Range(ds) \cup {x} /\ Append(ds, x) \in Seq(Types)
  BY <1>1, AppendIs
<1>3. IsInjective(Append(ds, x))
  BY <1>1, StaysInjective
<1>4. InOrder(Append(ds, x))
  BY <1>1, AppendInOrder
<1> QED
  BY <1>1, <1>2, <1>3, <1>4 DEF TypeDefsOK

-----------------------------------------------------------------------------
(* The structs in types. *)

\* The struct an array is of has to be complete for the array.
LEMMA StructArrayComplete ==
  \A t \in Types : StructArray[t] # None =>
    StructArray[t] \in CompleteIn[t] /\ IsStruct(StructArray[t])
<1> DEFINE P == {t \in Types : StructArray[t] # None =>
                   StructArray[t] \in CompleteIn[t] /\ IsStruct(StructArray[t])}
<1>1. ASSUME NEW t \in Types, \A u \in Types : Depth[u] < Depth[t] => u \in P
      PROVE  t \in P
  <2>1. CASE Is(t, "array")
    <3>1. t[2] \in Types /\ Depth[t[2]] < Depth[t]
      BY <2>1, PartOf DEF Is
    <3>2. StructArray[t] = IF IsStruct(t[2]) THEN t[2] ELSE StructArray[t[2]]
      BY <2>1, StructArrayIs
    <3>3. CompleteIn[t] = CompleteIn[t[2]]
      BY <2>1, CompleteInIs DEF Is, IsStruct
    <3>4. IsStruct(t[2]) => t[2] \in CompleteIn[t[2]]
      BY <3>1, CompleteInIs DEF Is, IsStruct
    <3> QED
      BY <1>1, <3>1, <3>2, <3>3, <3>4
  <2>2. CASE ~Is(t, "array")
    BY <2>2, StructArrayIs
  <2> QED
    BY <2>1, <2>2
<1> HIDE DEF P
<1>2. Types \subseteq P
  BY <1>1, DepthIs, DepthInduction
<1> QED
  BY <1>2 DEF P

\* The struct the array is of that a pointer leads to has to be complete for it.
LEMMA StructPointerComplete ==
  \A t \in Types : IsArrayPointer[t] /\ StructPointer[t] # None =>
    StructPointer[t] \in CompleteIn[t] /\ IsStruct(StructPointer[t])
<1> DEFINE P == {t \in Types : IsArrayPointer[t] /\ StructPointer[t] # None =>
                   StructPointer[t] \in CompleteIn[t] /\ IsStruct(StructPointer[t])}
<1>1. ASSUME NEW t \in Types, \A u \in Types : Depth[u] < Depth[t] => u \in P
      PROVE  t \in P
  <2> SUFFICES ASSUME IsArrayPointer[t], StructPointer[t] # None
               PROVE  StructPointer[t] \in CompleteIn[t] /\ IsStruct(StructPointer[t])
    OBVIOUS
  <2>0. Is(t, "pointer") /\ (Is(t[2], "array") \/ IsArrayPointer[t[2]])
    BY IsArrayPointerIs
  <2>1. t[2] \in Types /\ Depth[t[2]] < Depth[t]
    BY <2>0, PartOf DEF Is
  <2>2. ~IsStruct(t[2])
    BY <2>0, <2>1, IsArrayPointerIs DEF Is, IsStruct
  <2>3. CompleteIn[t] = CompleteIn[t[2]]
    BY <2>0, <2>2, CompleteInIs DEF Is, IsStruct
  <2>4. CASE Is(t[2], "array")
    <3>1. StructPointer[t] = StructArray[t[2]]
      BY <2>0, <2>2, <2>4, StructPointerIs
    <3> QED
      BY <2>1, <2>3, <3>1, StructArrayComplete
  <2>5. CASE ~Is(t[2], "array")
    <3>1. StructPointer[t] = StructPointer[t[2]]
      BY <2>0, <2>2, <2>5, StructPointerIs
    <3> QED
      BY <1>1, <2>0, <2>1, <2>3, <2>5, <3>1
  <2> QED
    BY <2>4, <2>5
<1> HIDE DEF P
<1>2. Types \subseteq P
  BY <1>1, DepthIs, DepthInduction
<1> QED
  BY <1>2 DEF P

\* The struct an array's declaration starts with is the one the array is of.
LEMMA PlainPointerHasStar ==
  ASSUME NEW t \in Types, Is(t, "pointer"), SaysItAll[t], ~IsArrayPointer[t]
  PROVE  TypeText[t].stars # 0
<1>1. ~IsFunction(t[2]) /\ t[2] \in Types
  BY SaysItAllIs, PartOf DEF Is
<1>2. TypeText[t] = [TypeText[t[2]] EXCEPT !.stars = @ + 1] /\ TypeText[t[2]] \in [base : Types, stars : Nat]
  BY <1>1, TypeTextIs DEF Is
<1>3. TypeText[t].stars = TypeText[t[2]].stars + 1 /\ TypeText[t[2]].stars \in Nat
  BY <1>2
<1> QED
  BY <1>3

\* The text of an array starts with the struct it is of.
LEMMA ArrayBase ==
  \A t \in Types : Is(t, "array") /\ SaysItAll[t] /\ TypeText[t].stars = 0 /\ IsStruct(TypeText[t].base)
    => StructArray[t] = TypeText[t].base
<1> DEFINE H(t) == Is(t, "array") /\ SaysItAll[t] /\ TypeText[t].stars = 0 /\ IsStruct(TypeText[t].base)
           P == {t \in Types : H(t) => StructArray[t] = TypeText[t].base}
<1>1. ASSUME NEW t \in Types, \A u \in Types : Depth[u] < Depth[t] => u \in P, H(t)
      PROVE  StructArray[t] = TypeText[t].base
  <2> DEFINE e == t[2]
  <2>1. e \in Types /\ Depth[e] < Depth[t]
    BY <1>1, PartOf DEF Is
  <2>2. TypeText[t] = TypeText[e]
    BY <1>1, TypeTextIs DEF Is
  <2>3. SaysItAll[e] /\ (PointerArray[t] = None \/ ~IsArrayPointer[PointerArray[t]])
    BY <1>1, SaysItAllIs DEF Is
  <2>4. CASE Is(e, "array")
    <3>1. StructArray[t] = StructArray[e]
      BY <1>1, <2>4, StructArrayIs DEF Is, IsStruct
    <3> QED
      BY <1>1, <2>1, <2>2, <2>3, <2>4, <3>1
  <2>5. CASE Is(e, "pointer")
    <3>1. PointerArray[t] = e /\ e # None
      BY <1>1, <2>5, PointerArrayIs DEF Is, None
    <3>2. TypeText[e].stars # 0
      BY <2>1, <2>3, <2>5, <3>1, PlainPointerHasStar
    <3> QED
      BY <1>1, <2>2, <3>2
  <2>6. CASE ~Is(e, "array") /\ ~Is(e, "pointer")
    <3>1. TypeText[e] = [base |-> e, stars |-> 0]
      BY <2>1, <2>6, TypeTextIs
    <3>2. IsStruct(e) /\ TypeText[t].base = e
      BY <1>1, <2>2, <3>1
    <3>3. StructArray[t] = e
      BY <1>1, <3>2, StructArrayIs
    <3> QED
      BY <3>2, <3>3
  <2> QED
    BY <2>4, <2>5, <2>6
<1>2. ASSUME NEW t \in Types, \A u \in Types : Depth[u] < Depth[t] => u \in P
      PROVE  t \in P
  BY <1>1, <1>2
<1> HIDE DEF P
<1>3. Types \subseteq P
  BY <1>2, DepthIs, DepthInduction
<1> QED
  BY <1>3 DEF P

\* The debug information has no structs without a name.
LEMMA DebugComplete ==
  \A t \in Types : IsDebug[t] => \A c \in CompleteIn[t] : ~Is(c, "literal")
<1> DEFINE H(t) == IsDebug[t] => \A c \in CompleteIn[t] : ~Is(c, "literal")
           P == {t \in Types : H(t)}
<1>1. ASSUME NEW t \in Types, \A u \in Types : Depth[u] < Depth[t] => u \in P, IsDebug[t]
      PROVE  \A c \in CompleteIn[t] : ~Is(c, "literal")
  <2>1. CASE IsStruct(t)
    <3>1. CompleteIn[t] = {t}
      BY <2>1, CompleteInIs DEF IsStruct, Is
    <3>2. t[1] # "literal"
      BY <1>1, <2>1, IsDebugIs DEF IsStruct, Is
    <3> QED
      BY <3>1, <3>2 DEF Is
  <2>2. CASE t[1] \in {"array", "vla", "pointer"}
    <3>1. t[2] \in Types /\ Depth[t[2]] < Depth[t]
      BY <2>2, PartOf
    <3>2. IsDebug[t] = IsDebug[t[2]]
      BY <2>2, IsDebugIs DEF Is
    <3>3. CompleteIn[t] \subseteq CompleteIn[t[2]]
      BY <2>2, <3>1, CompleteInIs DEF Is, IsStruct
    <3> QED
      BY <1>1, <3>1, <3>2, <3>3
  <2>3. CASE ~IsStruct(t) /\ t[1] \notin {"array", "vla", "pointer"}
    BY <2>3, CompleteInIs DEF Is, IsStruct
  <2> QED
    BY <2>1, <2>2, <2>3
<1>2. ASSUME NEW t \in Types, \A u \in Types : Depth[u] < Depth[t] => u \in P
      PROVE  t \in P
  BY <1>1, <1>2
<1> HIDE DEF P
<1>3. Types \subseteq P
  BY <1>2, DepthIs, DepthInduction
<1> QED
  BY <1>3 DEF P

-----------------------------------------------------------------------------
(* Sets written as sequences. *)

\* A list has finitely many elements.
LEMMA FiniteRange ==
  ASSUME NEW S, NEW s \in Seq(S)
  PROVE  IsFiniteSet(Range(s))
<1>1. Len(s) \in Nat /\ DOMAIN s = 1..Len(s)
  OBVIOUS
<1>2. IsFiniteSet(1..Len(s))
  BY <1>1, FS_Interval
<1>3. s \in [DOMAIN s -> Range(s)] /\ \A x \in Range(s) : \E m \in DOMAIN s : s[m] = x
  BY DEF Range
<1>4. s \in Surjection(DOMAIN s, Range(s))
  BY <1>3 DEF Surjection
<1> QED
  BY <1>1, <1>2, <1>4, FS_Surjection

\* A finite set can be counted through.
LEMMA CountedIs ==
  ASSUME NEW S, IsFiniteSet(S), NEW f \in [1..Cardinality(S) -> S], IsInjective(f)
  PROVE  f \in Seq(S) /\ Range(f) = S
<1> DEFINE D == 1..Cardinality(S)
<1>1. Cardinality(S) \in Nat
  BY FS_CardinalityType
<1>2. f \in Injection(D, S)
  BY DEF Injection
<1>3. Cardinality(D) = Cardinality(S)
  BY <1>1, FS_Interval
<1>4. f \in Surjection(D, S)
  BY <1>2, <1>3, FS_Injection
<1>5. \A x \in S : \E m \in DOMAIN f : f[m] = x
  BY <1>4 DEF Surjection
<1> QED
  BY <1>1, <1>5 DEF Range

\* SetToSeq lists each element of a finite set once.
LEMMA SetToSeqIs ==
  ASSUME NEW S, IsFiniteSet(S)
  PROVE  SetToSeq(S) \in Seq(S) /\ IsInjective(SetToSeq(S)) /\ Range(SetToSeq(S)) = S
<1>1. ExistsBijection(1..Cardinality(S), S)
  BY FS_CardinalityType
<1>2. \E f \in [1..Cardinality(S) -> S] : IsInjective(f)
  BY <1>1 DEF ExistsBijection, Bijection, Injection
<1>3. SetToSeq(S) \in [1..Cardinality(S) -> S] /\ IsInjective(SetToSeq(S))
  BY <1>2 DEF SetToSeq
<1> QED
  BY <1>3, CountedIs

\* Each sequence of SetToSeqs lists each element of the set once.
LEMMA SetToSeqsIs ==
  ASSUME NEW S, IsFiniteSet(S), NEW f \in SetToSeqs(S)
  PROVE  f \in Seq(S) /\ Range(f) = S
<1>1. f \in [1..Cardinality(S) -> S] /\ \A i, j \in 1..Cardinality(S) : i # j => f[i] # f[j]
  BY DEF SetToSeqs
<1>2. IsInjective(f)
  BY <1>1 DEF IsInjective
<1> QED
  BY <1>1, <1>2, CountedIs

\* Nothing in front of a list.
LEMMA EmptyFirst == ASSUME NEW S, NEW s \in Seq(S) PROVE <<>> \o s = s
OBVIOUS

\* Two sequences with nothing in common.
LEMMA ConcatInjective ==
  ASSUME NEW S, NEW a \in Seq(S), NEW b \in Seq(S), IsInjective(a), IsInjective(b),
         Range(a) \cap Range(b) = {}
  PROVE  IsInjective(a \o b)
<1> DEFINE c == a \o b
<1>1. /\ \A n \in DOMAIN a : c[n] = a[n] /\ a[n] \in Range(a)
      /\ \A n \in DOMAIN b : c[Len(a) + n] = b[n] /\ b[n] \in Range(b)
      /\ \A n \in DOMAIN c : n \in DOMAIN a \/ \E m \in DOMAIN b : n = Len(a) + m
  BY ConcatIs DEF Range
<1> HIDE DEF c
<1>2. /\ \A m, n \in DOMAIN a : a[m] = a[n] => m = n
      /\ \A m, n \in DOMAIN b : b[m] = b[n] => m = n
  BY DEF IsInjective
<1>3. \A m, n \in DOMAIN c : c[m] = c[n] => m = n
  BY <1>1, <1>2
<1>4. IsInjective(c)
  BY <1>3 DEF IsInjective
<1> QED
  BY <1>4 DEF c
=============================================================================
