--------------------------- MODULE MCPointerExprs ---------------------------
(* Statements with pointers of up to two steps, and indices of every form. *)
EXTENDS PointerExprs

Alloca(v) == <<"alloca", v>>
Zero == <<"const", 0>>
AllIndices == {Zero, <<"const", 1>>, <<"const", -1>>, <<"n">>, <<"sext">>, <<"zext">>,
               <<"neg", <<"sext">>>>, <<"neg", <<"zext">>>>, <<"neg", <<"const", 1>>>>}

To(vs, t) == {v \in vs : LlvmType(v) = Ptr(t)}
Loads(vs) == {<<"load", v>> : v \in {u \in vs : IsPtr(Pointee(LlvmType(u)))}}
Steps(vs, indices) ==
  {<<"gep", v, x, st>> : v \in To(vs, S), x \in indices, st \in {<<>>, <<"a">>, <<"f">>}}
    \cup {<<"gep", v, Zero, st>> : v \in To(vs, Arr), st \in {<<"e0">>, <<"e1">>, <<"e1", "a">>, <<"e0", "f">>}}

Allocas == {Alloca(v) : v \in DOMAIN VarTypes}
Pointers1 == Allocas \cup Loads(Allocas) \cup Steps(Allocas, {Zero})
Pointers2 == Pointers1 \cup Loads(Pointers1) \cup Steps(Pointers1, {Zero, <<"const", 1>>})
Indexed == Steps(Loads(Allocas), AllIndices)

\* A load or a pointer is stored; structs are copied.
Stored(vs, t) == {<<"load", v>> : v \in To(vs, t)} \cup IF IsPtr(t) THEN To(vs, Pointee(t)) ELSE {}
Stores(vs, ws) ==
  UNION {{<<"store", x, v>> : x \in Stored(vs, t), v \in To(ws, t)} :
           t \in {Number, Ptr(S), Ptr(Ptr(S))}}
Casted(v) == <<"bitcast", v>>
Copies(vs, ws) ==
  UNION {{<<"memcpy", Casted(v), Casted(w), n>> : v \in To(vs, t), w \in To(ws, t),
            n \in {1, SizeOf(t)}} : t \in {S, Arr, Ptr(S)}}

MCStatements ==
  Stores(Pointers1, Pointers2) \cup Stores(Indexed, Allocas \cup Indexed)
    \cup Copies(Pointers2, Pointers1) \cup Copies(Indexed, Allocas)

Sv(n, place) == [a |-> n, f |-> place]
Mem(p, q, n) ==
  [s |-> Sv("1", p), t |-> Sv("2", q),
   c |-> [e0 |-> Sv("3", q), e1 |-> Sv("4", p)],
   p |-> p, q |-> q, pp |-> Place("q", <<>>), r |-> Place("c", <<>>), n |-> n]
MCMemories == {Mem(Place("c", <<"e0">>), Place("s", <<>>), 1), Mem(Place("c", <<"e1">>), Place("t", <<>>), 3)}
=============================================================================
