-------------------------- MODULE DeclarationsProofs --------------------------
(***************************************************************************)
(* The program's tables, the order of its declarations and definitions and *)
(* the recursions that make them, for every module: each type and name is  *)
(* declared once, behind what it needs.                                    *)
(***************************************************************************)
EXTENDS DebugTypes, CTypesProofs

Globals == Range(mod.globals)

InputOK ==
  /\ mod.globals \in Seq(Globals) /\ IsInjective(mod.globals)
  /\ mod.initializer \in [Globals -> Seq(Globals)]
  /\ mod.debug \in Seq(Types)
  /\ mod.debugItems \in [DOMAIN mod.debugItems -> Seq(Types)]
  /\ Loop \notin Globals \cup Types

-----------------------------------------------------------------------------
(* The stack of calls. *)

Nodes == Globals \cup Types \cup {Loop}
Calls == [node : Nodes, i : Nat]

Moved == [stack EXCEPT ![Len(stack)].i = @ + 1]

LEMMA MovedIs ==
  ASSUME stack \in Seq(Calls), stack # <<>>
  PROVE  /\ Moved \in Seq(Calls) /\ Len(Moved) = Len(stack)
         /\ \A m \in 1..Len(stack) :
              /\ Moved[m].node = stack[m].node
              /\ Moved[m].i = IF m = Len(stack) THEN stack[m].i + 1 ELSE stack[m].i
<1>1. stack \in [1..Len(stack) -> Calls] /\ Len(stack) \in 1..Len(stack)
  OBVIOUS
<1>2. ASSUME NEW m \in 1..Len(stack)
      PROVE  /\ stack[m].node \in Nodes /\ stack[m].i \in Nat
             /\ stack[m] = [node |-> stack[m].node, i |-> stack[m].i]
  BY <1>1 DEF Calls
<1> DEFINE top == [node |-> stack[Len(stack)].node, i |-> stack[Len(stack)].i + 1]
<1>3. top \in Calls
  BY <1>1, <1>2 DEF Calls
<1>4. [stack[Len(stack)] EXCEPT !.i = @ + 1] = top
  BY <1>1, <1>2
<1>5. Moved = [stack EXCEPT ![Len(stack)] = top]
  BY <1>4 DEF Moved
<1>6. /\ \A m \in 1..Len(stack) : Moved[m] = IF m = Len(stack) THEN top ELSE stack[m]
      /\ Moved \in [1..Len(stack) -> Calls]
  BY <1>1, <1>3, <1>5
<1>7. Moved \in Seq(Calls) /\ Len(Moved) = Len(stack)
  BY <1>6
<1> HIDE DEF top
<1>8. ASSUME NEW m \in 1..Len(stack)
      PROVE  /\ Moved[m].node = stack[m].node
             /\ Moved[m].i = IF m = Len(stack) THEN stack[m].i + 1 ELSE stack[m].i
  BY <1>6, top = [node |-> stack[Len(stack)].node, i |-> stack[Len(stack)].i + 1] DEF top
<1> QED
  BY <1>7, <1>8

LEMMA CallsUnchanged == ASSUME UNCHANGED mod PROVE Calls' = Calls
BY DEF Calls, Nodes, Globals

LEMMA PushIs ==
  ASSUME stack \in Seq(Calls), stack # <<>>, NEW n \in Nodes, Push(n), UNCHANGED mod
  PROVE  /\ stack' \in Seq(Calls') /\ Len(stack') = Len(stack) + 1
         /\ stack'[Len(stack) + 1].node = n /\ stack'[Len(stack) + 1].i = 1
         /\ \A m \in 1..Len(stack) :
              /\ stack'[m].node = stack[m].node
              /\ stack'[m].i = IF m = Len(stack) THEN stack[m].i + 1 ELSE stack[m].i
<1>1. stack' = Append(Moved, Call(n)) /\ Call(n) \in Calls /\ Call(n).node = n /\ Call(n).i = 1
  BY DEF Push, Call, Calls, Moved
<1> QED
  BY <1>1, MovedIs, CallsUnchanged

LEMMA AdvanceIs ==
  ASSUME stack \in Seq(Calls), stack # <<>>, Advance, UNCHANGED mod
  PROVE  /\ stack' \in Seq(Calls') /\ Len(stack') = Len(stack)
         /\ \A m \in 1..Len(stack) :
              /\ stack'[m].node = stack[m].node
              /\ stack'[m].i = IF m = Len(stack) THEN stack[m].i + 1 ELSE stack[m].i
<1>1. stack' = Moved
  BY DEF Advance, Moved
<1> QED
  BY <1>1, MovedIs, CallsUnchanged

LEMMA FrontOf ==
  ASSUME NEW S, NEW s \in Seq(S), s # <<>>
  PROVE  /\ SubSeq(s, 1, Len(s) - 1) \in Seq(S) /\ Len(SubSeq(s, 1, Len(s) - 1)) = Len(s) - 1
         /\ \A m \in 1..(Len(s) - 1) : SubSeq(s, 1, Len(s) - 1)[m] = s[m]
<1> DEFINE n == Len(s) - 1
<1>1. n \in Nat /\ n < Len(s) /\ n - 1 + 1 = n
  OBVIOUS
<1>2. \A m \in 1..n : s[m] \in S /\ 1 + m - 1 = m
  BY <1>1
<1> HIDE DEF n
<1>3. /\ SubSeq(s, 1, n) \in Seq(S) /\ Len(SubSeq(s, 1, n)) = n
      /\ \A m \in 1..n : SubSeq(s, 1, n)[m] = s[m]
  BY <1>1, <1>2
<1> QED
  BY <1>3 DEF n

LEMMA ReturnIs ==
  ASSUME stack \in Seq(Calls), stack # <<>>, Return, UNCHANGED mod
  PROVE  /\ stack' \in Seq(Calls') /\ Len(stack') = Len(stack) - 1
         /\ \A m \in 1..(Len(stack) - 1) : stack'[m] = stack[m]
<1>1. stack' = SubSeq(stack, 1, Len(stack) - 1)
  BY DEF Return, Front
<1>2. SubSeq(stack, 1, Len(stack) - 1) \in Seq(Calls)
  BY FrontOf
<1> QED
  BY <1>1, <1>2, FrontOf, CallsUnchanged

-----------------------------------------------------------------------------
(* The order of the globals. *)

LEMMA LeadsToSelf == ASSUME NEW g PROVE LeadsTo(g, g)
BY DEF LeadsTo

LEMMA LeadsOn ==
  ASSUME NEW a, NEW b, NEW c, LeadsTo(a, b), c \in Range(mod.initializer[b])
  PROVE  LeadsTo(a, c)
BY DEF LeadsTo

\* The globals finished so far.
OrderOK ==
  /\ globalVars \in Seq(Globals) /\ IsInjective(globalVars)
  /\ \A k \in DOMAIN globalVars : \A h \in Range(mod.initializer[globalVars[k]]) :
       LeadsTo(h, globalVars[k]) \/ \E j \in 1..(k - 1) : globalVars[j] = h

Entered == {stack[m].node : m \in 2..Len(stack)}

\* The calls of computeTopo: each global is entered once, and leads to those
\* that are entered after it and are not finished.
Searching ==
  /\ stack \in Seq(Calls) /\ stack # <<>> /\ roots = mod.globals
  /\ stack[1].node = Loop
  /\ \A m \in 2..Len(stack) : stack[m].node \in Globals
  /\ \A m, n \in 2..Len(stack) :
       /\ m < n => stack[m].node # stack[n].node
       /\ m <= n => LeadsTo(stack[m].node, stack[n].node)
  /\ visited = Range(globalVars) \cup Entered
  /\ Range(globalVars) \cap Entered = {}
  /\ \A m \in DOMAIN stack :
       /\ stack[m].i >= 1
       /\ \A p \in DOMAIN Operands(stack[m].node) :
            p < stack[m].i => Operands(stack[m].node)[p] \in visited

LEMMA OperandsType ==
  ASSUME InputOK, Searching, NEW m \in DOMAIN stack
  PROVE  Operands(stack[m].node) \in Seq(Globals)
<1>1. m = 1 \/ m \in 2..Len(stack)
  BY DEF Searching
<1> QED
  BY <1>1 DEF Searching, Operands, InputOK

LEMMA TopCall ==
  ASSUME InputOK, Searching, NEW i, i = Last(stack).i, NEW x, x = Last(stack).node
  PROVE  /\ stack \in Seq(Calls) /\ Len(stack) \in Nat /\ Len(stack) \in DOMAIN stack
         /\ x = stack[Len(stack)].node /\ i = stack[Len(stack)].i
         /\ i \in Nat /\ i >= 1 /\ Operands(x) \in Seq(Globals)
         /\ \A p \in DOMAIN Operands(x) : p < i => Operands(x)[p] \in visited
         /\ x # Loop => Len(stack) \in 2..Len(stack) /\ x \in Globals
         /\ x = Loop => Len(stack) = 1
<1>1. /\ stack \in Seq(Calls) /\ Len(stack) \in Nat /\ Len(stack) \in DOMAIN stack
      /\ x = stack[Len(stack)].node /\ i = stack[Len(stack)].i
      /\ stack[Len(stack)] \in Calls /\ Len(stack) >= 1
  BY DEF Last, Searching
<1>2. i \in Nat
  BY <1>1 DEF Calls
<1>3. i >= 1 /\ \A p \in DOMAIN Operands(x) : p < i => Operands(x)[p] \in visited
  BY <1>1 DEF Searching
<1>4. Operands(x) \in Seq(Globals)
  BY <1>1, OperandsType
<1>5. CASE Len(stack) = 1
  <2>1. x = Loop
    BY <1>1, <1>5 DEF Searching
  <2> QED
    BY <1>1, <1>2, <1>3, <1>4, <1>5, <2>1
<1>6. CASE Len(stack) # 1
  <2>1. Len(stack) \in 2..Len(stack)
    <3>1. \A n \in Nat : n >= 1 /\ n # 1 => n \in 2..n
      OBVIOUS
    <3> QED
      BY <1>1, <1>6, <3>1
  <2>2. x \in Globals /\ x # Loop
    BY <1>1, <2>1 DEF Searching, InputOK
  <2> QED
    BY <1>1, <1>2, <1>3, <1>4, <2>1, <2>2
<1> QED
  BY <1>5, <1>6

LEMMA SearchUnchanged ==
  ASSUME InputOK, UNCHANGED mod
  PROVE  /\ InputOK' /\ Globals' = Globals
         /\ \A g, h : LeadsTo(g, h)' <=> LeadsTo(g, h)
         /\ UNCHANGED globalVars => (OrderOK' <=> OrderOK)
<1>1. Globals' = Globals /\ InputOK'
  BY DEF InputOK, Globals
<1>2. \A g, h : LeadsTo(g, h)' <=> LeadsTo(g, h)
  BY DEF LeadsTo
<1> QED
  BY <1>1, <1>2 DEF OrderOK

\* computeTopo calls itself for a global that is not visited.
LEMMA SearchPush ==
  ASSUME InputOK, Searching, UNCHANGED <<mod, globalVars, roots>>,
         NEW i, i = Last(stack).i, NEW x, x = Last(stack).node,
         i \in DOMAIN Operands(x), Operands(x)[i] \notin visited,
         visited' = visited \cup {Operands(x)[i]}, Push(Operands(x)[i])
  PROVE  Searching'
<1> DEFINE L == Len(stack)
           n == Operands(x)[i]
<1>1. L \in DOMAIN stack /\ x = stack[L].node /\ i = stack[L].i /\ stack \in Seq(Calls) /\ L \in Nat
  BY DEF Last, Searching
<1>2. Operands(x) \in Seq(Globals)
  BY <1>1, OperandsType
<1>3. n \in Globals /\ n \in Nodes
  BY <1>2 DEF Nodes
<1>4. /\ stack' \in Seq(Calls') /\ Len(stack') = L + 1
      /\ stack'[L + 1].node = n /\ stack'[L + 1].i = 1
      /\ \A m \in 1..L : /\ stack'[m].node = stack[m].node
                         /\ stack'[m].i = IF m = L THEN stack[m].i + 1 ELSE stack[m].i
  BY <1>1, <1>3, PushIs DEF Searching
<1>5. Globals' = Globals /\ (\A a, b : LeadsTo(a, b)' <=> LeadsTo(a, b))
      /\ (\A a : Operands(a)' = Operands(a))
  BY SearchUnchanged DEF Operands
<1>6. n \notin Entered /\ n \notin Range(globalVars)
  BY DEF Searching
<1>7. \A m \in 2..L : LeadsTo(stack[m].node, n)
  <2> SUFFICES ASSUME NEW m \in 2..L PROVE LeadsTo(stack[m].node, n)
    OBVIOUS
  <2>1. L \in 2..L /\ x \in Globals /\ LeadsTo(stack[m].node, x)
    BY <1>1 DEF Searching
  <2>2. n \in Range(mod.initializer[x])
    BY <1>2, <2>1 DEF Operands, Range, InputOK
  <2> QED
    BY <2>1, <2>2, LeadsOn
<1>8. Entered' = Entered \cup {n}
  <2>1. L \in 1..L /\ 2..Len(stack') = (2..L) \cup {L + 1}
    BY <1>1, <1>4
  <2>2. \A m \in 2..L : stack'[m].node = stack[m].node
    BY <1>1, <1>4
  <2>3. Entered' = {stack'[m].node : m \in 2..Len(stack')}
    BY DEF Entered
  <2>4. {stack'[m].node : m \in (2..L) \cup {L + 1}}
          = {stack[m].node : m \in 2..L} \cup {n}
    BY <1>4, <2>2
  <2> QED
    BY <2>1, <2>3, <2>4 DEF Entered
<1> HIDE DEF n
<1>9. stack'[1].node = Loop /\ \A m \in 2..L + 1 : stack'[m].node \in Globals
  BY <1>1, <1>3, <1>4 DEF Searching
<1>10. ASSUME NEW m \in 2..L + 1, NEW k \in 2..L + 1
       PROVE  /\ m < k => stack'[m].node # stack'[k].node
              /\ m <= k => LeadsTo(stack'[m].node, stack'[k].node)
  <2>1. CASE m \in 2..L /\ k \in 2..L
    BY <1>1, <1>4, <2>1 DEF Searching
  <2>2. CASE m \in 2..L /\ k = L + 1
    BY <1>1, <1>4, <1>6, <1>7, <2>2 DEF Entered
  <2>3. CASE m = L + 1
    BY <1>1, <1>4, <2>3, LeadsToSelf
  <2> QED
    BY <1>1, <2>1, <2>2, <2>3
<1>11. visited' = Range(globalVars) \cup Entered' /\ Range(globalVars) \cap Entered' = {}
  BY <1>6, <1>8 DEF Searching, n
<1>12. ASSUME NEW m \in 1..L + 1
       PROVE  /\ stack'[m].i >= 1
              /\ \A p \in DOMAIN Operands(stack'[m].node) :
                   p < stack'[m].i => Operands(stack'[m].node)[p] \in visited'
  <2>1. CASE m \in 1..(L - 1)
    BY <1>1, <1>4, <2>1 DEF Searching
  <2>2. CASE m = L
    <3>1. stack'[m].i = i + 1 /\ stack'[m].node = x /\ i \in Nat /\ i >= 1
      BY <1>1, <1>4, <2>2, TopCall
    <3> SUFFICES ASSUME NEW p \in DOMAIN Operands(x), p < i + 1
                 PROVE  Operands(x)[p] \in visited'
      BY <3>1
    <3>2. p \in Nat
      BY <1>2
    <3>3. p = i \/ p < i
      BY <3>1, <3>2
    <3> QED
      BY <1>1, <3>3 DEF Searching
  <2>3. CASE m = L + 1
    <3>1. stack'[m].i = 1 /\ stack'[m].node = n
      BY <1>4, <2>3
    <3>2. Operands(n) \in Seq(Globals)
      BY <1>3 DEF Operands, InputOK
    <3> QED
      BY <3>1, <3>2
  <2> QED
    BY <1>1, <2>1, <2>2, <2>3
<1>13. stack' # <<>> /\ DOMAIN stack' = 1..L + 1
  BY <1>1, <1>4
<1> HIDE DEF L
<1> QED
  BY <1>4, <1>5, <1>9, <1>10, <1>11, <1>12, <1>13 DEF Searching, L

\* It passes over one that is.
LEMMA SearchAdvance ==
  ASSUME InputOK, Searching, UNCHANGED <<mod, globalVars, roots, visited>>,
         NEW i, i = Last(stack).i, NEW x, x = Last(stack).node,
         i \in DOMAIN Operands(x), Operands(x)[i] \in visited, Advance
  PROVE  Searching'
<1> DEFINE L == Len(stack)
<1>1. L \in DOMAIN stack /\ x = stack[L].node /\ i = stack[L].i /\ stack \in Seq(Calls) /\ L \in Nat
  BY DEF Last, Searching
<1>2. Operands(x) \in Seq(Globals)
  BY <1>1, OperandsType
<1>4. /\ stack' \in Seq(Calls') /\ Len(stack') = L
      /\ \A m \in 1..L : /\ stack'[m].node = stack[m].node
                         /\ stack'[m].i = IF m = L THEN stack[m].i + 1 ELSE stack[m].i
  BY <1>1, AdvanceIs DEF Searching
<1>5. Globals' = Globals /\ (\A a, b : LeadsTo(a, b)' <=> LeadsTo(a, b))
      /\ (\A a : Operands(a)' = Operands(a))
  BY SearchUnchanged DEF Operands
<1>8. Entered' = Entered
  BY <1>1, <1>4 DEF Entered
<1>9. stack'[1].node = Loop /\ \A m \in 2..L : stack'[m].node \in Globals
  BY <1>1, <1>4 DEF Searching
<1>10. ASSUME NEW m \in 2..L, NEW k \in 2..L
       PROVE  /\ m < k => stack'[m].node # stack'[k].node
              /\ m <= k => LeadsTo(stack'[m].node, stack'[k].node)
  BY <1>1, <1>4 DEF Searching
<1>12. ASSUME NEW m \in 1..L
       PROVE  /\ stack'[m].i >= 1
              /\ \A p \in DOMAIN Operands(stack'[m].node) :
                   p < stack'[m].i => Operands(stack'[m].node)[p] \in visited
  <2>1. CASE m \in 1..(L - 1)
    BY <1>1, <1>4, <2>1 DEF Searching
  <2>2. CASE m = L
    <3>1. stack'[m].i = i + 1 /\ stack'[m].node = x /\ i \in Nat /\ i >= 1
      BY <1>1, <1>4, <2>2, TopCall
    <3> SUFFICES ASSUME NEW p \in DOMAIN Operands(x), p < i + 1
                 PROVE  Operands(x)[p] \in visited
      BY <3>1
    <3>2. p = i \/ p < i
      BY <1>2, <3>1
    <3> QED
      BY <1>1, <3>2 DEF Searching
  <2> QED
    BY <1>1, <2>1, <2>2
<1>13. stack' # <<>> /\ DOMAIN stack' = 1..L
  BY <1>1, <1>4
<1> HIDE DEF L
<1> QED
  BY <1>4, <1>5, <1>8, <1>9, <1>10, <1>12, <1>13 DEF Searching, L

\* What is above on the stack when a call returns.
LEMMA SearchFinish ==
  ASSUME InputOK, OrderOK, Searching, UNCHANGED <<mod, roots, visited>>,
         NEW i, i = Last(stack).i, NEW x, x = Last(stack).node, x # Loop,
         i > Len(Operands(x)), globalVars' = Append(globalVars, x), Return
  PROVE  Searching' /\ OrderOK'
<1> DEFINE L == Len(stack)
           N == Len(globalVars)
<1>1. L \in DOMAIN stack /\ x = stack[L].node /\ i = stack[L].i /\ stack \in Seq(Calls) /\ L \in Nat
  BY DEF Last, Searching
<1>2. Operands(x) \in Seq(Globals) /\ L \in 2..L /\ x \in Globals /\ i \in Nat
  BY TopCall
<1>3. Operands(x) = mod.initializer[x]
  BY <1>2 DEF Operands
<1>4. /\ stack' \in Seq(Calls') /\ Len(stack') = L - 1
      /\ \A m \in 1..(L - 1) : stack'[m] = stack[m]
  BY <1>1, ReturnIs DEF Searching
<1>5. Globals' = Globals /\ (\A a, b : LeadsTo(a, b)' <=> LeadsTo(a, b))
      /\ (\A a : Operands(a)' = Operands(a))
  BY SearchUnchanged DEF Operands
<1>6. x \in Entered /\ x \notin Range(globalVars)
  BY <1>1, <1>2 DEF Searching, Entered
<1>7. globalVars \in Seq(Globals) /\ N \in Nat
  BY DEF OrderOK
<1>8. /\ globalVars' \in Seq(Globals) /\ Len(globalVars') = N + 1 /\ globalVars'[N + 1] = x
      /\ DOMAIN globalVars' = 1..N + 1 /\ \A k \in 1..N : globalVars'[k] = globalVars[k]
  BY <1>2, <1>7
<1>9. Range(globalVars') = Range(globalVars) \cup {x}
  BY <1>7, <1>8 DEF Range
<1>10. Entered = Entered' \cup {x} /\ x \notin Entered'
  <2>1. 2..L = (2..(L - 1)) \cup {L}
    BY <1>2
  <2>2. Entered' = {stack[m].node : m \in 2..(L - 1)}
    BY <1>1, <1>4 DEF Entered
  <2>3. \A m \in 2..(L - 1) : stack[m].node # x
    BY <1>1, <1>2 DEF Searching
  <2> QED
    BY <1>1, <2>1, <2>2, <2>3 DEF Entered
<1>11. Searching'
  <2>1. stack' # <<>> /\ DOMAIN stack' = 1..(L - 1)
    BY <1>2, <1>4
  <2>2. stack'[1].node = Loop /\ \A m \in 2..(L - 1) : stack'[m].node \in Globals
    BY <1>2, <1>4 DEF Searching
  <2>3. ASSUME NEW m \in 2..(L - 1), NEW k \in 2..(L - 1)
        PROVE  /\ m < k => stack'[m].node # stack'[k].node
               /\ m <= k => LeadsTo(stack'[m].node, stack'[k].node)
    <3>1. m \in 2..L /\ k \in 2..L /\ m \in 1..(L - 1) /\ k \in 1..(L - 1)
      BY <1>1
    <3>2. stack'[m] = stack[m] /\ stack'[k] = stack[k]
      BY <1>4, <3>1
    <3> QED
      BY <3>1, <3>2 DEF Searching
  <2>4. visited = Range(globalVars') \cup Entered' /\ Range(globalVars') \cap Entered' = {}
    BY <1>6, <1>9, <1>10 DEF Searching
  <2>5. ASSUME NEW m \in 1..(L - 1)
        PROVE  /\ stack'[m].i >= 1
               /\ \A p \in DOMAIN Operands(stack'[m].node) :
                    p < stack'[m].i => Operands(stack'[m].node)[p] \in visited
    <3>1. m \in DOMAIN stack /\ stack'[m] = stack[m]
      BY <1>1, <1>4
    <3> QED
      BY <3>1 DEF Searching
  <2> HIDE DEF L
  <2> QED
    BY <1>4, <1>5, <2>1, <2>2, <2>3, <2>4, <2>5 DEF Searching
<1>12. IsInjective(globalVars')
  <2> SUFFICES ASSUME NEW a \in 1..N + 1, NEW b \in 1..N + 1, globalVars'[a] = globalVars'[b]
               PROVE  a = b
    BY <1>8 DEF IsInjective
  <2>1. \A k \in 1..N : globalVars'[k] # x
    BY <1>6, <1>7, <1>8 DEF Range
  <2>2. CASE a \in 1..N /\ b \in 1..N
    BY <1>7, <1>8, <2>2 DEF OrderOK, IsInjective
  <2> QED
    BY <1>7, <1>8, <2>1, <2>2
<1>13. ASSUME NEW k \in 1..N + 1, NEW h \in Range(mod.initializer[globalVars'[k]])
       PROVE  LeadsTo(h, globalVars'[k]) \/ \E j \in 1..(k - 1) : globalVars'[j] = h
  <2>1. CASE k \in 1..N
    <3>1. LeadsTo(h, globalVars[k]) \/ \E j \in 1..(k - 1) : globalVars[j] = h
      BY <1>7, <1>8, <2>1 DEF OrderOK
    <3> QED
      BY <1>7, <1>8, <2>1, <3>1
  <2>2. CASE k = N + 1
    <3>1. PICK p \in DOMAIN Operands(x) : h = Operands(x)[p]
      BY <1>3, <1>8, <2>2 DEF Range
    <3>2. p < i
      BY <1>2
    <3>3. h \in visited
      BY <1>1, <3>1, <3>2 DEF Searching
    <3>4. CASE h \in Range(globalVars)
      BY <1>7, <1>8, <2>2, <3>4 DEF Range
    <3>5. CASE h \in Entered
      <4>1. PICK m \in 2..L : h = stack[m].node
        BY <3>5 DEF Entered
      <4>2. LeadsTo(h, x)
        BY <1>1, <1>2, <4>1 DEF Searching
      <4> QED
        BY <1>8, <2>2, <4>2
    <3> QED
      BY <3>3, <3>4, <3>5 DEF Searching
  <2> QED
    BY <1>7, <2>1, <2>2
<1>14. OrderOK'
  <2>1. globalVars' \in Seq(Globals') /\ mod' = mod
    BY <1>5, <1>8
  <2>2. \A k \in DOMAIN globalVars' : \A h \in Range(mod.initializer[globalVars'[k]]) :
          LeadsTo(h, globalVars'[k]) \/ \E j \in 1..(k - 1) : globalVars'[j] = h
    BY <1>8, <1>13
  <2> QED
    BY <1>12, <2>1, <2>2 DEF OrderOK, LeadsTo
<1> QED
  BY <1>11, <1>14

\* When the loop ends every global is finished.
LEMMA SearchEnd ==
  ASSUME InputOK, OrderOK, Searching, UNCHANGED mod,
         NEW i, i = Last(stack).i, Last(stack).node = Loop, i > Len(Operands(Loop)), Return
  PROVE  stack' = <<>> /\ Range(globalVars) = Globals
<1>1. Len(stack) = 1 /\ i \in Nat /\ \A p \in DOMAIN Operands(Loop) : p < i => Operands(Loop)[p] \in visited
  BY TopCall
<1>2. stack' = <<>>
  BY <1>1, ReturnIs DEF Searching
<1>3. visited = Range(globalVars)
  <2>1. 2..Len(stack) = {}
    BY <1>1
  <2>2. Entered = {}
    BY <2>1 DEF Entered
  <2> QED
    BY <2>2 DEF Searching
<1>4. Operands(Loop) = mod.globals /\ mod.globals \in Seq(Globals)
  BY DEF Operands, Searching, InputOK
<1>5. \A p \in DOMAIN mod.globals : mod.globals[p] \in visited
  BY <1>1, <1>4
<1> QED
  BY <1>2, <1>3, <1>5 DEF Globals, Range, OrderOK

-----------------------------------------------------------------------------
(* What the writer leaves out. *)

Skipped(g) == useIncludes /\ g = "stdout"

\* d are the first n globals but for the skipped ones, in their order.
Selected(d, n) ==
  /\ d \in Seq(Globals) /\ IsInjective(d)
  /\ \A q \in 1..n : ~Skipped(globalVars[q]) => \E k \in DOMAIN d : d[k] = globalVars[q]
  /\ \A k \in DOMAIN d : \E p \in 1..n :
       /\ d[k] = globalVars[p] /\ ~Skipped(globalVars[p])
       /\ \A q \in 1..(p - 1) : ~Skipped(globalVars[q]) =>
            \E j \in 1..(k - 1) : d[j] = globalVars[q]

IsDefined(D, k) ==
  D = [n \in 0..k |-> IF n = 0 THEN <<>>
                      ELSE IF useIncludes /\ globalVars[n] = "stdout" THEN D[n - 1]
                      ELSE Append(D[n - 1], globalVars[n])]

LEMMA DefinedExists ==
  ASSUME NEW k \in Nat
  PROVE  \E D : IsDefined(D, k)
<1> DEFINE T == {n \in Nat : \E D : IsDefined(D, n)}
           Next(n, d) == IF useIncludes /\ globalVars[n] = "stdout" THEN d
                         ELSE Append(d, globalVars[n])
<1>1. 0 \in T
  <2> DEFINE D == [n \in 0..0 |-> <<>>]
  <2>1. IsDefined(D, 0)
    BY DEF IsDefined
  <2> HIDE DEF D
  <2> QED
    BY <2>1
<1>2. ASSUME NEW n \in T
      PROVE  n + 1 \in T
  <2>1. PICK R : IsDefined(R, n)
    OBVIOUS
  <2> DEFINE Q == [i \in 0..n+1 |-> IF i = n + 1 THEN Next(n + 1, R[n]) ELSE R[i]]
  <2>2. \A i \in 0..n : R[i] = IF i = 0 THEN <<>> ELSE Next(i, R[i - 1])
    BY <2>1 DEF IsDefined
  <2>3. ASSUME NEW i \in 0..n+1
        PROVE  Q[i] = IF i = 0 THEN <<>> ELSE Next(i, Q[i - 1])
    <3>1. CASE i = n + 1
      <4>1. Q[i] = Next(i, R[n]) /\ Q[i - 1] = R[n]
        BY <3>1
      <4> QED
        BY <3>1, <4>1
    <3>2. CASE i \in 0..n
      <4>1. Q[i] = R[i] /\ (i # 0 => Q[i - 1] = R[i - 1])
        BY <3>2
      <4> QED
        BY <2>2, <3>2, <4>1
    <3> QED
      BY <3>1, <3>2
  <2>4. IsDefined(Q, n + 1)
    <3>1. Q = [i \in 0..n+1 |-> Q[i]]
      OBVIOUS
    <3> HIDE DEF Q
    <3> QED
      BY <2>3, <3>1 DEF IsDefined
  <2> HIDE DEF Q
  <2> QED
    BY <2>4
<1> HIDE DEF T
<1>3. Nat \subseteq T
  BY <1>1, <1>2, SetInduction
<1> QED
  BY <1>3 DEF T

LEMMA DefinedGlobalsAre ==
  ASSUME OrderOK
  PROVE  Selected(DefinedGlobals, Len(globalVars))
<1> DEFINE N == Len(globalVars)
           D == CHOOSE R : IsDefined(R, N)
<1>1. N \in Nat /\ globalVars \in [1..N -> Globals] /\ IsInjective(globalVars)
  BY DEF OrderOK
<1>2. IsDefined(D, N)
  BY <1>1, DefinedExists
<1>3. DefinedGlobals = D[N]
  BY DEF DefinedGlobals, IsDefined
<1> HIDE DEF D, N
<1> DEFINE T == {n \in Nat : n <= N => Selected(D[n], n)}
<1>4. 0 \in T
  <2>1. D[0] = <<>>
    BY <1>1, <1>2 DEF IsDefined
  <2>2. <<>> \in Seq(Globals) /\ DOMAIN <<>> = {} /\ 1..0 = {}
    OBVIOUS
  <2>3. Selected(<<>>, 0)
    BY <2>2 DEF Selected, IsInjective
  <2> QED
    BY <2>1, <2>3
<1>5. ASSUME NEW n \in T
      PROVE  n + 1 \in T
  <2> SUFFICES ASSUME n + 1 <= N PROVE Selected(D[n + 1], n + 1)
    OBVIOUS
  <2> DEFINE x == globalVars[n + 1]
             d == D[n]
  <2>1. n \in Nat /\ n + 1 \in 1..N /\ x \in Globals /\ Selected(d, n)
    BY <1>1
  <2>2. D[n + 1] = IF Skipped(x) THEN d ELSE Append(d, x)
    <3>1. n + 1 \in 0..N /\ n + 1 # 0 /\ (n + 1) - 1 = n
      BY <2>1
    <3> QED
      BY <1>2, <3>1 DEF IsDefined, Skipped
  <2>3. \A p \in 1..n : p \in 1..N /\ globalVars[p] # x
    BY <1>1, <2>1 DEF IsInjective
  <2> HIDE DEF d, x
  <2>4. CASE Skipped(x)
    BY <2>1, <2>2, <2>4 DEF Selected, x
  <2>5. CASE ~Skipped(x)
    <3> DEFINE e == Append(d, x)
               l == Len(d)
    <3>1. /\ d \in Seq(Globals) /\ l \in Nat /\ e \in Seq(Globals) /\ DOMAIN d = 1..l
          /\ DOMAIN e = 1..l + 1 /\ e[l + 1] = x /\ \A k \in 1..l : e[k] = d[k]
      BY <2>1 DEF Selected
    <3>2. ASSUME NEW k \in 1..l PROVE d[k] # x
      <4>1. PICK p \in 1..n : d[k] = globalVars[p]
        BY <2>1, <3>1 DEF Selected
      <4> QED
        BY <2>3, <4>1
    <3> HIDE DEF e, l
    <3>3. IsInjective(e)
      <4> SUFFICES ASSUME NEW a \in 1..l + 1, NEW b \in 1..l + 1, e[a] = e[b] PROVE a = b
        BY <3>1 DEF IsInjective
      <4>1. CASE a \in 1..l /\ b \in 1..l
        <5>1. IsInjective(d) /\ d[a] = d[b] /\ a \in DOMAIN d /\ b \in DOMAIN d
          BY <2>1, <3>1, <4>1 DEF Selected
        <5> QED
          BY <5>1 DEF IsInjective
      <4>2. \A m \in 1..l + 1 : m \in 1..l \/ m = l + 1
        BY <3>1
      <4>3. \A k \in 1..l : e[k] # x
        BY <3>1, <3>2
      <4> QED
        BY <3>1, <4>1, <4>2, <4>3
    <3>4. ASSUME NEW q \in 1..n + 1, ~Skipped(globalVars[q])
          PROVE  \E k \in DOMAIN e : e[k] = globalVars[q]
      <4>1. CASE q \in 1..n
        <5>1. PICK k \in 1..l : d[k] = globalVars[q]
          BY <2>1, <3>1, <3>4, <4>1 DEF Selected
        <5>2. k \in 1..l + 1 /\ e[k] = d[k]
          BY <3>1
        <5> QED
          BY <3>1, <5>1, <5>2
      <4>2. CASE q = n + 1
        <5>1. l + 1 \in 1..l + 1
          BY <3>1
        <5> QED
          BY <3>1, <4>2, <5>1 DEF x
      <4> QED
        BY <2>1, <4>1, <4>2
    <3>5. ASSUME NEW k \in 1..l + 1
          PROVE  \E p \in 1..n + 1 :
                   /\ e[k] = globalVars[p] /\ ~Skipped(globalVars[p])
                   /\ \A q \in 1..(p - 1) : ~Skipped(globalVars[q]) =>
                        \E j \in 1..(k - 1) : e[j] = globalVars[q]
      <4>1. CASE k \in 1..l
        <5>1. PICK p \in 1..n :
                   /\ d[k] = globalVars[p] /\ ~Skipped(globalVars[p])
                   /\ \A q \in 1..(p - 1) : ~Skipped(globalVars[q]) =>
                        \E j \in 1..(k - 1) : d[j] = globalVars[q]
          BY <2>1, <3>1, <4>1 DEF Selected
        <5>2. p \in 1..n + 1 /\ e[k] = d[k] /\ \A j \in 1..(k - 1) : e[j] = d[j]
          BY <2>1, <3>1, <4>1
        <5> QED
          BY <5>1, <5>2
      <4>2. CASE k = l + 1
        <5>1. n + 1 \in 1..n + 1 /\ e[k] = globalVars[n + 1] /\ (n + 1) - 1 = n /\ k - 1 = l
          BY <2>1, <3>1, <4>2 DEF x
        <5>2. \A q \in 1..n : ~Skipped(globalVars[q]) => \E j \in 1..l : e[j] = globalVars[q]
          BY <2>1, <3>1 DEF Selected
        <5> QED
          BY <2>5, <5>1, <5>2 DEF x
      <4> QED
        BY <3>1, <4>1, <4>2
    <3>6. Selected(e, n + 1)
      BY <3>1, <3>3, <3>4, <3>5 DEF Selected
    <3> QED
      BY <2>2, <2>5, <3>6 DEF e
  <2> QED
    BY <2>4, <2>5
<1> HIDE DEF T
<1>6. Nat \subseteq T
  BY <1>4, <1>5, SetInduction
<1> QED
  BY <1>1, <1>3, <1>6 DEF T, N

-----------------------------------------------------------------------------
(* The types of the debug information. *)

\* The calls of fixType: each struct is entered once.
Fixing ==
  /\ stack \in Seq(Calls) /\ stack # <<>> /\ roots = mod.debug
  /\ stack[1].node = Loop
  /\ \A m \in DOMAIN stack : stack[m].i >= 1
  /\ \A m \in 2..Len(stack) :
       /\ stack[m].node \in Types
       /\ IsStruct(stack[m].node) => stack[m].node \in DOMAIN mod.debugItems
       /\ Is(stack[m].node, "struct") => stack[m].node \in visited
  /\ \A m, n \in 2..Len(stack) :
       m < n /\ stack[m].node = stack[n].node => ~Is(stack[m].node, "struct")

LEMMA PartsType ==
  ASSUME InputOK, roots = mod.debug, NEW t, t = Loop \/ t \in Types,
         t \in Types /\ IsStruct(t) => t \in DOMAIN mod.debugItems
  PROVE  Parts(t) \in Seq(Types)
<1>1. CASE t = Loop
  BY <1>1 DEF Parts, InputOK
<1>2. CASE t # Loop /\ t[1] \in {"struct", "union"}
  <2>1. t \in DOMAIN mod.debugItems /\ mod.debugItems[t] \in Seq(Types)
    BY <1>2 DEF InputOK, IsStruct
  <2>2. Parts(t) = mod.debugItems[t]
    BY <1>2 DEF Parts, Is
  <2> QED
    BY <2>1, <2>2
<1>3. CASE t # Loop /\ t[1] \in {"pointer", "array", "vla"}
  <2>1. t[2] \in Types
    BY <1>3, TypesAssumption DEF Is, IsFunction
  <2>2. Parts(t) = <<t[2]>>
    BY <1>3 DEF Parts, Is
  <2> QED
    BY <2>1, <2>2
<1>4. CASE t # Loop /\ t[1] = "debug function"
  <2>1. t[2] \in Seq(Types) /\ t[3] \in Types
    BY <1>4, TypesAssumption DEF Is, IsFunction
  <2>2. Parts(t) = <<t[3]>> \o t[2]
    BY <1>4 DEF Parts, Is
  <2> QED
    BY <2>1, <2>2
<1>5. CASE t # Loop /\ t[1] \notin {"struct", "union", "pointer", "array", "vla", "debug function"}
  <2>1. Parts(t) = <<>>
    BY <1>5 DEF Parts, Is
  <2> QED
    BY <2>1
<1> QED
  BY <1>1, <1>2, <1>3, <1>4, <1>5

LEMMA TopFix ==
  ASSUME InputOK, Fixing
  PROVE  /\ Len(stack) \in Nat /\ Len(stack) \in DOMAIN stack
         /\ Last(stack) = stack[Len(stack)] /\ Last(stack).i \in Nat /\ Last(stack).i >= 1
         /\ Last(stack).node # Loop <=> Len(stack) \in 2..Len(stack)
         /\ Parts(Last(stack).node) \in Seq(Types)
<1>1. /\ Len(stack) \in Nat /\ Len(stack) \in DOMAIN stack /\ Len(stack) >= 1
      /\ Last(stack) = stack[Len(stack)] /\ Last(stack) \in Calls /\ Last(stack).i >= 1
  BY DEF Fixing, Last
<1>2. Last(stack).i \in Nat
  BY <1>1 DEF Calls
<1>3. \A n \in Nat : n >= 1 /\ n # 1 => n \in 2..n
  OBVIOUS
<1>4. CASE Len(stack) = 1
  <2>1. Last(stack).node = Loop /\ Len(stack) \notin 2..Len(stack)
    BY <1>1, <1>4 DEF Fixing
  <2>2. Parts(Last(stack).node) \in Seq(Types)
    BY <2>1, PartsType DEF Fixing, InputOK
  <2> QED
    BY <1>1, <1>2, <2>1, <2>2
<1>5. CASE Len(stack) # 1
  <2>1. Len(stack) \in 2..Len(stack)
    BY <1>1, <1>3, <1>5
  <2>2. Last(stack).node \in Types /\ Last(stack).node # Loop
        /\ (IsStruct(Last(stack).node) => Last(stack).node \in DOMAIN mod.debugItems)
    BY <1>1, <2>1 DEF Fixing, InputOK
  <2>3. Parts(Last(stack).node) \in Seq(Types)
    BY <2>2, PartsType DEF Fixing
  <2> QED
    BY <1>1, <1>2, <2>1, <2>2, <2>3
<1> QED
  BY <1>4, <1>5

LEMMA FixPush ==
  ASSUME InputOK, Fixing, UNCHANGED <<mod, roots>>, NEW n \in Types, ~Known(n), Push(n),
         visited' = visited \cup {s \in {n} : Is(s, "struct")}
  PROVE  Fixing'
<1> DEFINE L == Len(stack)
<1>1. L \in Nat /\ L \in DOMAIN stack /\ stack \in Seq(Calls)
  BY TopFix DEF Fixing
<1>2. /\ stack' \in Seq(Calls') /\ Len(stack') = L + 1
      /\ stack'[L + 1].node = n /\ stack'[L + 1].i = 1
      /\ \A m \in 1..L : /\ stack'[m].node = stack[m].node
                         /\ stack'[m].i = IF m = L THEN stack[m].i + 1 ELSE stack[m].i
  BY <1>1, PushIs DEF Fixing, Nodes
<1>3. n \notin visited /\ (IsStruct(n) => n \in DOMAIN mod.debugItems)
  BY DEF Known
<1>4. ASSUME NEW m \in 1..L PROVE stack[m].i \in Nat
  <2>1. stack[m] \in Calls
    BY <1>1
  <2> QED
    BY <2>1 DEF Calls
<1>5. stack' # <<>> /\ DOMAIN stack' = 1..L + 1 /\ stack'[1].node = Loop
  BY <1>1, <1>2 DEF Fixing
<1>6. ASSUME NEW m \in 1..L + 1 PROVE stack'[m].i >= 1
  BY <1>1, <1>2, <1>4 DEF Fixing
<1>7. ASSUME NEW m \in 2..L + 1
      PROVE  /\ stack'[m].node \in Types
             /\ IsStruct(stack'[m].node) => stack'[m].node \in DOMAIN mod.debugItems
             /\ Is(stack'[m].node, "struct") => stack'[m].node \in visited'
  <2>1. CASE m \in 2..L
    BY <1>1, <1>2, <2>1 DEF Fixing
  <2>2. CASE m = L + 1
    BY <1>2, <1>3, <2>2
  <2> QED
    BY <1>1, <2>1, <2>2
<1>8. ASSUME NEW m \in 2..L + 1, NEW k \in 2..L + 1, m < k, stack'[m].node = stack'[k].node
      PROVE  ~Is(stack'[m].node, "struct")
  <2>1. m \in 2..L /\ stack'[m].node = stack[m].node
    BY <1>1, <1>2, <1>8
  <2>2. CASE k \in 2..L
    <3>1. k \in 1..L
      BY <1>1, <2>2
    <3>2. stack'[k].node = stack[k].node
      BY <1>2, <3>1
    <3> QED
      BY <1>8, <2>1, <2>2, <3>2 DEF Fixing
  <2>3. CASE k = L + 1
    <3>1. stack[m].node = n /\ m \in 2..Len(stack)
      BY <1>2, <1>8, <2>1, <2>3
    <3> QED
      BY <1>3, <2>1, <3>1 DEF Fixing
  <2> QED
    BY <1>1, <2>2, <2>3
<1> HIDE DEF L
<1> QED
  BY <1>2, <1>5, <1>6, <1>7, <1>8 DEF Fixing

LEMMA FixAdvance ==
  ASSUME InputOK, Fixing, UNCHANGED <<mod, roots, visited>>, Advance
  PROVE  Fixing'
<1> DEFINE L == Len(stack)
<1>1. L \in Nat /\ L \in DOMAIN stack /\ stack \in Seq(Calls)
  BY TopFix DEF Fixing
<1>2. /\ stack' \in Seq(Calls') /\ Len(stack') = L
      /\ \A m \in 1..L : /\ stack'[m].node = stack[m].node
                         /\ stack'[m].i = IF m = L THEN stack[m].i + 1 ELSE stack[m].i
  BY <1>1, AdvanceIs DEF Fixing
<1>4. ASSUME NEW m \in 1..L PROVE stack[m].i \in Nat
  <2>1. stack[m] \in Calls
    BY <1>1
  <2> QED
    BY <2>1 DEF Calls
<1>5. stack' # <<>> /\ DOMAIN stack' = 1..L /\ stack'[1].node = Loop
  BY <1>1, <1>2 DEF Fixing
<1>6. ASSUME NEW m \in 1..L PROVE stack'[m].i >= 1
  BY <1>1, <1>2, <1>4 DEF Fixing
<1>7. \A m \in 2..L : m \in 1..L /\ stack'[m].node = stack[m].node
  BY <1>1, <1>2
<1> HIDE DEF L
<1> QED
  BY <1>2, <1>5, <1>6, <1>7 DEF Fixing, L

LEMMA FixReturn ==
  ASSUME InputOK, Fixing, UNCHANGED <<mod, roots, visited>>, Last(stack).node # Loop, Return
  PROVE  Fixing'
<1> DEFINE L == Len(stack)
<1>1. L \in Nat /\ L \in 2..L /\ stack \in Seq(Calls)
  BY TopFix DEF Fixing
<1>2. /\ stack' \in Seq(Calls') /\ Len(stack') = L - 1
      /\ \A m \in 1..(L - 1) : stack'[m] = stack[m]
  BY <1>1, ReturnIs DEF Fixing
<1>3. stack' # <<>> /\ DOMAIN stack' = 1..(L - 1) /\ stack'[1].node = Loop
  BY <1>1, <1>2 DEF Fixing
<1>4. \A m \in 1..(L - 1) : m \in DOMAIN stack /\ stack'[m] = stack[m]
  BY <1>1, <1>2
<1>5. \A m \in 2..(L - 1) : m \in 2..L /\ stack'[m] = stack[m]
  BY <1>1, <1>2
<1> HIDE DEF L
<1> QED
  BY <1>2, <1>3, <1>4, <1>5 DEF Fixing, L

-----------------------------------------------------------------------------
(* The invariant. *)

BeforeOrder ==
  {"determineIncludes", "parseStructDeclarations", "parseStructItems", "findDeclaredFunctions"}
BehindOrder == {"nameFunctions", "initializeGlobalVars", "createExpressions"}
Fixes == {"parseMetadataTypes", "crash"}
WritesBefore ==
  {"includes", "structDeclarations", "typedefs", "structDefinitions", "functionDeclarations",
   "intrinsics", "globals"}
WritesBehind == {"functions", "end"}

Idle == stack = <<>> /\ visited = {}

PhaseOK ==
  \/ pass \in BeforeOrder /\ Idle /\ globalVars = <<>>
  \/ pass = "computeGlobalVarsOrder" /\ ((Idle /\ globalVars = <<>>) \/ Searching)
  \/ /\ Range(globalVars) = Globals
     /\ \/ pass \in BehindOrder /\ Idle
        \/ pass \in Fixes /\ (Idle \/ Fixing)
        \/ pass \in WritesBefore \cup WritesBehind

ValuesOK == \A g \in DOMAIN values : g \in Globals /\ values[g] \subseteq Range(mod.initializer[g])

WrittenOK ==
  /\ DOMAIN written = Sections
  /\ IF pass \in WritesBehind THEN Selected(written["global"], Len(globalVars))
     ELSE written["global"] = <<>>

DEInv == InputOK /\ OrderOK /\ PhaseOK /\ ValuesOK /\ WrittenOK

LEMMA DEInvInit == DEInit => DEInv
<1> SUFFICES ASSUME DEInit PROVE DEInv
  OBVIOUS
<1>1. PICK in \in Inputs : mod = in.mod
  BY DEF DEInit
<1>2. InputOK
  <2>1. /\ mod.globals \in Seq(Globals) /\ IsInjective(mod.globals)
        /\ mod.initializer \in [Globals -> Seq(Globals)]
        /\ mod.debug \in Seq({t \in Types : IsDebug[t]})
        /\ mod.debugItems \in [DOMAIN mod.debugItems -> Seq({t \in Types : IsDebug[t]})]
        /\ Loop \notin Globals /\ Loop \notin Types
    BY <1>1, InputsAssumption DEF Globals, ModuleOK
  <2>2. \A q \in Seq({t \in Types : IsDebug[t]}) : q \in Seq(Types)
    OBVIOUS
  <2>3. mod.debug \in Seq(Types) /\ mod.debugItems \in [DOMAIN mod.debugItems -> Seq(Types)]
    BY <2>1, <2>2
  <2> QED
    BY <2>1, <2>3 DEF InputOK
<1>3. OrderOK
  BY DEF DEInit, OrderOK, IsInjective
<1>4. PhaseOK
  BY DEF DEInit, PhaseOK, BeforeOrder, Idle
<1>5. ValuesOK
  BY DEF DEInit, ValuesOK
<1>6. WrittenOK
  BY DEF DEInit, WrittenOK, Sections, WritesBehind
<1> QED
  BY <1>2, <1>3, <1>4, <1>5, <1>6 DEF DEInv

\* What does not change with the module and its globals.
LEMMA Kept ==
  ASSUME DEInv, UNCHANGED <<mod, useIncludes, globalVars>>
  PROVE  /\ InputOK' /\ OrderOK'
         /\ Globals' = Globals
         /\ UNCHANGED values => ValuesOK'
         /\ \A d, n : Selected(d, n)' <=> Selected(d, n)
<1>1. InputOK' /\ OrderOK' /\ Globals' = Globals
  BY SearchUnchanged DEF DEInv
<1>2. UNCHANGED values => ValuesOK'
  BY <1>1 DEF DEInv, ValuesOK
<1>3. \A d, n : Selected(d, n)' <=> Selected(d, n)
  BY <1>1 DEF Selected, Skipped
<1> QED
  BY <1>1, <1>2, <1>3

\* A pass that neither orders the globals nor writes.
LEMMA QuietStep ==
  ASSUME DEInv, UNCHANGED <<mod, useIncludes, globalVars, stack, visited, written>>,
         ValuesOK',
         \/ pass \in BeforeOrder /\ pass' \in BeforeOrder \cup {"computeGlobalVarsOrder"}
         \/ pass \in BehindOrder /\ pass' \in BehindOrder \cup {"parseMetadataTypes", "includes"}
  PROVE  DEInv'
<1>1. InputOK' /\ OrderOK' /\ Globals' = Globals
  BY Kept
<1>2. PhaseOK'
  BY <1>1 DEF DEInv, PhaseOK, Idle, BeforeOrder, BehindOrder, Fixes, WritesBefore, WritesBehind
<1>3. WrittenOK'
  BY DEF DEInv, WrittenOK, WritesBehind, BeforeOrder, BehindOrder
<1> QED
  BY <1>1, <1>2, <1>3 DEF DEInv

\* The writer, and the recursion over structs.
LEMMA WriteStep ==
  ASSUME DEInv, UNCHANGED <<mod, useIncludes, globalVars, values>>,
         pass \in WritesBefore \cup WritesBehind, pass' \in WritesBefore \cup WritesBehind,
         WrittenOK'
  PROVE  DEInv'
<1>1. InputOK' /\ OrderOK' /\ Globals' = Globals /\ ValuesOK'
  BY Kept
<1>2. PhaseOK'
  BY <1>1 DEF DEInv, PhaseOK, BeforeOrder, BehindOrder, Fixes, WritesBefore, WritesBehind
<1> QED
  BY <1>1, <1>2 DEF DEInv

LEMMA OtherSection ==
  ASSUME DEInv, UNCHANGED <<mod, useIncludes, globalVars>>, NEW section \in Sections \ {"global"},
         NEW text, written' = [written EXCEPT ![section] = text],
         pass' \in WritesBehind <=> pass \in WritesBehind
  PROVE  WrittenOK'
<1>1. DOMAIN written' = Sections /\ written'["global"] = written["global"]
  BY DEF DEInv, WrittenOK, Sections
<1>2. \A d, n : Selected(d, n)' <=> Selected(d, n)
  BY Kept
<1> QED
  BY <1>1, <1>2 DEF DEInv, WrittenOK

LEMMA SameSections ==
  ASSUME DEInv, UNCHANGED <<mod, useIncludes, globalVars, written>>,
         pass' \in WritesBehind <=> pass \in WritesBehind
  PROVE  WrittenOK'
<1>1. \A d, n : Selected(d, n)' <=> Selected(d, n)
  BY Kept
<1> QED
  BY <1>1 DEF DEInv, WrittenOK

LEMMA GlobalsWritten ==
  ASSUME DEInv, WriteGlobalVarDefinitions
  PROVE  DEInv'
<1>1. /\ pass = "globals" /\ pass' = "functions"
      /\ written' = [written EXCEPT !["global"] = @ \o DefinedGlobals]
      /\ UNCHANGED <<mod, useIncludes, globalVars, values>>
  BY DEF WriteGlobalVarDefinitions, Write, collected
<1>2. Selected(DefinedGlobals, Len(globalVars))
  BY DefinedGlobalsAre DEF DEInv
<1>3. DOMAIN written = Sections /\ written["global"] = <<>>
  BY <1>1 DEF DEInv, WrittenOK, WritesBehind
<1>4. <<>> \o DefinedGlobals = DefinedGlobals
  <2>1. DefinedGlobals \in Seq(Globals)
    BY <1>2 DEF Selected
  <2> HIDE DEF DefinedGlobals
  <2> QED
    BY <2>1
<1>5. DOMAIN written' = Sections /\ written'["global"] = DefinedGlobals
  BY <1>1, <1>3, <1>4 DEF Sections
<1>6. WrittenOK'
  <2>1. \A d, n : Selected(d, n)' <=> Selected(d, n)
    BY <1>1, Kept
  <2> QED
    BY <1>1, <1>2, <1>5, <2>1 DEF WrittenOK, WritesBehind
<1> QED
  BY <1>1, <1>6, WriteStep DEF WritesBefore, WritesBehind

LEMMA TopoStep ==
  ASSUME DEInv, ComputeTopo
  PROVE  DEInv'
<1> DEFINE x == Last(stack).node
           i == Last(stack).i
<1>1. /\ pass = "computeGlobalVarsOrder" /\ stack # <<>>
      /\ UNCHANGED <<mod, useIncludes, values, roots, written>>
  BY DEF ComputeTopo
<1>2. InputOK /\ OrderOK /\ Searching
  BY <1>1 DEF DEInv, PhaseOK, Idle, BeforeOrder, BehindOrder, Fixes, WritesBefore, WritesBehind
<1>3. InputOK' /\ Globals' = Globals /\ ValuesOK'
  <2>1. InputOK' /\ Globals' = Globals
    BY <1>1, <1>2, SearchUnchanged
  <2> QED
    BY <1>1, <2>1 DEF DEInv, ValuesOK
<1>4. i \in Nat /\ i >= 1 /\ Operands(x) \in Seq(Globals)
  BY <1>2, TopCall
<1>5. CASE /\ i <= Len(Operands(x)) /\ Operands(x)[i] \notin visited
           /\ visited' = visited \cup {Operands(x)[i]} /\ Push(Operands(x)[i])
           /\ UNCHANGED <<globalVars, pass>>
  <2>1. i \in DOMAIN Operands(x)
    BY <1>4, <1>5
  <2>2. Searching'
    BY <1>1, <1>2, <1>5, <2>1, SearchPush
  <2>3. OrderOK'
    BY <1>1, <1>2, <1>5, SearchUnchanged
  <2>4. WrittenOK'
    BY <1>1, <1>5, SameSections
  <2> QED
    BY <1>1, <1>3, <1>5, <2>2, <2>3, <2>4 DEF DEInv, PhaseOK
<1>6. CASE /\ i <= Len(Operands(x)) /\ Operands(x)[i] \in visited
           /\ Advance /\ UNCHANGED <<visited, globalVars, pass>>
  <2>1. i \in DOMAIN Operands(x)
    BY <1>4, <1>6
  <2>2. Searching'
    BY <1>1, <1>2, <1>6, <2>1, SearchAdvance
  <2>3. OrderOK'
    BY <1>1, <1>2, <1>6, SearchUnchanged
  <2>4. WrittenOK'
    BY <1>1, <1>6, SameSections
  <2> QED
    BY <1>1, <1>3, <1>6, <2>2, <2>3, <2>4 DEF DEInv, PhaseOK
<1>7. CASE /\ i > Len(Operands(x)) /\ x # Loop
           /\ globalVars' = Append(globalVars, x) /\ Return
           /\ UNCHANGED <<visited, pass>>
  <2>1. Searching' /\ OrderOK'
    BY <1>1, <1>2, <1>7, SearchFinish
  <2>2. WrittenOK'
    BY <1>1, <1>7 DEF DEInv, WrittenOK, WritesBehind
  <2> QED
    BY <1>1, <1>3, <1>7, <2>1, <2>2 DEF DEInv, PhaseOK
<1>8. CASE /\ i > Len(Operands(x)) /\ x = Loop
           /\ visited' = {} /\ Return /\ pass' = "nameFunctions"
           /\ UNCHANGED globalVars
  <2>1. stack' = <<>> /\ Range(globalVars) = Globals
    BY <1>1, <1>2, <1>8, SearchEnd
  <2>2. OrderOK'
    BY <1>1, <1>2, <1>8, SearchUnchanged
  <2>3. WrittenOK'
    BY <1>1, <1>8 DEF DEInv, WrittenOK, WritesBehind
  <2>4. PhaseOK'
    BY <1>3, <1>8, <2>1 DEF PhaseOK, Idle, BehindOrder
  <2> QED
    BY <1>3, <2>2, <2>3, <2>4 DEF DEInv
<1> QED
  BY <1>5, <1>6, <1>7, <1>8 DEF ComputeTopo

LEMMA FixStep ==
  ASSUME DEInv, FixType
  PROVE  DEInv'
<1> DEFINE t == Last(stack).node
           i == Last(stack).i
<1>1. /\ pass = "parseMetadataTypes" /\ stack # <<>>
      /\ UNCHANGED <<mod, useIncludes, globalVars, values, roots, written>>
  BY DEF FixType
<1>2. InputOK /\ Fixing /\ Range(globalVars) = Globals
  BY <1>1 DEF DEInv, PhaseOK, Idle, BeforeOrder, BehindOrder, Fixes, WritesBefore, WritesBehind
<1>3. InputOK' /\ OrderOK' /\ Globals' = Globals /\ ValuesOK'
  BY <1>1, Kept
<1>4. i \in Nat /\ i >= 1 /\ Parts(t) \in Seq(Types)
  BY <1>2, TopFix
<1>5. pass' \in Fixes \cup {"includes"} => WrittenOK'
  <2>1. pass' \in Fixes \cup {"includes"} => (pass' \in WritesBehind <=> pass \in WritesBehind)
    BY <1>1 DEF Fixes, WritesBehind
  <2> QED
    BY <1>1, <2>1, SameSections
<1>6. ASSUME Fixing', pass' \in Fixes
      PROVE  DEInv'
  <2>1. PhaseOK'
    BY <1>1, <1>2, <1>3, <1>6 DEF PhaseOK
  <2> QED
    BY <1>3, <1>5, <1>6, <2>1 DEF DEInv
<1>7. CASE Advance /\ UNCHANGED <<visited, pass>>
  BY <1>1, <1>2, <1>6, <1>7, FixAdvance DEF Fixes
<1>8. CASE /\ i <= Len(Parts(t)) /\ ~Known(Parts(t)[i]) /\ Push(Parts(t)[i])
           /\ visited' = visited \cup {s \in {Parts(t)[i]} : Is(s, "struct")}
           /\ UNCHANGED pass
  <2>1. Parts(t)[i] \in Types
    BY <1>4, <1>8
  <2>2. Fixing'
    BY <1>1, <1>2, <1>8, <2>1, FixPush
  <2> QED
    BY <1>1, <1>6, <1>8, <2>2 DEF Fixes
<1>9. CASE t # Loop /\ Make(t) /\ Return /\ UNCHANGED visited
  <2>1. pass' \in Fixes
    BY <1>1, <1>9 DEF Make, Fixes
  <2> QED
    BY <1>1, <1>2, <1>6, <1>9, <2>1, FixReturn
<1>10. CASE Return /\ visited' = {} /\ pass' = "includes"
  <2>1. PhaseOK'
    BY <1>1, <1>2, <1>3, <1>10 DEF PhaseOK, WritesBefore
  <2> QED
    BY <1>3, <1>5, <1>10, <2>1 DEF DEInv
<1> QED
  BY <1>7, <1>8, <1>9, <1>10 DEF FixType

LEMMA FirstCall ==
  ASSUME stack' = <<Call(Loop)>>
  PROVE  /\ stack' \in Seq(Calls') /\ stack' # <<>> /\ Len(stack') = 1 /\ DOMAIN stack' = {1}
         /\ stack'[1].node = Loop /\ stack'[1].i = 1 /\ 2..Len(stack') = {}
<1>1. Call(Loop) \in Calls' /\ Call(Loop).node = Loop /\ Call(Loop).i = 1
  BY DEF Call, Calls, Nodes
<1> QED
  BY <1>1

LEMMA StartGlobalsStep ==
  ASSUME DEInv, StartGlobals
  PROVE  DEInv'
<1>1. /\ pass = "computeGlobalVarsOrder" /\ stack = <<>>
      /\ roots' = mod.globals /\ stack' = <<Call(Loop)>>
      /\ UNCHANGED <<mod, useIncludes, pass, globalVars, values, visited, written>>
  BY DEF StartGlobals, collected
<1>2. globalVars = <<>> /\ visited = {}
  BY <1>1 DEF DEInv, PhaseOK, Idle, Searching, BeforeOrder, BehindOrder, Fixes, WritesBefore,
              WritesBehind
<1>3. InputOK' /\ OrderOK' /\ ValuesOK' /\ WrittenOK'
  BY <1>1, Kept, SameSections
<1>4. Searching'
  <2>1. /\ stack' \in Seq(Calls') /\ stack' # <<>> /\ Len(stack') = 1 /\ DOMAIN stack' = {1}
        /\ stack'[1].node = Loop /\ stack'[1].i = 1 /\ 2..Len(stack') = {}
    BY <1>1, FirstCall
  <2>2. Entered' = {}
    BY <2>1 DEF Entered
  <2>3. Range(globalVars') = {} /\ visited' = {}
    BY <1>1, <1>2 DEF Range
  <2>4. \A p \in DOMAIN mod.globals : ~(p < 1)
    BY DEF DEInv, InputOK
  <2>5. \A m \in DOMAIN stack' :
          /\ stack'[m].i >= 1
          /\ \A p \in DOMAIN Operands(stack[m].node)' :
               p < stack'[m].i => Operands(stack[m].node)'[p] \in visited'
    BY <1>1, <2>1, <2>4 DEF Operands
  <2> QED
    BY <1>1, <2>1, <2>2, <2>3, <2>5 DEF Searching
<1>5. PhaseOK'
  BY <1>1, <1>4 DEF PhaseOK
<1> QED
  BY <1>3, <1>5 DEF DEInv

LEMMA StartDebugStep ==
  ASSUME DEInv, StartDebugTypes
  PROVE  DEInv'
<1>1. /\ pass = "parseMetadataTypes" /\ roots' = mod.debug /\ stack' = <<Call(Loop)>>
      /\ UNCHANGED <<mod, useIncludes, pass, globalVars, values, visited, written>>
  BY DEF StartDebugTypes, collected
<1>2. Range(globalVars) = Globals
  BY <1>1 DEF DEInv, PhaseOK, BeforeOrder, BehindOrder, WritesBefore, WritesBehind
<1>3. InputOK' /\ OrderOK' /\ ValuesOK' /\ WrittenOK' /\ Globals' = Globals
  BY <1>1, Kept, SameSections
<1>4. Fixing'
  BY <1>1, FirstCall DEF Fixing
<1>5. PhaseOK'
  BY <1>1, <1>2, <1>3, <1>4 DEF PhaseOK, Fixes
<1> QED
  BY <1>3, <1>5 DEF DEInv

LEMMA StructStep ==
  ASSUME DEInv, StructDefinition
  PROVE  DEInv'
<1>1. /\ pass = "structDefinitions"
      /\ UNCHANGED <<mod, useIncludes, globalVars, values>>
  BY DEF StructDefinition, collected
<1>2. pass' \in {"structDefinitions", "functionDeclarations"}
  BY <1>1 DEF StructDefinition
<1>3. written' = written \/ \E s : written' = [written EXCEPT !["struct"] = s]
  BY DEF StructDefinition
<1>4. WrittenOK'
  BY <1>1, <1>2, <1>3, OtherSection, SameSections DEF Sections, WritesBehind
<1> QED
  BY <1>1, <1>2, <1>4, WriteStep DEF WritesBefore

\* A section of the text is written, but not that of the globals.
LEMMA SectionStep ==
  ASSUME DEInv, NEW section \in Sections \ {"global"}, NEW text, NEW next,
         Write(section, text, next),
         \/ pass \in WritesBefore /\ next \in WritesBefore
         \/ pass \in WritesBehind /\ next \in WritesBehind
  PROVE  DEInv'
<1>1. /\ written' = [written EXCEPT ![section] = @ \o text] /\ pass' = next
      /\ UNCHANGED <<mod, useIncludes, globalVars, values>>
  BY DEF Write, collected
<1>2. \E w : written' = [written EXCEPT ![section] = w]
  BY <1>1
<1>3. pass' \in WritesBehind <=> pass \in WritesBehind
  BY <1>1 DEF WritesBefore, WritesBehind
<1>4. WrittenOK'
  BY <1>1, <1>2, <1>3, OtherSection
<1> QED
  BY <1>1, <1>4, WriteStep

LEMMA DEInvStep == DEInv /\ [DTNext]_deVars => DEInv'
<1> SUFFICES ASSUME DEInv, [DTNext]_deVars PROVE DEInv'
  OBVIOUS
<1> USE DEF Sections
<1>1. CASE DetermineIncludes
  BY <1>1, QuietStep, Kept DEF DetermineIncludes, BeforeOrder
<1>2. CASE ParseStructDeclarations
  BY <1>2, QuietStep, Kept DEF ParseStructDeclarations, BeforeOrder
<1>3. CASE ParseStructItems
  BY <1>3, QuietStep, Kept DEF ParseStructItems, BeforeOrder
<1>4. CASE FindDeclaredFunctions
  BY <1>4, QuietStep, Kept DEF FindDeclaredFunctions, BeforeOrder
<1>5. CASE NameFunctions
  BY <1>5, QuietStep, Kept DEF NameFunctions, BehindOrder
<1>6. CASE InitializeGlobalVars
  <2>1. /\ pass = "initializeGlobalVars" /\ pass' = "createExpressions"
        /\ UNCHANGED <<mod, useIncludes, globalVars, stack, visited, written>>
    BY <1>6 DEF InitializeGlobalVars
  <2>2. values' = [g \in {h \in Globals : mod.initializer[h] # <<>>} |->
                    Range(mod.initializer[g]) \cap Range(globalVars)]
    BY <1>6 DEF InitializeGlobalVars, Globals
  <2>3. Globals' = Globals
    BY <2>1, Kept
  <2>4. ValuesOK'
    BY <2>1, <2>2, <2>3 DEF ValuesOK
  <2> QED
    BY <2>1, <2>4, QuietStep DEF BehindOrder
<1>7. CASE CreateExpressions
  BY <1>7, QuietStep, Kept DEF CreateExpressions, BehindOrder
<1>8. CASE StartGlobals
  BY <1>8, StartGlobalsStep
<1>9. CASE ComputeTopo
  BY <1>9, TopoStep
<1>10. CASE WriteIncludes
  <2>1. pass \in WritesBefore /\ "structDeclarations" \in WritesBefore
    BY <1>10 DEF WriteIncludes, WritesBefore
  <2>2. \/ Write("include", SetToSeq(headers), "structDeclarations")
        \/ Write("function", IF "math" \in headers THEN <<"__isnan">> ELSE <<>>,
                 "structDeclarations")
    BY <1>10 DEF WriteIncludes
  <2> QED
    BY <2>1, <2>2, SectionStep
<1>11. CASE WriteStructDeclarations
  <2>1. pass \in WritesBefore /\ "typedefs" \in WritesBefore
    BY <1>11 DEF WriteStructDeclarations, WritesBefore
  <2> QED
    BY <1>11, <2>1, SectionStep DEF WriteStructDeclarations
<1>12. CASE WriteTypedefs
  <2>1. pass \in WritesBefore /\ "structDefinitions" \in WritesBefore
    BY <1>12 DEF WriteTypedefs, WritesBefore
  <2> QED
    BY <1>12, <2>1, SectionStep DEF WriteTypedefs
<1>13. CASE StartStructs
  <2>1. /\ pass = "structDefinitions"
        /\ UNCHANGED <<mod, useIncludes, pass, globalVars, values, written>>
    BY <1>13 DEF StartStructs, collected
  <2> QED
    BY <2>1, SameSections, WriteStep DEF WritesBefore
<1>14. CASE StructDefinition
  BY <1>14, StructStep
<1>15. CASE WriteFunctionDeclarations
  <2>1. pass \in WritesBefore /\ "intrinsics" \in WritesBefore
    BY <1>15 DEF WriteFunctionDeclarations, WritesBefore
  <2> QED
    BY <1>15, <2>1, SectionStep DEF WriteFunctionDeclarations
<1>16. CASE WriteIntrinsicDefinitions
  <2>1. pass \in WritesBefore /\ "globals" \in WritesBefore
    BY <1>16 DEF WriteIntrinsicDefinitions, WritesBefore
  <2> QED
    BY <1>16, <2>1, SectionStep DEF WriteIntrinsicDefinitions
<1>17. CASE WriteGlobalVarDefinitions
  BY <1>17, GlobalsWritten
<1>18. CASE WriteFunctionDefinitions
  <2>1. pass \in WritesBehind /\ "end" \in WritesBehind
    BY <1>18 DEF WriteFunctionDefinitions, WritesBehind
  <2> QED
    BY <1>18, <2>1, SectionStep DEF WriteFunctionDefinitions
<1>19. CASE StartDebugTypes
  BY <1>19, StartDebugStep
<1>20. CASE FixType
  BY <1>20, FixStep
<1>21. CASE UNCHANGED deVars
  <2>1. UNCHANGED <<mod, useIncludes, pass, globalVars, values, roots, visited, stack, written>>
    BY <1>21 DEF deVars, collected
  <2>2. InputOK' /\ OrderOK' /\ Globals' = Globals /\ ValuesOK' /\ WrittenOK'
    BY <2>1, Kept, SameSections
  <2>3. (Searching => Searching') /\ (Fixing => Fixing') /\ (Idle => Idle')
    BY <2>1, <2>2, SearchUnchanged DEF DEInv, Searching, Fixing, Idle, Entered, Operands, Calls,
                                       Nodes, LeadsTo
  <2>4. PhaseOK'
    BY <2>1, <2>2, <2>3 DEF DEInv, PhaseOK
  <2> QED
    BY <2>2, <2>4 DEF DEInv
<1> QED
  BY <1>1, <1>2, <1>3, <1>4, <1>5, <1>6, <1>7, <1>8, <1>9, <1>10, <1>11, <1>12, <1>13, <1>14,
     <1>15, <1>16, <1>17, <1>18, <1>19, <1>20, <1>21 DEF DTNext, DENext, Stop

LEMMA DEInvariant == DTSpec => []DEInv
BY DEInvInit, DEInvStep, PTL DEF DTSpec

-----------------------------------------------------------------------------
(* What follows from it. *)

\* computeTopo appends a global to the order when it is through with the
\* globals its initializer refers to, and the writer keeps the order: in every
\* program a global is defined behind those its initializer refers to, but for
\* those whose initializers lead back to it.
THEOREM GlobalsFollowTheirInitializers == DTSpec => []GlobalsInOrder
<1>1. DEInv => GlobalsInOrder
  <2> SUFFICES ASSUME DEInv, NEW k \in DOMAIN written["global"],
                      written["global"][k] \in DOMAIN values,
                      NEW g \in values[written["global"][k]]
               PROVE  \/ LeadsTo(g, written["global"][k]) \/ Before(k, "global", g)
                      \/ g = "stdout" /\ useIncludes
    BY DEF GlobalsInOrder
  <2> DEFINE d == written["global"]
  <2>1. Selected(d, Len(globalVars))
    BY DEF DEInv, WrittenOK
  <2>2. PICK p \in 1..Len(globalVars) :
          /\ d[k] = globalVars[p]
          /\ \A q \in 1..(p - 1) : ~Skipped(globalVars[q]) => \E j \in 1..(k - 1) : d[j] = globalVars[q]
    BY <2>1 DEF Selected
  <2>3. g \in Range(mod.initializer[globalVars[p]])
    BY <2>2 DEF DEInv, ValuesOK
  <2>4. LeadsTo(g, globalVars[p]) \/ \E q \in 1..(p - 1) : globalVars[q] = g
    BY <2>3 DEF DEInv, OrderOK
  <2> QED
    BY <2>2, <2>4 DEF Before, Skipped
<1> QED
  BY <1>1, DEInvariant, PTL

\* The loop of computeGlobalVarsOrder and the recursion below it put each
\* global of the module into the order once, and the writer leaves out nothing
\* but the streams of stdio.h.
THEOREM EachGlobalDefined == DTSpec => []GlobalsDefinedOnce
<1>1. DEInv => GlobalsDefinedOnce
  <2> SUFFICES ASSUME DEInv PROVE GlobalsDefinedOnce
    OBVIOUS
  <2> DEFINE d == written["global"]
             N == Len(globalVars)
  <2>1. IsInjective(d)
    BY DEF DEInv, WrittenOK, Selected, IsInjective
  <2>2. ASSUME pass = "end"
        PROVE  Defines("global") \cup {"stdout"} = Globals \cup {"stdout"}
    <3>1. Selected(d, N) /\ Range(globalVars) = Globals
      BY <2>2 DEF DEInv, WrittenOK, PhaseOK, WritesBehind, WritesBefore, BeforeOrder, BehindOrder,
                  Fixes
    <3>2. Range(d) \subseteq Globals
      BY <3>1 DEF Selected, Range
    <3>3. \A g \in Globals : g = "stdout" \/ g \in Range(d)
      <4> SUFFICES ASSUME NEW g \in Globals, g # "stdout" PROVE g \in Range(d)
        OBVIOUS
      <4>1. PICK q \in 1..N : g = globalVars[q]
        BY <3>1 DEF Range, DEInv, OrderOK
      <4> QED
        BY <3>1, <4>1 DEF Selected, Skipped, Range
    <3> QED
      BY <3>2, <3>3 DEF Defines
  <2> QED
    BY <2>1, <2>2 DEF GlobalsDefinedOnce, Globals
<1> QED
  BY <1>1, DEInvariant, PTL

\* computeTopo never starts for a global, nor fixType for a struct, whose call
\* has not returned.
MarkedEnteredOnce ==
  \A j, k \in DOMAIN stack : j < k /\ stack[j].node = stack[k].node =>
    /\ pass # "computeGlobalVarsOrder"
    /\ pass \in Fixes => ~Is(stack[j].node, "struct")

\* The recursions of computeTopo and fixType mark a global, or a struct of the
\* debug information, before they look into it: cycles of initializers and of
\* structs, however long, are gone through once.
THEOREM CyclesEnteredOnce == DTSpec => []MarkedEnteredOnce
<1>1. DEInv => MarkedEnteredOnce
  <2> SUFFICES ASSUME DEInv, NEW j \in DOMAIN stack, NEW k \in DOMAIN stack, j < k,
                      stack[j].node = stack[k].node, pass = "computeGlobalVarsOrder" \/ pass \in Fixes
               PROVE  pass \in Fixes /\ ~Is(stack[j].node, "struct")
    BY DEF MarkedEnteredOnce, Fixes
  <2>0. stack # <<>>
    OBVIOUS
  <2>1. \/ Searching /\ pass = "computeGlobalVarsOrder"
        \/ Fixing /\ pass \in Fixes
    BY <2>0 DEF DEInv, PhaseOK, Idle, BeforeOrder, BehindOrder, Fixes, WritesBefore, WritesBehind
  <2>2. /\ stack[1].node = Loop /\ stack \in Seq(Calls)
        /\ \A m \in 2..Len(stack) : stack[m].node # Loop
    BY <2>1 DEF Searching, Fixing, DEInv, InputOK
  <2>3. k \in 2..Len(stack)
    BY <2>2
  <2>4. j \in 2..Len(stack)
    BY <2>2, <2>3
  <2> QED
    BY <2>1, <2>3, <2>4 DEF Searching, Fixing
<1> QED
  BY <1>1, DEInvariant, PTL

-----------------------------------------------------------------------------
(* The typedefs. *)

\* createFuncType gives each new function pointer a typedef, behind those in it.
LEMMA WithTypeDefsIs ==
  ASSUME TypeDefsOK(typeDefs), NEW ts \in Seq(Types), InOrder(ts),
         \A t \in Range(ts) : Is(t, "function") => \A g \in Inner(t) : Is(g, "function")
  PROVE  /\ TypeDefsOK(WithTypeDefs(ts))
         /\ Range(WithTypeDefs(ts)) = Range(typeDefs) \cup {t \in Range(ts) : Is(t, "function")}
<1> DEFINE k == Len(ts)
           Next(n, y) == IF Is(ts[n], "function") /\ ts[n] \notin Range(y) THEN Append(y, ts[n])
                         ELSE y
           Is0(d) == d = [n \in 0..k |-> IF n = 0 THEN typeDefs ELSE Next(n, d[n - 1])]
           step == [n \in 1..k |-> [y \in Seq(Types) |-> Next(n, y)]]
           D == CHOOSE d : Is0(d)
<1>1. k \in Nat /\ (\A n \in 1..k : ts[n] \in Types) /\ DOMAIN ts = 1..k
  OBVIOUS
<1>2. \A n \in 1..k : \A y \in Seq(Types) : Next(n, y) \in Seq(Types) /\ step[n][y] = Next(n, y)
  BY <1>1
<1>3. WithTypeDefs(ts) = D[k]
  BY DEF WithTypeDefs
<1> HIDE DEF step, Next, k
<1>4. PICK R : Recursion(R, Seq(Types), typeDefs, step, k)
  BY <1>1, <1>2, RecursionDefined DEF TypeDefsOK, Steps
<1>5. /\ R \in [0..k -> Seq(Types)] /\ R[0] = typeDefs
      /\ \A n \in 1..k : R[n] = step[n][R[n - 1]]
  BY <1>4 DEF Recursion
<1>6. \A n \in 1..k : n - 1 \in 0..k /\ R[n - 1] \in Seq(Types) /\ R[n] = Next(n, R[n - 1])
  <2> SUFFICES ASSUME NEW n \in 1..k
               PROVE  n - 1 \in 0..k /\ R[n - 1] \in Seq(Types) /\ R[n] = Next(n, R[n - 1])
    OBVIOUS
  <2>1. n - 1 \in 0..k
    BY <1>1
  <2> QED
    BY <1>2, <1>5, <2>1
<1>7. Is0(R)
  <2>1. ASSUME NEW n \in 0..k PROVE R[n] = IF n = 0 THEN typeDefs ELSE Next(n, R[n - 1])
    <3>1. n = 0 \/ n \in 1..k
      BY <1>1
    <3> QED
      BY <1>1, <1>5, <1>6, <3>1
  <2> QED
    BY <1>5, <2>1
<1>8. Is0(D)
  <2> HIDE DEF Is0
  <2> QED
    BY <1>7
<1> HIDE DEF D
<1>9. D[0] = typeDefs /\ \A n \in 1..k : D[n] = Next(n, D[n - 1])
  <2>1. 0 \in 0..k /\ \A n \in 1..k : n \in 0..k /\ n # 0
    BY <1>1
  <2> QED
    BY <1>8, <2>1
<1> DEFINE F(n) == {ts[i] : i \in {j \in 1..n : Is(ts[j], "function")}}
           Good(n) == TypeDefsOK(D[n]) /\ Range(D[n]) = Range(typeDefs) \cup F(n)
           T == {n \in Nat : n <= k => Good(n)}
<1>10. 0 \in T
  <2>1. F(0) = {}
    OBVIOUS
  <2> QED
    BY <1>9, <2>1
<1>11. ASSUME NEW n \in T PROVE n + 1 \in T
  <2> SUFFICES ASSUME n + 1 <= k PROVE Good(n + 1)
    OBVIOUS
  <2> DEFINE x == ts[n + 1]
  <2>1. /\ n \in Nat /\ n <= k /\ n + 1 \in 1..k /\ (n + 1) - 1 = n
        /\ 1..n + 1 = 1..n \cup {n + 1}
    BY <1>1
  <2>2. TypeDefsOK(D[n]) /\ Range(D[n]) = Range(typeDefs) \cup F(n) /\ x \in Types
    BY <1>1, <2>1
  <2>3. F(n + 1) = F(n) \cup (IF Is(x, "function") THEN {x} ELSE {})
    BY <2>1
  <2>4. D[n + 1] = IF Is(x, "function") /\ x \notin Range(D[n]) THEN Append(D[n], x) ELSE D[n]
    BY <1>9, <2>1 DEF Next
  <2>5. Is(x, "function") => Inner(x) \subseteq F(n)
    <3> SUFFICES ASSUME Is(x, "function"), NEW g \in Inner(x) PROVE g \in F(n)
      OBVIOUS
    <3>1. x \in Range(ts)
      BY <1>1, <2>1 DEF Range
    <3>2. PICK j \in 1..((n + 1) - 1) : ts[j] = g
      BY <1>1, <2>1 DEF InOrder
    <3>3. Is(g, "function")
      BY <3>1
    <3> QED
      BY <2>1, <3>2, <3>3
  <2> HIDE DEF F, x
  <2>6. CASE Is(x, "function") /\ x \notin Range(D[n])
    <3>1. D[n + 1] = Append(D[n], x)
      BY <2>4, <2>6
    <3>2. Inner(x) \subseteq Range(D[n])
      BY <2>2, <2>5, <2>6
    <3>3. TypeDefsOK(Append(D[n], x)) /\ Range(Append(D[n], x)) = Range(D[n]) \cup {x}
      BY <2>2, <2>6, <3>2, AppendTypeDef
    <3> QED
      BY <2>2, <2>3, <2>6, <3>1, <3>3
  <2>7. CASE ~(Is(x, "function") /\ x \notin Range(D[n]))
    <3>1. D[n + 1] = D[n]
      BY <2>4, <2>7
    <3> QED
      BY <2>2, <2>3, <2>7, <3>1
  <2> QED
    BY <2>6, <2>7
<1> HIDE DEF Good, T
<1>12. Good(k)
  <2>1. k \in T
    BY <1>1, <1>10, <1>11, SetInduction
  <2> QED
    BY <1>1, <2>1 DEF T
<1>13. F(k) = {t \in Range(ts) : Is(t, "function")}
  BY <1>1 DEF Range
<1> QED
  BY <1>3, <1>12, <1>13 DEF Good

-----------------------------------------------------------------------------
(* The struct a type contains. *)

\* structDefinition follows no type to a struct that need not be complete.
LEMMA ContainedComplete ==
  ASSUME NEW t \in Types, ContainedStruct(t) # None
  PROVE  ContainedStruct(t) \in CompleteIn[t] /\ IsStruct(ContainedStruct(t))
         /\ ContainedStruct(t) \in Types
<1>1. CASE Is(t, "array")
  <2>1. ContainedStruct(t) = StructArray[t]
    BY <1>1 DEF ContainedStruct, Is, IsStruct
  <2>2. StructArray[t] \in CompleteIn[t] /\ IsStruct(StructArray[t])
    BY <2>1, StructArrayComplete
  <2>3. CompleteIn[t] \subseteq Types
    BY CompleteInIs
  <2> QED
    BY <2>1, <2>2, <2>3
<1>2. CASE Is(t, "pointer") /\ IsArrayPointer[t]
  <2>1. ContainedStruct(t) = StructPointer[t]
    BY <1>2 DEF ContainedStruct, Is, IsStruct
  <2>2. StructPointer[t] \in CompleteIn[t] /\ IsStruct(StructPointer[t])
    BY <1>2, <2>1, StructPointerComplete
  <2>3. CompleteIn[t] \subseteq Types
    BY CompleteInIs
  <2> QED
    BY <2>1, <2>2, <2>3
<1>3. CASE IsStruct(t)
  <2>1. ContainedStruct(t) = t
    BY <1>3 DEF ContainedStruct, Is, IsStruct
  <2> QED
    BY <1>3, <2>1, CompleteInIs DEF IsStruct, Is
<1>4. CASE ~Is(t, "array") /\ ~(Is(t, "pointer") /\ IsArrayPointer[t]) /\ ~IsStruct(t)
  BY <1>4 DEF ContainedStruct
<1> QED
  BY <1>1, <1>2, <1>3, <1>4

\* structDefinition follows each type whose declaration needs a complete struct.
LEMMA NeedsContained ==
  ASSUME NEW t \in Types, SaysItAll[t], NEW s \in NeedsComplete(t)
  PROVE  s = ContainedStruct(t)
<1>1. s = TypeText[t].base /\ IsStruct(TypeText[t].base) /\ TypeText[t].stars = 0
  BY DEF NeedsComplete
<1>2. CASE Is(t, "array")
  <2>1. ContainedStruct(t) = StructArray[t]
    BY <1>2 DEF ContainedStruct, Is, IsStruct
  <2> QED
    BY <1>1, <1>2, <2>1, ArrayBase
<1>3. CASE Is(t, "pointer")
  <2>1. IsArrayPointer[t]
    BY <1>1, <1>3, PlainPointerHasStar
  <2>2. Is(t[2], "array") /\ SaysItAll[t[2]] /\ t[2] \in Types
    BY <1>3, <2>1, SaysItAllIs, PartOf DEF Is
  <2>3. TypeText[t] = TypeText[t[2]]
    BY <1>3, <2>1, TypeTextIs DEF Is
  <2>4. ContainedStruct(t) = StructPointer[t]
    BY <1>3, <2>1 DEF ContainedStruct, Is, IsStruct
  <2>5. StructPointer[t] = StructArray[t[2]]
    BY <1>3, <2>2, StructPointerIs DEF Is, IsStruct
  <2> QED
    BY <1>1, <2>2, <2>3, <2>4, <2>5, ArrayBase
<1>4. CASE ~Is(t, "array") /\ ~Is(t, "pointer")
  <2>1. TypeText[t] = [base |-> t, stars |-> 0]
    BY <1>4, TypeTextIs
  <2>2. ContainedStruct(t) = t
    BY <1>1, <1>4, <2>1 DEF ContainedStruct
  <2> QED
    BY <1>1, <2>1, <2>2
<1> QED
  BY <1>2, <1>3, <1>4

-----------------------------------------------------------------------------
(* The structs of a module. *)

\* What the types of a module make.
FromItems == UNION {Range(Reached(mod.items[s])) : s \in Range(mod.structs)}
FromUses == Range(Reached(mod.uses))
All == Range(mod.structs) \cup Literals(mod)

\* The structs without a name of a module are those getType makes.
LEMMA LiteralsAre ==
  Literals(mod) = {t \in FromItems \cup FromUses : Is(t, "literal")}
BY DEF Literals, FromItems, FromUses

\* Each of them is made for a type of the module.
LEMMA FromTypes ==
  ASSUME ModuleOK(mod), NEW t \in FromItems \cup FromUses
  PROVE  /\ t \in Types /\ IsLlvm[t]
         /\ Is(t, "literal") \/ Is(t, "function")
         /\ Is(t, "literal") => \A p \in Range(t[2]) : Range(GetType[p]) \subseteq FromItems \cup FromUses
         /\ Is(t, "function") => \A g \in Inner(t) : Is(g, "function")
<1> DEFINE L == {u \in Types : IsLlvm[u]}
<1>1. \E ts \in Seq(L) : t \in Range(Reached(ts)) /\ Range(Reached(ts)) \subseteq FromItems \cup FromUses
  <2>1. CASE t \in FromUses
    BY <2>1 DEF FromUses, ModuleOK
  <2>2. CASE t \in FromItems
    <3>1. PICK s \in Range(mod.structs) : t \in Range(Reached(mod.items[s]))
      BY <2>2 DEF FromItems
    <3>2. mod.items[s] \in Seq(L)
      BY <3>1 DEF ModuleOK
    <3>3. Range(Reached(mod.items[s])) \subseteq FromItems
      BY <3>1 DEF FromItems
    <3> QED
      BY <3>1, <3>2, <3>3
  <2> QED
    BY <2>1, <2>2
<1>2. PICK ts \in Seq(L) : t \in Range(Reached(ts)) /\ Range(Reached(ts)) \subseteq FromItems \cup FromUses
  BY <1>1
<1>3. Range(Reached(ts)) = UNION {Range(GetType[u]) : u \in Range(ts)}
  BY ReachedIs
<1>4. \A u \in Range(ts) : u \in Types /\ IsLlvm[u]
  BY DEF Range
<1>5. PICK u \in Range(ts) : t \in Range(GetType[u])
  BY <1>2, <1>3
<1>6. GetType[u] \in Seq(Types) /\ MadeFor(u)
  BY <1>4, GetTypeIs, MadeForEach
<1>7. Range(GetType[u]) \subseteq Range(Reached(ts))
  BY <1>3
<1>8. t \in Types
  BY <1>5, <1>6 DEF Range
<1>9. IsLlvm[t] /\ (Is(t, "literal") \/ Is(t, "function"))
  BY <1>5, <1>6 DEF MadeFor
<1>10. Is(t, "literal") => \A p \in Range(t[2]) : Range(GetType[p]) \subseteq FromItems \cup FromUses
  BY <1>2, <1>5, <1>6, <1>7 DEF MadeFor
<1>11. ASSUME Is(t, "function"), NEW g \in Inner(t)
       PROVE  Is(g, "function")
  <2>1. \A p \in Range(t[2]) \cup {t[3]} : p \in Types /\ IsLlvm[p]
    BY <1>8, <1>9, <1>11, PartsOfFunction, IsLlvmIs DEF Is, IsFunction
  <2>2. PICK p \in Range(t[2]) \cup {t[3]} : g \in FunctionTypes[p]
    BY <1>11 DEF Inner, Is, IsFunction
  <2> QED
    BY <2>1, <2>2, FunctionTypesMade
<1> QED
  BY <1>8, <1>9, <1>10, <1>11

\* structDefinition stays among the structs of the module.
LEMMA AllClosed ==
  ASSUME ModuleOK(mod), NEW s \in All
  PROVE  /\ s \in Types /\ s # Loop /\ IsStruct(s)
         /\ s \in Range(mod.structs) => ~Is(s, "literal")
         /\ \A t \in MembersOf(mod, s) :
              /\ t \in Types
              /\ ContainedStruct(t) # None =>
                   ContainedStruct(t) \in All /\ ContainedStruct(t) \in CompleteIn[t]
<1>1. s \in Range(mod.structs) => s \in Types /\ s[1] \in {"struct", "union"}
  BY DEF ModuleOK, Range
<1>2. s \in Literals(mod) =>
        /\ s \in FromItems \cup FromUses /\ Is(s, "literal") /\ s \in Types /\ IsLlvm[s]
        /\ \A p \in Range(s[2]) : Range(GetType[p]) \subseteq FromItems \cup FromUses
  BY LiteralsAre, FromTypes
<1>3. s \in Types /\ s # Loop /\ IsStruct(s) /\ (s \in Range(mod.structs) => ~Is(s, "literal"))
  BY <1>1, <1>2 DEF All, ModuleOK, IsStruct, Is
<1>4. ASSUME NEW t \in MembersOf(mod, s)
      PROVE  /\ t \in Types
             /\ \A c \in CompleteIn[t] : c \in Types /\ Is(c, "literal") => c \in Literals(mod)
  <2>1. CASE Is(s, "literal")
    <3>1. s \in Literals(mod) /\ t \in Range(s[2])
      BY <1>3, <1>4, <2>1 DEF All, MembersOf
    <3>2. t \in Types /\ IsLlvm[t]
      BY <1>2, <2>1, <3>1, ItemsOf, IsLlvmIs DEF Is
    <3>3. MadeFor(t)
      BY <3>2, MadeForEach
    <3>4. Range(GetType[t]) \subseteq FromItems \cup FromUses
      BY <1>2, <3>1
    <3> QED
      BY <3>2, <3>3, <3>4, LiteralsAre DEF MadeFor
  <2>2. CASE ~Is(s, "literal") /\ t \in Range(mod.items[s])
    <3>1. s \in Range(mod.structs)
      BY <1>2, <2>2 DEF All
    <3>2. mod.items[s] \in Seq({u \in Types : IsLlvm[u]})
      BY <3>1 DEF ModuleOK
    <3>3. t \in Types /\ IsLlvm[t]
      BY <2>2, <3>2 DEF Range
    <3>4. MadeFor(t)
      BY <3>3, MadeForEach
    <3>5. Range(GetType[t]) \subseteq FromItems
      <4>1. Range(Reached(mod.items[s])) = UNION {Range(GetType[u]) : u \in Range(mod.items[s])}
        BY <3>2, ReachedIs
      <4> QED
        BY <2>2, <3>1, <4>1 DEF FromItems
    <3> QED
      BY <3>3, <3>4, <3>5, LiteralsAre DEF MadeFor
  <2>3. CASE s \in DOMAIN mod.debugItems /\ t \in Range(mod.debugItems[s])
    <3>0. mod.debugItems[s] \in Seq({u \in Types : IsDebug[u]})
      BY <2>3 DEF ModuleOK
    <3>1. t \in Types /\ IsDebug[t]
      BY <2>3, <3>0 DEF Range
    <3> QED
      BY <3>1, DebugComplete
  <2> QED
    BY <1>4, <2>1, <2>2, <2>3 DEF MembersOf
<1>5. ASSUME NEW t \in MembersOf(mod, s), ContainedStruct(t) # None
      PROVE  ContainedStruct(t) \in All /\ ContainedStruct(t) \in CompleteIn[t]
  <2>1. ContainedStruct(t) \in CompleteIn[t] /\ ContainedStruct(t) \in Types
    BY <1>4, <1>5, ContainedComplete
  <2>2. Is(ContainedStruct(t), "literal") \/ ContainedStruct(t) \in Range(mod.structs)
    BY <1>5, <2>1 DEF ModuleOK, All
  <2> QED
    BY <1>4, <1>5, <2>1, <2>2 DEF All
<1> QED
  BY <1>3, <1>4, <1>5

-----------------------------------------------------------------------------
(* The tables of types and names. *)

NoStructs == {"determineIncludes", "parseStructDeclarations"}
NoItems == NoStructs \cup {"parseStructItems"}
NoFunctions == NoItems \cup {"findDeclaredFunctions"}
NoNames == NoFunctions \cup {"computeGlobalVarsOrder", "nameFunctions"}
NoCalls == NoNames \cup {"initializeGlobalVars", "createExpressions"}
Late == Fixes \cup WritesBefore \cup WritesBehind

ReachedSoFar ==
  (IF pass \in NoItems THEN {} ELSE FromItems) \cup (IF pass \in NoFunctions THEN {} ELSE FromUses)

ItemsOK ==
  /\ DOMAIN items = Range(structs)
  /\ \A s \in DOMAIN items : items[s] \in Seq(Types) /\ Range(items[s]) \subseteq MembersOf(mod, s)

TablesOK ==
  /\ pass \in NoCalls \cup Late
  /\ structs = IF pass \in NoStructs THEN <<>> ELSE mod.structs
  /\ ItemsOK
  /\ TypeDefsOK(typeDefs) /\ Range(typeDefs) = {t \in ReachedSoFar : Is(t, "function")}
  /\ unnamedStructs = {t \in ReachedSoFar : Is(t, "literal")} /\ IsFiniteSet(unnamedStructs)

\* The tables do not change behind createExpressions, but for the members.
LEMMA TablesLate ==
  ASSUME TablesOK, ItemsOK', UNCHANGED <<mod, structs, unnamedStructs, typeDefs>>,
         \/ pass \in Late /\ pass' \in Late
         \/ /\ pass \in NoCalls \ NoFunctions
            /\ pass' \in (NoCalls \ NoFunctions) \cup Late
         \/ UNCHANGED pass
  PROVE  TablesOK'
<1>1. /\ pass' \in NoCalls \cup Late
      /\ (pass' \in NoStructs <=> pass \in NoStructs) /\ (pass' \in NoItems <=> pass \in NoItems)
      /\ (pass' \in NoFunctions <=> pass \in NoFunctions)
  BY DEF TablesOK, NoStructs, NoItems, NoFunctions, NoNames, NoCalls, Late, Fixes, WritesBefore,
         WritesBehind
<1>2. ReachedSoFar' = ReachedSoFar
  BY <1>1 DEF ReachedSoFar, FromItems, FromUses
<1> QED
  BY <1>1, <1>2 DEF TablesOK

\* getType for a list of types keeps the tables of types right.
LEMMA TypesMade ==
  ASSUME TablesOK, ModuleOK(mod), NEW ts \in Seq({t \in Types : IsLlvm[t]}), MakeTypes(ts),
         Range(Reached(ts)) \subseteq FromItems \cup FromUses
  PROVE  /\ TypeDefsOK(typeDefs')
         /\ Range(typeDefs') = Range(typeDefs) \cup {t \in Range(Reached(ts)) : Is(t, "function")}
         /\ unnamedStructs' = unnamedStructs \cup {t \in Range(Reached(ts)) : Is(t, "literal")}
         /\ IsFiniteSet(unnamedStructs')
<1> DEFINE rs == Reached(ts)
<1>1. rs \in Seq(Types) /\ InOrder(rs)
  BY ReachedIs
<1>2. \A t \in Range(rs) : Is(t, "function") => \A g \in Inner(t) : Is(g, "function")
  BY FromTypes
<1>3. typeDefs' = WithTypeDefs(rs) /\ unnamedStructs' = unnamedStructs \cup {t \in Range(rs) : Is(t, "literal")}
  BY DEF MakeTypes
<1> HIDE DEF rs
<1>4. TypeDefsOK(typeDefs)
  BY DEF TablesOK
<1>5. /\ TypeDefsOK(WithTypeDefs(rs))
      /\ Range(WithTypeDefs(rs)) = Range(typeDefs) \cup {t \in Range(rs) : Is(t, "function")}
  BY <1>1, <1>2, <1>4, WithTypeDefsIs
<1>6. IsFiniteSet({t \in Range(rs) : Is(t, "literal")})
  <2>1. IsFiniteSet(Range(rs))
    BY <1>1, FiniteRange
  <2> QED
    BY <2>1, FS_Subset
<1>7. IsFiniteSet(unnamedStructs')
  BY <1>3, <1>6, FS_Union DEF TablesOK
<1> QED
  BY <1>3, <1>5, <1>7 DEF rs

\* The tables start empty.
LEMMA TablesInit == DEInit => TablesOK
<1> SUFFICES ASSUME DEInit PROVE TablesOK
  OBVIOUS
<1>1. pass = "determineIncludes" /\ structs = <<>> /\ unnamedStructs = {} /\ typeDefs = <<>>
      /\ items = [s \in {} |-> <<>>]
  BY DEF DEInit
<1>2. ReachedSoFar = {}
  BY <1>1 DEF ReachedSoFar, NoItems, NoFunctions, NoStructs
<1>3. ItemsOK
  BY <1>1 DEF ItemsOK, Range
<1>4. TypeDefsOK(typeDefs) /\ Range(typeDefs) = {}
  BY <1>1 DEF TypeDefsOK, Range, IsInjective, InOrder
<1>5. IsFiniteSet(unnamedStructs)
  BY <1>1, FS_EmptySet
<1> QED
  BY <1>1, <1>2, <1>3, <1>4, <1>5 DEF TablesOK, NoStructs, NoItems, NoFunctions, NoNames, NoCalls

\* parseStructDeclarations adds the structs of the module.
LEMMA DeclarationsParsed ==
  ASSUME TablesOK, DetermineIncludes \/ ParseStructDeclarations, ModuleOK(mod)
  PROVE  TablesOK'
<1> USE DEF NoStructs, NoItems, NoFunctions, NoNames, NoCalls
<1>1. /\ pass \in NoStructs /\ pass' \in NoItems
      /\ pass' \in NoStructs \/ pass' = "parseStructItems"
      /\ UNCHANGED <<mod, unnamedStructs, typeDefs>>
  BY DEF DetermineIncludes, ParseStructDeclarations
<1>2. ReachedSoFar = {} /\ ReachedSoFar' = {}
  BY <1>1 DEF ReachedSoFar
<1>3. CASE DetermineIncludes
  <2>1. pass' \in NoStructs /\ UNCHANGED <<mod, unnamedStructs, typeDefs, structs, items>> /\ pass \in NoStructs
    BY <1>3 DEF DetermineIncludes
  <2>2. ItemsOK'
    BY <2>1 DEF TablesOK, ItemsOK
  <2> HIDE DEF NoStructs, NoItems, NoFunctions, NoNames, NoCalls
  <2> QED
    BY <1>1, <1>2, <2>1, <2>2 DEF TablesOK, NoCalls, NoNames, NoFunctions, NoItems
<1>4. CASE ParseStructDeclarations
  <2>1. pass' = "parseStructItems" /\ structs' = mod.structs
        /\ items' = [s \in Range(mod.structs) |-> IF s = VaListTag THEN mod.items[s] ELSE <<>>]
    BY <1>4 DEF ParseStructDeclarations
  <2>2. \A s \in Range(mod.structs) :
          mod.items[s] \in Seq(Types) /\ Range(mod.items[s]) \subseteq MembersOf(mod, s)
    <3>1. \A s \in Range(mod.structs) : mod.items[s] \in Seq({t \in Types : IsLlvm[t]})
      BY DEF ModuleOK
    <3>2. \A q \in Seq({t \in Types : IsLlvm[t]}) : q \in Seq(Types)
      OBVIOUS
    <3>3. \A s \in Range(mod.structs) : ~Is(s, "literal")
      BY AllClosed DEF All
    <3> QED
      BY <3>1, <3>2, <3>3 DEF MembersOf
  <2>3. \A q : <<>> \in Seq(Types) /\ Range(<<>>) \subseteq q
    BY DEF Range
  <2>4. ItemsOK'
    BY <1>1, <2>1, <2>2, <2>3 DEF ItemsOK
  <2> QED
    BY <1>1, <1>2, <2>1, <2>4 DEF TablesOK
<1> QED
  BY <1>3, <1>4

\* parseStructItems makes the types of the members.
LEMMA ItemsParsed ==
  ASSUME TablesOK, ParseStructItems, ModuleOK(mod)
  PROVE  TablesOK'
<1> USE DEF NoStructs, NoItems, NoFunctions, NoNames, NoCalls
<1> DEFINE L == {t \in Types : IsLlvm[t]}
           seqs == [i \in DOMAIN structs |-> mod.items[structs[i]]]
           ts == FlattenSeq(seqs)
<1>1. /\ pass = "parseStructItems" /\ pass' = "findDeclaredFunctions"
      /\ items' = [s \in Range(structs) |-> items[s] \o mod.items[s]] /\ MakeTypes(ts)
      /\ UNCHANGED <<mod, structs>>
  BY DEF ParseStructItems
<1>2. structs = mod.structs /\ DOMAIN structs = 1..Len(structs) /\ Len(structs) \in Nat
  BY <1>1 DEF TablesOK, ModuleOK
<1>3. \A s \in Range(mod.structs) : mod.items[s] \in Seq(L)
  BY DEF ModuleOK
<1>4. \A i \in DOMAIN structs : seqs[i] = mod.items[structs[i]] /\ seqs[i] \in Seq(L) /\ structs[i] \in Range(mod.structs)
  BY <1>2, <1>3 DEF Range
<1>5. seqs \in Seq(Seq(L)) /\ DOMAIN seqs = DOMAIN structs
  <2> HIDE DEF L
  <2>1. seqs \in [1..Len(structs) -> Seq(L)]
    BY <1>2, <1>4
  <2> HIDE DEF seqs
  <2> QED
    BY <1>2, <2>1
<1> HIDE DEF seqs
<1>6. ts \in Seq(L) /\ Range(ts) = UNION {Range(seqs[i]) : i \in DOMAIN seqs}
  BY <1>5, FlattenRange
<1>7. Range(ts) = UNION {Range(mod.items[s]) : s \in Range(mod.structs)}
  <2>1. \A s \in Range(mod.structs) : \E i \in DOMAIN structs : structs[i] = s
    BY <1>2 DEF Range
  <2>2. UNION {Range(seqs[i]) : i \in DOMAIN seqs} = UNION {Range(mod.items[s]) : s \in Range(mod.structs)}
    BY <1>4, <1>5, <2>1
  <2> QED
    BY <1>6, <2>2
<1> HIDE DEF ts
<1>8. Range(Reached(ts)) = FromItems
  <2>1. Range(Reached(ts)) = UNION {Range(GetType[t]) : t \in Range(ts)}
    BY <1>6, ReachedIs
  <2>2. \A s \in Range(mod.structs) :
          Range(Reached(mod.items[s])) = UNION {Range(GetType[t]) : t \in Range(mod.items[s])}
    BY <1>3, ReachedIs
  <2>3. FromItems = UNION {UNION {Range(GetType[t]) : t \in Range(mod.items[s])} : s \in Range(mod.structs)}
    BY <2>2 DEF FromItems
  <2> QED
    BY <1>7, <2>1, <2>3
<1>9. /\ TypeDefsOK(typeDefs')
      /\ Range(typeDefs') = Range(typeDefs) \cup {t \in FromItems : Is(t, "function")}
      /\ unnamedStructs' = unnamedStructs \cup {t \in FromItems : Is(t, "literal")}
      /\ IsFiniteSet(unnamedStructs')
  BY <1>1, <1>6, <1>8, TypesMade
<1>10. ReachedSoFar = {} /\ ReachedSoFar' = FromItems
  BY <1>1 DEF ReachedSoFar, FromItems
<1>11. Range(typeDefs) = {} /\ unnamedStructs = {}
  BY <1>10 DEF TablesOK
<1>12. ItemsOK'
  <2>1. \A s \in Range(structs) :
          /\ items'[s] = items[s] \o mod.items[s] /\ mod.items[s] \in Seq(L)
          /\ Range(mod.items[s]) \subseteq MembersOf(mod, s)
    <3>1. \A s \in Range(mod.structs) : ~Is(s, "literal")
      BY AllClosed DEF All
    <3> QED
      BY <1>1, <1>2, <1>3, <3>1 DEF MembersOf
  <2>2. \A q \in Seq(L) : q \in Seq(Types)
    OBVIOUS
  <2>3. DOMAIN items' = Range(structs) /\ Range(structs)' = Range(structs)
    BY <1>1
  <2>4. ASSUME NEW s \in DOMAIN items'
        PROVE  items'[s] \in Seq(Types) /\ Range(items'[s]) \subseteq MembersOf(mod, s)
    <3>1. items[s] \in Seq(Types) /\ Range(items[s]) \subseteq MembersOf(mod, s)
      BY <2>3 DEF TablesOK, ItemsOK
    <3>2. mod.items[s] \in Seq(Types) /\ Range(mod.items[s]) \subseteq MembersOf(mod, s)
      BY <2>1, <2>2, <2>3
    <3>3. /\ items[s] \o mod.items[s] \in Seq(Types)
          /\ Range(items[s] \o mod.items[s]) = Range(items[s]) \cup Range(mod.items[s])
      BY <3>1, <3>2, ConcatIs
    <3> QED
      BY <2>1, <2>3, <3>1, <3>2, <3>3
  <2> QED
    BY <1>1, <2>3, <2>4 DEF ItemsOK
<1> QED
  BY <1>1, <1>2, <1>9, <1>10, <1>11, <1>12 DEF TablesOK

\* The functions make the types they use.
LEMMA UsesParsed ==
  ASSUME TablesOK, FindDeclaredFunctions, ModuleOK(mod)
  PROVE  TablesOK'
<1> USE DEF NoStructs, NoItems, NoFunctions, NoNames, NoCalls
<1>1. /\ pass = "findDeclaredFunctions" /\ pass' = "computeGlobalVarsOrder" /\ MakeTypes(mod.uses)
      /\ UNCHANGED <<mod, structs, items>>
  BY DEF FindDeclaredFunctions
<1>2. mod.uses \in Seq({t \in Types : IsLlvm[t]}) /\ Range(Reached(mod.uses)) = FromUses
  BY DEF ModuleOK, FromUses
<1>3. /\ TypeDefsOK(typeDefs')
      /\ Range(typeDefs') = Range(typeDefs) \cup {t \in FromUses : Is(t, "function")}
      /\ unnamedStructs' = unnamedStructs \cup {t \in FromUses : Is(t, "literal")}
      /\ IsFiniteSet(unnamedStructs')
  BY <1>1, <1>2, TypesMade
<1>4. ReachedSoFar = FromItems /\ ReachedSoFar' = FromItems \cup FromUses
  BY <1>1 DEF ReachedSoFar, FromItems, FromUses
<1>5. /\ Range(typeDefs') = {t \in FromItems \cup FromUses : Is(t, "function")}
      /\ unnamedStructs' = {t \in FromItems \cup FromUses : Is(t, "literal")}
  BY <1>3, <1>4 DEF TablesOK
<1>6. ItemsOK'
  BY <1>1 DEF TablesOK, ItemsOK
<1>7. structs' = mod.structs
  BY <1>1 DEF TablesOK
<1> QED
  BY <1>1, <1>3, <1>4, <1>5, <1>6, <1>7 DEF TablesOK

-----------------------------------------------------------------------------
(* What fixType gives a type for. *)

\* A list with something in front.
LEMMA FirstAndRest ==
  ASSUME NEW S, NEW r \in S, NEW q \in Seq(S)
  PROVE  <<r>> \o q \in Seq(S) /\ Range(<<r>> \o q) = {r} \cup Range(q)
<1>1. <<r>> \in Seq(S) /\ Range(<<r>>) = {r}
  BY DEF Range
<1> DEFINE a == <<r>>
<1> HIDE DEF a
<1>2. a \in Seq(S)
  BY <1>1 DEF a
<1>3. a \o q \in Seq(S) /\ Range(a \o q) = Range(a) \cup Range(q)
  BY <1>2, ConcatIs
<1> QED
  BY <1>1, <1>3 DEF a

\* It calls itself for less deep types, but for the members of structs.
LEMMA PartsLessDeep ==
  ASSUME ModuleOK(mod), NEW t \in Types, ~Is(t, "struct"),
         IsStruct(t) => t \in DOMAIN mod.debugItems
  PROVE  /\ Parts(t) \in Seq(Types)
         /\ \A p \in Range(Parts(t)) : p \in Types /\ Depth[p] < Depth[t]
<1>1. t # Loop
  BY DEF ModuleOK
<1>2. CASE Is(t, "union")
  <2>1. /\ mod.debugItems[t] \in Seq({u \in Types : IsDebug[u]})
        /\ \A p \in Range(mod.debugItems[t]) : Depth[p] < Depth[t]
    BY <1>2 DEF ModuleOK, Is, IsStruct
  <2>2. Parts(t) = mod.debugItems[t]
    BY <1>1, <1>2 DEF Parts, Is
  <2>3. \A q \in Seq({u \in Types : IsDebug[u]}) : q \in Seq(Types)
    OBVIOUS
  <2>4. Parts(t) \in Seq(Types)
    BY <2>1, <2>2, <2>3
  <2> QED
    BY <2>1, <2>2, <2>4 DEF Range
<1>3. CASE t[1] \in {"pointer", "array", "vla"}
  <2>1. Parts(t) = <<t[2]>>
    BY <1>1, <1>3 DEF Parts, Is
  <2> QED
    BY <1>3, <2>1, PartOf DEF Range
<1>4. CASE Is(t, "debug function")
  <2>1. Parts(t) = <<t[3]>> \o t[2]
    BY <1>1, <1>4 DEF Parts, Is
  <2>2. t[2] \in Seq(Types) /\ t[3] \in Types
    BY <1>4, PartsOfFunction DEF Is, IsFunction
  <2>4. Range(Parts(t)) = {t[3]} \cup Range(t[2]) /\ Parts(t) \in Seq(Types)
    BY <2>1, <2>2, FirstAndRest
  <2> QED
    BY <1>4, <2>4, PartsOfFunction DEF Is, IsFunction
<1>5. CASE t[1] \notin {"union", "pointer", "array", "vla", "debug function"}
  <2>1. Parts(t) = <<>>
    BY <1>1, <1>5 DEF Parts, Is
  <2> QED
    BY <2>1 DEF Range
<1> QED
  BY <1>2, <1>3, <1>4, <1>5 DEF Is

FixableBy(t, g) ==
  /\ ~Is(t, "vla") /\ (IsStruct(t) => t \in DOMAIN mod.debugItems)
  /\ Is(t, "struct") => Len(Parts(t)) = Len(items[t])
  /\ Is(t, "union") => Kind(Parts(t)[1]) = Kind(mod.items[t][1])
  /\ ~Is(t, "struct") => \A p \in Range(Parts(t)) : g[p]

FixableOK ==
  ModuleOK(mod) =>
    /\ Fixable = [t \in Types |-> Fixable[t]]
    /\ \A t \in Types : Fixable[t] \in BOOLEAN /\ Fixable[t] = FixableBy(t, Fixable)

\* fixType gives a type, in this state, for what FixableBy says.
LEMMA FixableIs == FixableOK
<1> SUFFICES ASSUME ModuleOK(mod)
             PROVE  /\ Fixable = [t \in Types |-> Fixable[t]]
                    /\ \A t \in Types : Fixable[t] \in BOOLEAN /\ Fixable[t] = FixableBy(t, Fixable)
  BY DEF FixableOK
<1> DEFINE X == BOOLEAN
           body == [g \in [Types -> X] |-> [t \in Types |-> FixableBy(t, g)]]
<1>1. ASSUME NEW g, NEW t \in Types
      PROVE  FixableBy(t, g) \in X
  BY DEF FixableBy
<1>2. ASSUME NEW g, NEW h, NEW t \in Types, Agree(Types, Depth, g, h, Depth[t])
      PROVE  FixableBy(t, g) = FixableBy(t, h)
  <2>1. CASE Is(t, "struct") \/ (IsStruct(t) /\ t \notin DOMAIN mod.debugItems)
    BY <2>1 DEF FixableBy
  <2>2. CASE ~Is(t, "struct") /\ (IsStruct(t) => t \in DOMAIN mod.debugItems)
    <3>1. \A p \in Range(Parts(t)) : g[p] = h[p]
      BY <1>2, <2>2, PartsLessDeep DEF Agree
    <3> QED
      BY <3>1 DEF FixableBy
  <2> QED
    BY <2>1, <2>2
<1>3. Types # {} => X # {}
  OBVIOUS
<1> HIDE DEF X
<1>4. Local(Types, X, Depth, body)
  BY <1>1, <1>2 DEF Local
<1> HIDE DEF body
<1>5. PICK h \in [Types -> X] : h = body[h]
  BY <1>3, <1>4, DepthIs, DepthRecursion
<1>6. h = [t \in Types |-> FixableBy(t, h)]
  BY <1>5 DEF body
<1>7. Fixable = [t \in Types |-> FixableBy(t, Fixable)]
  BY <1>6 DEF Fixable, FixableBy
<1>8. /\ \A t \in Types : Fixable[t] = FixableBy(t, Fixable)
      /\ Fixable = [t \in Types |-> Fixable[t]]
  BY <1>7
<1> QED
  BY <1>1, <1>8 DEF X

\* The same in the next state.
LEMMA FixableNext == FixableOK'
BY FixableIs, PTL

\* It looks at the number of a struct's members only.
LEMMA FixableKept ==
  ASSUME ModuleOK(mod), UNCHANGED mod,
         \A s \in DOMAIN mod.debugItems : Len(items'[s]) = Len(items[s])
  PROVE  Fixable' = Fixable /\ \A t \in Types : Fixable'[t] = Fixable[t]
<1>1. ASSUME NEW f, f = Fixable'
      PROVE  \A t \in Types : f[t] = Fixable[t]
  <2> DEFINE P == {t \in Types : f[t] = Fixable[t]}
  <2>1. ASSUME NEW t \in Types PROVE Parts(t)' = Parts(t)
    <3>1. t # Loop
      BY DEF ModuleOK
    <3> QED
      BY <3>1 DEF Parts
  <2>2. ASSUME NEW t \in Types
        PROVE  /\ Fixable[t] \in BOOLEAN /\ Fixable[t] = FixableBy(t, Fixable)
               /\ f[t] \in BOOLEAN
               /\ f[t] = (/\ ~Is(t, "vla") /\ (IsStruct(t) => t \in DOMAIN mod.debugItems)
                          /\ Is(t, "struct") => Len(Parts(t)) = Len(items'[t])
                          /\ Is(t, "union") => Kind(Parts(t)[1]) = Kind(mod.items[t][1])
                          /\ ~Is(t, "struct") => \A p \in Range(Parts(t)) : f[p])
    <3>1. ModuleOK(mod)'
      OBVIOUS
    <3>2. f[t] \in BOOLEAN /\ f[t] = FixableBy(t, Fixable)'
      BY <1>1, <3>1, FixableNext DEF FixableOK
    <3> QED
      BY <1>1, <2>1, <3>2, FixableIs DEF FixableOK, FixableBy
  <2>3. ASSUME NEW t \in Types, \A u \in Types : Depth[u] < Depth[t] => u \in P
        PROVE  t \in P
    <3>1. CASE Is(t, "struct") \/ (IsStruct(t) /\ t \notin DOMAIN mod.debugItems)
      <4>1. Is(t, "struct") => IsStruct(t)
        BY DEF Is, IsStruct
      <4>2. CASE t \notin DOMAIN mod.debugItems
        BY <2>2, <3>1, <4>1, <4>2 DEF FixableBy
      <4>3. CASE t \in DOMAIN mod.debugItems
        <5>1. Is(t, "struct") /\ Len(items'[t]) = Len(items[t])
          BY <3>1, <4>3
        <5> QED
          BY <2>2, <5>1 DEF FixableBy
      <4> QED
        BY <4>2, <4>3
    <3>2. CASE ~Is(t, "struct") /\ (IsStruct(t) => t \in DOMAIN mod.debugItems)
      <4>1. \A p \in Range(Parts(t)) : f[p] = Fixable[p]
        BY <2>3, <3>2, PartsLessDeep
      <4> QED
        BY <2>2, <3>2, <4>1 DEF FixableBy
    <3> QED
      BY <3>1, <3>2
  <2> HIDE DEF P
  <2>4. Types \subseteq P
    BY <2>3, DepthIs, DepthInduction
  <2> QED
    BY <2>4 DEF P
<1>2. Fixable' = [t \in Types |-> Fixable'[t]] /\ Fixable = [t \in Types |-> Fixable[t]]
  <2>1. ModuleOK(mod)'
    OBVIOUS
  <2> QED
    BY <2>1, FixableIs, FixableNext DEF FixableOK
<1>3. Fixable' = Fixable
  BY <1>1, <1>2
<1> QED
  BY <1>3

-----------------------------------------------------------------------------
(* The passes, and what they leave alone. *)

Started == mod \in {in.mod : in \in Inputs} /\ ModuleOK(mod) /\ useIncludes \in BOOLEAN

\* The program starts with a module.
LEMMA StartedInit == DEInit => Started
<1> SUFFICES ASSUME DEInit PROVE Started
  OBVIOUS
<1>1. PICK in \in Inputs : mod = in.mod /\ useIncludes = in.includes
  BY DEF DEInit
<1> QED
  BY <1>1, InputsAssumption DEF Started

\* No pass changes the module or the options.
LEMMA Fixed == [DTNext]_deVars => UNCHANGED <<mod, useIncludes>>
<1> SUFFICES ASSUME [DTNext]_deVars PROVE UNCHANGED <<mod, useIncludes>>
  OBVIOUS
<1> USE DEF collected, Write
<1>1. CASE DetermineIncludes \/ ParseStructDeclarations \/ ParseStructItems \/ FindDeclaredFunctions
  BY <1>1 DEF DetermineIncludes, ParseStructDeclarations, ParseStructItems, FindDeclaredFunctions
<1>2. CASE StartGlobals \/ ComputeTopo \/ NameFunctions \/ InitializeGlobalVars \/ CreateExpressions
  BY <1>2 DEF StartGlobals, ComputeTopo, NameFunctions, InitializeGlobalVars, CreateExpressions
<1>3. CASE WriteIncludes \/ WriteStructDeclarations \/ WriteTypedefs \/ StartStructs \/ StructDefinition
  BY <1>3 DEF WriteIncludes, WriteStructDeclarations, WriteTypedefs, StartStructs, StructDefinition
<1>4. CASE WriteFunctionDeclarations \/ WriteIntrinsicDefinitions \/ WriteGlobalVarDefinitions
           \/ WriteFunctionDefinitions
  BY <1>4 DEF WriteFunctionDeclarations, WriteIntrinsicDefinitions, WriteGlobalVarDefinitions,
              WriteFunctionDefinitions
<1>5. CASE StartDebugTypes \/ FixType
  BY <1>5 DEF StartDebugTypes, FixType
<1>6. CASE UNCHANGED deVars
  BY <1>6 DEF deVars
<1> QED
  BY <1>1, <1>2, <1>3, <1>4, <1>5, <1>6 DEF DTNext, DENext, Stop

\* The module and the options stay those of the input.
LEMMA StartedStep == Started /\ [DTNext]_deVars => Started'
<1> SUFFICES ASSUME Started, [DTNext]_deVars PROVE Started'
  OBVIOUS
<1>1. mod' = mod /\ useIncludes' = useIncludes
  BY Fixed
<1> QED
  BY <1>1 DEF Started

\* The passes that touch no types.
NameStep ==
  \/ DetermineIncludes \/ StartGlobals \/ ComputeTopo \/ NameFunctions \/ InitializeGlobalVars
  \/ CreateExpressions
WriterStep ==
  \/ WriteIncludes \/ WriteStructDeclarations \/ WriteTypedefs \/ WriteFunctionDeclarations
  \/ WriteIntrinsicDefinitions \/ WriteGlobalVarDefinitions \/ WriteFunctionDefinitions

\* What the passes leave alone that give names.
LEMMA NameStepIs ==
  ASSUME NameStep
  PROVE  /\ UNCHANGED <<mod, structs, unnamedStructs, typeDefs, items, diTypes, written>>
         /\ pass \in NoCalls /\ pass' \in NoCalls \cup {"parseMetadataTypes", "includes"}
         /\ \/ UNCHANGED pass
            \/ pass = "determineIncludes" /\ pass' = "parseStructDeclarations"
            \/ pass \in NoCalls \ NoFunctions /\ pass' \in (NoCalls \ NoFunctions) \cup Late
<1> USE DEF NoStructs, NoItems, NoFunctions, NoNames, NoCalls, Late, Fixes, WritesBefore, collected
<1>1. CASE DetermineIncludes
  BY <1>1 DEF DetermineIncludes
<1>2. CASE StartGlobals
  BY <1>2 DEF StartGlobals
<1>3. CASE ComputeTopo
  <2>1. /\ UNCHANGED <<mod, structs, unnamedStructs, typeDefs, items, diTypes, written>>
        /\ pass = "computeGlobalVarsOrder" /\ pass' \in {"computeGlobalVarsOrder", "nameFunctions"}
    BY <1>3 DEF ComputeTopo
  <2> QED
    BY <2>1
<1>4. CASE NameFunctions
  BY <1>4 DEF NameFunctions
<1>5. CASE InitializeGlobalVars
  <2>1. /\ UNCHANGED <<mod, structs, unnamedStructs, typeDefs, items, diTypes, written>>
        /\ pass = "initializeGlobalVars" /\ pass' = "createExpressions"
    BY <1>5 DEF InitializeGlobalVars
  <2> QED
    BY <2>1
<1>6. CASE CreateExpressions
  <2>1. /\ UNCHANGED <<mod, structs, unnamedStructs, typeDefs, items, diTypes, written>>
        /\ pass = "createExpressions" /\ pass' \in {"parseMetadataTypes", "includes"}
    BY <1>6 DEF CreateExpressions
  <2> QED
    BY <2>1
<1> QED
  BY <1>1, <1>2, <1>3, <1>4, <1>5, <1>6 DEF NameStep

\* What the writer leaves alone.
LEMMA WriterStepIs ==
  ASSUME WriterStep
  PROVE  /\ UNCHANGED <<mod, useIncludes, collected, diTypes, roots, visited, stack>>
         /\ UNCHANGED <<headers, structs, unnamedStructs, typeDefs, items, functions, globalVars,
                        values, intrinsics>>
         /\ pass \in Late \ (Fixes \cup {"structDefinitions", "end"})
         /\ pass' \in Late \ (Fixes \cup {"includes"})
<1> USE DEF Late, Fixes, WritesBefore, WritesBehind
<1>1. /\ UNCHANGED <<mod, useIncludes, collected, diTypes, roots, visited, stack>>
      /\ pass \in Late \ (Fixes \cup {"structDefinitions", "end"})
      /\ pass' \in Late \ (Fixes \cup {"includes"})
  BY DEF WriterStep, WriteIncludes, WriteStructDeclarations, WriteTypedefs,
         WriteFunctionDeclarations, WriteIntrinsicDefinitions, WriteGlobalVarDefinitions,
         WriteFunctionDefinitions, Write
<1> QED
  BY <1>1 DEF collected

\* What structDefinition leaves alone.
LEMMA StructStepIs ==
  ASSUME StartStructs \/ StructDefinition
  PROVE  /\ UNCHANGED <<mod, useIncludes, collected, diTypes>>
         /\ UNCHANGED <<headers, structs, unnamedStructs, typeDefs, items, functions, globalVars,
                        values, intrinsics>>
         /\ pass = "structDefinitions" /\ pass' \in {"structDefinitions", "functionDeclarations"}
         /\ pass \in Late /\ pass' \in Late
<1>1. /\ UNCHANGED <<mod, useIncludes, collected, diTypes>>
      /\ pass = "structDefinitions" /\ pass' \in {"structDefinitions", "functionDeclarations"}
  BY DEF StartStructs, StructDefinition
<1> QED
  BY <1>1 DEF collected, Late, WritesBefore

\* What the passes over the debug information leave alone.
LEMMA DebugStepIs ==
  ASSUME StartDebugTypes \/ FixType
  PROVE  /\ UNCHANGED <<mod, useIncludes, headers, structs, unnamedStructs, typeDefs, functions,
                        globalVars, values, intrinsics, written>>
         /\ pass = "parseMetadataTypes" /\ pass' \in {"parseMetadataTypes", "crash", "includes"}
         /\ pass \in Late /\ pass' \in Late
         /\ FixType => UNCHANGED roots
<1> USE DEF Late, Fixes, WritesBefore
<1>1. CASE StartDebugTypes
  BY <1>1 DEF StartDebugTypes, FixType, collected
<1>2. CASE FixType
  <2>1. /\ UNCHANGED <<mod, useIncludes, headers, structs, unnamedStructs, typeDefs, functions,
                       globalVars, values, intrinsics, roots, written>>
        /\ pass = "parseMetadataTypes"
    BY <1>2 DEF FixType
  <2>2. pass' \in {"parseMetadataTypes", "crash", "includes"}
    BY <1>2, <2>1 DEF FixType, Make
  <2> QED
    BY <2>1, <2>2
<1> QED
  BY <1>1, <1>2

\* Every step is one of these.
LEMMA EveryStep ==
  ASSUME [DTNext]_deVars
  PROVE  \/ NameStep \/ WriterStep \/ (StartStructs \/ StructDefinition)
         \/ ParseStructDeclarations \/ ParseStructItems \/ FindDeclaredFunctions
         \/ (StartDebugTypes \/ FixType)
         \/ UNCHANGED deVars
<1>1. DENext \/ StartDebugTypes \/ FixType \/ UNCHANGED deVars
  BY DEF DTNext
<1>2. DENext => \/ NameStep \/ WriterStep \/ StartStructs \/ StructDefinition
                \/ ParseStructDeclarations \/ ParseStructItems \/ FindDeclaredFunctions
                \/ UNCHANGED deVars
  BY DEF DENext, Stop, NameStep, WriterStep
<1> QED
  BY <1>1, <1>2

\* A step of nothing leaves everything as it is.
LEMMA NothingMoves ==
  ASSUME UNCHANGED deVars
  PROVE  /\ UNCHANGED <<mod, useIncludes, pass, headers, structs, unnamedStructs, typeDefs, items>>
         /\ UNCHANGED <<functions, globalVars, values, intrinsics, diTypes, roots, visited, stack,
                        written>>
BY DEF deVars, collected

-----------------------------------------------------------------------------
(* What fixType makes. *)

Debugs == {t \in Types : IsDebug[t]}

\* The function pointers in a type of the debug information are of it too.
LEMMA DebugFunctionsIn ==
  \A t \in Types : IsDebug[t] => \A f \in FunctionsIn[t] : Is(f, "debug function") /\ IsDebug[f]
<1> DEFINE P == {t \in Types : IsDebug[t] =>
                   \A f \in FunctionsIn[t] : Is(f, "debug function") /\ IsDebug[f]}
<1>1. ASSUME NEW t \in Types, \A u \in Types : Depth[u] < Depth[t] => u \in P
      PROVE  t \in P
  <2>1. CASE t[1] \in {"array", "vla", "pointer"}
    <3>1. FunctionsIn[t] = FunctionsIn[t[2]] /\ IsDebug[t] = IsDebug[t[2]] /\ t[2] \in P
      BY <1>1, <2>1, PartOf, FunctionsInIs, IsDebugIs DEF Is, IsFunction
    <3> QED
      BY <3>1
  <2>2. CASE IsFunction(t)
    <3>1. FunctionsIn[t] = {t}
      BY <2>2, FunctionsInIs DEF Is, IsFunction
    <3>2. IsDebug[t] => Is(t, "debug function")
      BY <2>2, IsDebugIs DEF Is, IsFunction
    <3> QED
      BY <3>1, <3>2
  <2>3. CASE t[1] \notin {"array", "vla", "pointer"} /\ ~IsFunction(t)
    BY <2>3, FunctionsInIs
  <2> QED
    BY <2>1, <2>2, <2>3
<1> HIDE DEF P
<1>2. Types \subseteq P
  BY <1>1, DepthIs, DepthInduction
<1> QED
  BY <1>2 DEF P

\* What it has made names the functions it has made, inner ones first.
Complete(q) ==
  /\ q \in Seq(Debugs) /\ InOrder(q)
  /\ \A t \in Range(q) : FunctionsIn[t] \subseteq Range(q)
  /\ \A j, k \in DOMAIN q : q[j] = q[k] => j = k \/ Is(q[j], "array")

\* The parts of a type of the debug information are of it too.
LEMMA PartsDebug ==
  ASSUME ModuleOK(mod), NEW t \in Types \cup {Loop}, t = Loop => roots = mod.debug,
         t # Loop => IsDebug[t] /\ (IsStruct(t) => t \in DOMAIN mod.debugItems)
  PROVE  Parts(t) \in Seq(Debugs)
<1>1. CASE t = Loop
  BY <1>1 DEF Parts, ModuleOK, Debugs
<1>2. CASE t # Loop /\ t[1] \in {"struct", "union"}
  <2>1. t \in DOMAIN mod.debugItems /\ mod.debugItems[t] \in Seq({u \in Types : IsDebug[u]})
    BY <1>2 DEF ModuleOK, IsStruct
  <2>2. Parts(t) = mod.debugItems[t]
    BY <1>2 DEF Parts, Is
  <2> QED
    BY <2>1, <2>2 DEF Debugs
<1>3. CASE t # Loop /\ t[1] \in {"pointer", "array", "vla"}
  <2>1. t[2] \in Debugs
    BY <1>3, PartOf, IsDebugIs DEF Is, Debugs
  <2>2. Parts(t) = <<t[2]>>
    BY <1>3 DEF Parts, Is
  <2> QED
    BY <2>1, <2>2
<1>4. CASE t # Loop /\ t[1] = "debug function"
  <2>1. t[2] \in Seq(Types) /\ t[3] \in Types /\ \A p \in Range(t[2]) \cup {t[3]} : IsDebug[p]
    BY <1>4, PartsOfFunction, IsDebugIs DEF Is, IsFunction
  <2>2. \A q \in Seq(Types) : (\A p \in Range(q) : IsDebug[p]) => q \in Seq(Debugs)
    BY DEF Debugs, Range
  <2>3. t[2] \in Seq(Debugs) /\ t[3] \in Debugs
    BY <2>1, <2>2 DEF Debugs
  <2>4. Parts(t) = <<t[3]>> \o t[2]
    BY <1>4 DEF Parts, Is
  <2> QED
    BY <2>3, <2>4, FirstAndRest
<1>5. CASE t # Loop /\ t[1] \notin {"struct", "union", "pointer", "array", "vla", "debug function"}
  <2>1. Parts(t) = <<>>
    BY <1>5 DEF Parts, Is
  <2> QED
    BY <2>1
<1> QED
  BY <1>1, <1>2, <1>3, <1>4, <1>5

\* Nothing is left to make of a type it returns for at once.
LEMMA KnownComplete ==
  ASSUME ModuleOK(mod), Complete(diTypes), visited \subseteq {t \in Types : Is(t, "struct")},
         NEW p \in Debugs, Known(p)
  PROVE  FunctionsIn[p] \subseteq Range(diTypes)
<1>1. p \in Types /\ IsDebug[p] /\ p # Loop
  BY DEF Debugs, ModuleOK
<1>2. CASE p \in Range(diTypes)
  BY <1>2 DEF Complete
<1>3. CASE IsStruct(p)
  BY <1>1, <1>3, FunctionsInIs DEF IsStruct, IsFunction
<1>4. CASE ~IsStruct(p) /\ Parts(p) = <<>>
  <2>1. \A x : <<x>> # <<>>
    OBVIOUS
  <2>2. \A x, q : q \in Seq(Types) /\ x \in Types => <<x>> \o q # <<>>
    OBVIOUS
  <2>3. p[1] \notin {"pointer", "array", "vla"}
    BY <1>1, <1>4, <2>1 DEF Parts, Is
  <2>4. ~Is(p, "debug function")
    <3>1. ASSUME Is(p, "debug function") PROVE FALSE
      <4>1. p[2] \in Seq(Types) /\ p[3] \in Types
        BY <1>1, <3>1, PartsOfFunction DEF Is, IsFunction
      <4>2. Parts(p) = <<p[3]>> \o p[2]
        BY <1>1, <3>1 DEF Parts, Is
      <4> QED
        BY <1>4, <2>2, <4>1, <4>2
    <3> QED
      BY <3>1
  <2>5. ~IsFunction(p)
    BY <1>1, <2>3, <2>4, IsDebugIs DEF IsFunction, Is
  <2> QED
    BY <1>1, <2>3, <2>5, FunctionsInIs
<1>5. CASE p \in visited
  BY <1>3, <1>5 DEF Is, IsStruct
<1>6. Is(p, "struct") => IsStruct(p)
  BY DEF Is, IsStruct
<1> QED
  BY <1>2, <1>3, <1>4, <1>5, <1>6 DEF Known

\* Fixing or not, members keep what they are in LLVM or are what they are in
\* the debug information.
LEMMA MemberSet ==
  ASSUME ItemsOK, ModuleOK(mod), NEW s \in Types \cup {Loop},
         s # Loop /\ IsStruct(s) => s \in DOMAIN mod.debugItems,
         visited \subseteq {u \in Types : Is(u, "struct")},
         NEW t \in Types, t \in Range(Parts(s)), NEW i, SetMember(s, i, t), UNCHANGED <<mod, structs>>
  PROVE  ItemsOK' /\ \A u \in DOMAIN items : Len(items'[u]) = Len(items[u])
<1>1. CASE UNCHANGED items
  BY <1>1 DEF ItemsOK
<1>2. CASE s # Loop /\ t \in MembersOf(mod, s) /\ items' = [items EXCEPT ![s][i] = t]
  <2>1. DOMAIN items' = DOMAIN items /\ \A u \in DOMAIN items : u # s => items'[u] = items[u]
    BY <1>2
  <2>2. CASE s \in DOMAIN items
    <3>1. items'[s] = [items[s] EXCEPT ![i] = t]
      BY <1>2, <2>2
    <3>2. items[s] \in Seq(Types) /\ Range(items[s]) \subseteq MembersOf(mod, s)
      BY <2>2 DEF ItemsOK
    <3>3. ASSUME NEW q, q \in Seq(Types), NEW r, r = [q EXCEPT ![i] = t]
          PROVE  r \in Seq(Types) /\ Len(r) = Len(q) /\ Range(r) \subseteq Range(q) \cup {t}
      <4>1. q \in [1..Len(q) -> Types] /\ Len(q) \in Nat /\ DOMAIN q = 1..Len(q)
        BY <3>3
      <4>2. r \in [1..Len(q) -> Types]
        BY <3>3, <4>1
      <4>3. r \in Seq(Types) /\ Len(r) = Len(q) /\ DOMAIN r = DOMAIN q
        BY <4>1, <4>2
      <4>4. \A n \in DOMAIN q : r[n] = IF n = i THEN t ELSE q[n]
        BY <3>3
      <4> QED
        BY <4>3, <4>4 DEF Range
    <3>4. items'[s] \in Seq(Types) /\ Len(items'[s]) = Len(items[s])
          /\ Range(items'[s]) \subseteq MembersOf(mod, s)
      BY <1>2, <3>1, <3>2, <3>3
    <3> QED
      BY <2>1, <3>4, SMTT(30) DEF ItemsOK
  <2>3. CASE s \notin DOMAIN items
    <3>1. \A u \in DOMAIN items : items'[u] = items[u]
      BY <2>1, <2>3
    <3> QED
      BY <2>1, <3>1 DEF ItemsOK
  <2> QED
    BY <2>2, <2>3
<1>3. ASSUME s \in visited \/ (s # Loop /\ Is(s, "union"))
      PROVE  s # Loop /\ t \in MembersOf(mod, s)
  <2>1. s # Loop /\ s[1] \in {"struct", "union"}
    BY <1>3 DEF ModuleOK, Is
  <2>2. Parts(s) = mod.debugItems[s] /\ s \in DOMAIN mod.debugItems /\ ~Is(s, "literal")
    BY <2>1 DEF Parts, Is, IsStruct
  <2> QED
    BY <2>1, <2>2 DEF MembersOf
<1> QED
  BY <1>1, <1>2, <1>3 DEF SetMember

\* What is made of a type's parts, once it has looked at them.
LEMMA MadeOfParts ==
  ASSUME ModuleOK(mod), NEW t \in Debugs, ~IsStruct(t), NEW S, \A g \in S : Inner(g) \subseteq S,
         \A p \in Range(Parts(t)) : FunctionsIn[p] \subseteq S
  PROVE  /\ Inner(t) \subseteq S
         /\ ~Is(t, "debug function") => FunctionsIn[t] \subseteq S
         /\ Is(t, "debug function") => FunctionsIn[t] = {t}
<1>1. t \in Types /\ IsDebug[t] /\ t # Loop
  BY DEF Debugs, ModuleOK
<1>2. CASE Is(t, "debug function")
  <2>1. t[2] \in Seq(Types) /\ t[3] \in Types
    BY <1>1, <1>2, PartsOfFunction DEF Is, IsFunction
  <2>2. Parts(t) = <<t[3]>> \o t[2]
    BY <1>1, <1>2 DEF Parts, Is
  <2>3. Range(Parts(t)) = {t[3]} \cup Range(t[2])
    BY <2>1, <2>2, FirstAndRest
  <2>4. \A p \in Range(t[2]) \cup {t[3]} : FunctionTypes[p] \subseteq S
    <3> SUFFICES ASSUME NEW p \in Range(t[2]) \cup {t[3]} PROVE FunctionTypes[p] \subseteq S
      OBVIOUS
    <3>1. p \in Types /\ IsDebug[p]
      BY <1>1, <1>2, PartsOfFunction, IsDebugIs DEF Is, IsFunction
    <3>2. FunctionsIn[p] \subseteq S
      BY <2>3
    <3>3. FunctionTypes[p] = FunctionsIn[p] \cup UNION {Inner(g) : g \in FunctionsIn[p]}
      BY <3>1, DebugInner
    <3>4. \A g \in FunctionsIn[p] : Inner(g) \subseteq S
      BY <3>2
    <3> QED
      BY <3>2, <3>3, <3>4
  <2>5. FunctionsIn[t] = {t}
    BY <1>1, <1>2, FunctionsInIs DEF Is, IsFunction
  <2>6. Inner(t) \subseteq S
    BY <1>2, <2>4 DEF Inner, Is, IsFunction
  <2> QED
    BY <1>2, <2>5, <2>6
<1>3. CASE t[1] \in {"array", "vla", "pointer"}
  <2>1. Parts(t) = <<t[2]>> /\ FunctionsIn[t] = FunctionsIn[t[2]] /\ ~IsFunction(t)
    BY <1>1, <1>3, FunctionsInIs DEF Parts, Is, IsFunction
  <2>2. t[2] \in Range(Parts(t))
    BY <2>1 DEF Range
  <2> QED
    BY <1>3, <2>1, <2>2 DEF Inner, Is
<1>4. CASE t[1] \notin {"array", "vla", "pointer"} /\ ~Is(t, "debug function")
  <2>1. ~IsFunction(t)
    BY <1>1, <1>4, IsDebugIs DEF IsFunction, Is
  <2>2. FunctionsIn[t] = {}
    BY <1>1, <1>4, <2>1, FunctionsInIs
  <2> QED
    BY <1>4, <2>1, <2>2 DEF Inner
<1> QED
  BY <1>2, <1>3, <1>4

\* A list in order has the function pointers in its own.
LEMMA InnerMade ==
  ASSUME NEW S, NEW q \in Seq(S), InOrder(q), NEW g \in Range(q)
  PROVE  Inner(g) \subseteq Range(q)
<1> SUFFICES ASSUME NEW f \in Inner(g) PROVE f \in Range(q)
  OBVIOUS
<1>1. PICK n \in DOMAIN q : q[n] = g
  BY DEF Range
<1>2. PICK j \in 1..(n - 1) : q[j] = f
  BY <1>1 DEF InOrder
<1>3. j \in DOMAIN q
  BY <1>1, <1>2
<1> QED
  BY <1>2, <1>3 DEF Range

\* makeType puts a type into the cache when those of its parts are in it.
LEMMA MakeStep ==
  ASSUME ModuleOK(mod), Complete(diTypes), NEW t \in Debugs, Make(t),
         Fixable[t] /\ ~IsStruct(t) =>
           \A p \in Range(Parts(t)) : FunctionsIn[p] \subseteq Range(diTypes)
  PROVE  /\ Complete(diTypes') /\ Range(diTypes) \subseteq Range(diTypes')
         /\ Fixable[t] => FunctionsIn[t] \subseteq Range(diTypes')
<1>1. t \in Types
  BY DEF Debugs
<1>2. CASE UNCHANGED diTypes /\ (~Fixable[t] \/ IsStruct(t) \/ t \in Range(diTypes))
  <2>1. IsStruct(t) => FunctionsIn[t] = {}
    BY <1>1, FunctionsInIs DEF IsStruct, IsFunction
  <2> QED
    BY <1>2, <2>1 DEF Complete
<1>3. CASE /\ diTypes' = Append(diTypes, t) /\ Fixable[t] /\ ~IsStruct(t)
           /\ t \notin Range(diTypes) \/ Is(t, "array")
  <2>1. diTypes \in Seq(Debugs) /\ InOrder(diTypes)
    BY DEF Complete
  <2>2. /\ diTypes' \in Seq(Debugs) /\ Len(diTypes') = Len(diTypes) + 1
        /\ \A n \in DOMAIN diTypes : diTypes'[n] = diTypes[n]
        /\ diTypes'[Len(diTypes) + 1] = t /\ Range(diTypes') = Range(diTypes) \cup {t}
    BY <1>3, <2>1, AppendIs
  <2>3. /\ Inner(t) \subseteq Range(diTypes)
        /\ FunctionsIn[t] \subseteq Range(diTypes')
    <3>1. \A g \in Range(diTypes) : Inner(g) \subseteq Range(diTypes)
      BY <2>1, InnerMade
    <3>2. \A p \in Range(Parts(t)) : FunctionsIn[p] \subseteq Range(diTypes)
      BY <1>3
    <3>3. /\ Inner(t) \subseteq Range(diTypes)
          /\ ~Is(t, "debug function") => FunctionsIn[t] \subseteq Range(diTypes)
          /\ Is(t, "debug function") => FunctionsIn[t] = {t}
      BY <1>3, <3>1, <3>2, MadeOfParts
    <3> QED
      BY <2>2, <3>3
  <2>4. InOrder(diTypes')
    BY <1>3, <2>1, <2>3, AppendInOrder
  <2>5. \A u \in Range(diTypes') : FunctionsIn[u] \subseteq Range(diTypes')
    BY <2>2, <2>3 DEF Complete
  <2>6. ASSUME NEW j \in DOMAIN diTypes', NEW k \in DOMAIN diTypes', diTypes'[j] = diTypes'[k]
        PROVE  j = k \/ Is(diTypes'[j], "array")
    <3>1. Len(diTypes) \in Nat /\ DOMAIN diTypes = 1..Len(diTypes)
          /\ DOMAIN diTypes' = 1..(Len(diTypes) + 1)
      BY <2>1, <2>2
    <3>2. \A n \in 1..(Len(diTypes) + 1) : n \in DOMAIN diTypes \/ n = Len(diTypes) + 1
      BY <3>1
    <3>3. \A n \in DOMAIN diTypes : diTypes[n] \in Range(diTypes)
      BY DEF Range
    <3> QED
      BY <1>3, <2>2, <2>6, <3>1, <3>2, <3>3 DEF Complete
  <2> QED
    BY <2>2, <2>3, <2>4, <2>5, <2>6 DEF Complete
<1> QED
  BY <1>2, <1>3 DEF Make

-----------------------------------------------------------------------------
(* The calls of fixType. *)

\* Each is for the part its caller looks at; what is made of the parts before
\* it is there.
Walking ==
  /\ \A m \in 1..(Len(stack) - 1) :
       /\ stack[m].i - 1 \in DOMAIN Parts(stack[m].node)
       /\ stack[m + 1].node = Parts(stack[m].node)[stack[m].i - 1]
  /\ \A m \in 2..Len(stack) : IsDebug[stack[m].node]
  /\ \A m \in 2..Len(stack) : ~IsStruct(stack[m].node) =>
       \A j \in DOMAIN Parts(stack[m].node) :
         /\ j < stack[m].i /\ (m = Len(stack) \/ j # stack[m].i - 1)
         /\ Fixable[Parts(stack[m].node)[j]]
         => FunctionsIn[Parts(stack[m].node)[j]] \subseteq Range(diTypes)

FixOK ==
  /\ Complete(diTypes)
  /\ pass \in Fixes =>
       /\ visited \subseteq {t \in Types : Is(t, "struct")}
       /\ stack # <<>> => Walking

\* The call on top of the stack is at one of its parts, or behind them.
LEMMA TopParts ==
  ASSUME ModuleOK(mod), InputOK, Fixing, Walking
  PROVE  /\ Last(stack).node \in Types \cup {Loop} /\ Parts(Last(stack).node) \in Seq(Debugs)
         /\ Last(stack).node # Loop =>
              /\ Last(stack).node \in Debugs
              /\ IsStruct(Last(stack).node) => Last(stack).node \in DOMAIN mod.debugItems
<1> DEFINE L == Len(stack)
<1>1. /\ L \in Nat /\ L \in DOMAIN stack /\ Last(stack) = stack[L]
      /\ Last(stack).node # Loop <=> L \in 2..L
  BY TopFix
<1>2. CASE Last(stack).node = Loop
  BY <1>2, PartsDebug DEF Fixing
<1>3. CASE Last(stack).node # Loop
  <2>1. /\ Last(stack).node \in Types /\ IsDebug[Last(stack).node]
        /\ IsStruct(Last(stack).node) => Last(stack).node \in DOMAIN mod.debugItems
    BY <1>1, <1>3 DEF Fixing, Walking
  <2> QED
    BY <2>1, <1>3, PartsDebug DEF Debugs
<1> QED
  BY <1>2, <1>3

\* The parts of a type do not depend on the state.
LEMMA PartsKept ==
  ASSUME UNCHANGED <<mod, roots>>
  PROVE  \A x : Parts(x)' = Parts(x)
<1>1. mod' = mod /\ roots' = roots
  OBVIOUS
<1>2. ASSUME NEW x PROVE Parts(x)' = Parts(x)
  <2>1. CASE x = Loop
    BY <1>1, <2>1 DEF Parts
  <2>2. CASE x # Loop
    BY <1>1, <2>2 DEF Parts
  <2> QED
    BY <2>1, <2>2
<1> QED
  BY <1>2

\* A part that needs no call keeps the stack a chain of parts.
LEMMA WalkAdvance ==
  ASSUME ModuleOK(mod), InputOK, Fixing, Walking, UNCHANGED <<mod, roots, diTypes>>, Advance,
         \A t \in Types : Fixable'[t] = Fixable[t],
         LET x == Last(stack).node
             i == Last(stack).i
         IN i \in DOMAIN Parts(x) /\ FunctionsIn[Parts(x)[i]] \subseteq Range(diTypes)
  PROVE  Walking'
<1> DEFINE L == Len(stack)
           F(m) == stack[m].node
<1>1. L \in Nat /\ L \in DOMAIN stack /\ stack \in Seq(Calls) /\ Last(stack) = stack[L]
  BY TopFix DEF Fixing
<1>2. /\ Len(stack') = L
      /\ \A m \in 1..L : /\ stack'[m].node = stack[m].node
                         /\ stack'[m].i = IF m = L THEN stack[m].i + 1 ELSE stack[m].i
  BY <1>1, AdvanceIs DEF Fixing
<1>3. \A x : Parts(x)' = Parts(x)
  BY PartsKept
<1>4. ASSUME NEW m \in 1..(L - 1)
      PROVE  /\ stack'[m].i - 1 \in DOMAIN Parts(stack[m].node)
             /\ stack'[m + 1].node = Parts(stack[m].node)[stack'[m].i - 1]
             /\ stack'[m].node = stack[m].node
  <2>1. m \in 1..L /\ m + 1 \in 1..L /\ m # L
    BY <1>1
  <2> QED
    BY <1>2, <2>1 DEF Walking
<1>5. \A m \in 2..L : m \in 1..L
  BY <1>1
<1>6. ASSUME NEW m \in 2..L
      PROVE  IsDebug[stack'[m].node] /\ stack'[m].node = stack[m].node /\ stack[m].node \in Types
  BY <1>2, <1>5 DEF Walking, Fixing
<1>7. ASSUME NEW m \in 2..L, ~IsStruct(stack[m].node), NEW j \in DOMAIN Parts(stack[m].node),
             j < stack'[m].i, m = L \/ j # stack'[m].i - 1, Fixable'[Parts(stack[m].node)[j]]
      PROVE  FunctionsIn[Parts(stack[m].node)[j]] \subseteq Range(diTypes)
  <2> DEFINE p == Parts(stack[m].node)[j]
  <2>1. p \in Types /\ j \in Nat
    <3>1. Parts(stack[m].node) \in Seq(Types)
      BY <1>6, <1>7, PartsType DEF Fixing
    <3> QED
      BY <3>1
  <2>2. Fixable[p]
    BY <1>7, <2>1
  <2>3. CASE m = L /\ j = stack[m].i
    BY <1>1, <2>3
  <2>4. CASE j < stack[m].i /\ (m = L \/ j # stack[m].i - 1)
    BY <1>7, <2>2, <2>4 DEF Walking
  <2>5. stack[m].i \in Nat
    <3>1. stack[m] \in Calls
      BY <1>1, <1>5
    <3> QED
      BY <3>1 DEF Calls
  <2>6. stack'[m].i = IF m = L THEN stack[m].i + 1 ELSE stack[m].i
    BY <1>2, <1>5
  <2> QED
    BY <1>7, <2>1, <2>3, <2>4, <2>5, <2>6
<1> HIDE DEF L
<1> QED
  BY <1>2, <1>3, <1>4, <1>6, <1>7 DEF Walking

\* A call for a part keeps the stack a chain of parts.
LEMMA WalkPush ==
  ASSUME ModuleOK(mod), InputOK, Fixing, Walking, UNCHANGED <<mod, roots, diTypes, items>>,
         LET x == Last(stack).node
             i == Last(stack).i
         IN i \in DOMAIN Parts(x) /\ Push(Parts(x)[i])
  PROVE  Walking'
<1> DEFINE L == Len(stack)
           x == stack[L].node
           i == stack[L].i
           n == Parts(x)[i]
<1>1. L \in Nat /\ L \in DOMAIN stack /\ stack \in Seq(Calls) /\ Last(stack) = stack[L]
  BY TopFix DEF Fixing
<1>2. i \in DOMAIN Parts(x) /\ Push(n) /\ Parts(x) \in Seq(Debugs) /\ n \in Debugs
  <2>1. Parts(x) \in Seq(Debugs)
    BY <1>1, TopParts
  <2>2. i \in DOMAIN Parts(x) /\ Push(n)
    BY <1>1
  <2> QED
    BY <2>1, <2>2
<1>3. n \in Nodes /\ n \in Types /\ IsDebug[n]
  BY <1>2 DEF Nodes, Debugs
<1> HIDE DEF n, x, i
<1>4. /\ Len(stack') = L + 1
      /\ stack'[L + 1].node = n /\ stack'[L + 1].i = 1
      /\ \A m \in 1..L : /\ stack'[m].node = stack[m].node
                         /\ stack'[m].i = IF m = L THEN stack[m].i + 1 ELSE stack[m].i
  BY <1>1, <1>2, <1>3, PushIs DEF Fixing
<1>5. \A y : Parts(y)' = Parts(y)
  BY PartsKept
<1>6. \A t \in Types : Fixable'[t] = Fixable[t]
  BY FixableKept
<1>7. ASSUME NEW m \in 1..L
      PROVE  /\ stack'[m].i - 1 \in DOMAIN Parts(stack'[m].node)
             /\ stack'[m + 1].node = Parts(stack'[m].node)[stack'[m].i - 1]
  <2>1. CASE m = L
    <3>1. i \in Nat /\ i + 1 - 1 = i
      BY <1>2
    <3>2. stack'[m].i - 1 = i /\ stack'[m].node = x /\ stack'[m + 1].node = n
      BY <1>1, <1>4, <2>1, <3>1 DEF x, i
    <3> QED
      BY <1>2, <3>2 DEF n
  <2>2. CASE m # L
    <3>1. m \in 1..(L - 1) /\ m + 1 \in 1..L
      BY <1>1, <2>2
    <3>2. stack'[m].i = stack[m].i /\ stack'[m].node = stack[m].node /\ stack'[m + 1].node = stack[m + 1].node
      BY <1>4, <2>2, <3>1
    <3> QED
      BY <3>1, <3>2 DEF Walking
  <2> QED
    BY <2>1, <2>2
<1>8. ASSUME NEW m \in 2..(L + 1)
      PROVE  /\ IsDebug[stack'[m].node]
             /\ m = L + 1 \/ (m \in 2..L /\ stack'[m].node = stack[m].node /\ stack[m].node \in Types)
  <2>1. m = L + 1 \/ (m \in 2..L /\ m \in 1..L)
    BY <1>1
  <2> QED
    BY <1>3, <1>4, <2>1 DEF Walking, Fixing
<1>9. ASSUME NEW m \in 2..(L + 1), ~IsStruct(stack'[m].node), NEW j \in DOMAIN Parts(stack'[m].node),
             j < stack'[m].i, m = L + 1 \/ j # stack'[m].i - 1, Fixable'[Parts(stack'[m].node)[j]]
      PROVE  FunctionsIn[Parts(stack'[m].node)[j]] \subseteq Range(diTypes)
  <2>1. CASE m = L + 1
    <3>1. Parts(n) \in Seq(Debugs) \/ Parts(n) \in Seq(Types)
      <4>1. ~IsStruct(n) /\ n # Loop
        BY <1>3, <1>4, <1>9, <2>1 DEF ModuleOK
      <4> QED
        BY <1>3, <4>1, PartsDebug
    <3>2. j \in DOMAIN Parts(n) /\ j < 1
      BY <1>4, <1>9, <2>1
    <3>3. j \in Nat /\ j >= 1
      BY <3>1, <3>2
    <3> QED
      BY <3>2, <3>3
  <2>2. CASE m \in 2..L
    <3>1. stack'[m].node = stack[m].node /\ stack[m].node \in Types
      BY <1>1, <1>8, <2>2
    <3>2. Parts(stack[m].node) \in Seq(Types)
      BY <1>9, <3>1, PartsType DEF Fixing
    <3>3. Parts(stack[m].node)[j] \in Types /\ j \in Nat
      BY <1>9, <3>1, <3>2
    <3>4. Fixable[Parts(stack[m].node)[j]]
      BY <1>6, <1>9, <3>1, <3>3
    <3>5. stack[m].i \in Nat /\ m \in 1..L
      <4>1. m \in 1..L /\ stack[m] \in Calls
        BY <1>1, <2>2
      <4> QED
        BY <4>1 DEF Calls
    <3>6. stack'[m].i = (IF m = L THEN stack[m].i + 1 ELSE stack[m].i) /\ m # L + 1
      BY <1>1, <1>4, <3>5
    <3>7. j < stack[m].i /\ (m = L \/ j # stack[m].i - 1)
      BY <1>9, <3>3, <3>5, <3>6
    <3> QED
      BY <1>9, <2>2, <3>1, <3>4, <3>7 DEF Walking
  <2> QED
    BY <1>8, <2>1, <2>2
<1> HIDE DEF L
<1>10. Len(stack') - 1 = L /\ Len(stack') = L + 1
  BY <1>1, <1>4
<1>11. \A m \in 1..(Len(stack') - 1) :
         /\ stack'[m].i - 1 \in DOMAIN Parts(stack[m].node)'
         /\ stack'[m + 1].node = Parts(stack[m].node)'[stack'[m].i - 1]
  BY <1>5, <1>7, <1>10
<1>12. \A m \in 2..Len(stack') : IsDebug[stack'[m].node]
  BY <1>8, <1>10
<1>13. \A m \in 2..Len(stack') : ~IsStruct(stack'[m].node) =>
         \A j \in DOMAIN Parts(stack[m].node)' :
           /\ j < stack'[m].i /\ (m = Len(stack') \/ j # stack'[m].i - 1)
           /\ Fixable'[Parts(stack[m].node)'[j]]
           => FunctionsIn[Parts(stack[m].node)'[j]] \subseteq Range(diTypes)'
  BY <1>5, <1>9, <1>10
<1> QED
  BY <1>11, <1>12, <1>13 DEF Walking

\* A return keeps the stack a chain of parts.
LEMMA WalkReturn ==
  ASSUME ModuleOK(mod), InputOK, Fixing, Walking, UNCHANGED <<mod, roots>>, Last(stack).node # Loop,
         Return, Range(diTypes) \subseteq Range(diTypes'),
         \A t \in Types : Fixable'[t] = Fixable[t],
         Fixable[Last(stack).node] => FunctionsIn[Last(stack).node] \subseteq Range(diTypes')
  PROVE  Walking'
<1> DEFINE L == Len(stack)
<1>1. L \in Nat /\ L \in 2..L /\ stack \in Seq(Calls) /\ Last(stack) = stack[L]
  BY TopFix DEF Fixing
<1>2. /\ Len(stack') = L - 1
      /\ \A m \in 1..(L - 1) : stack'[m] = stack[m]
  BY <1>1, ReturnIs DEF Fixing
<1>3. \A x : Parts(x)' = Parts(x)
  BY PartsKept
<1>4. ASSUME NEW m \in 1..(L - 1 - 1)
      PROVE  /\ stack'[m].i - 1 \in DOMAIN Parts(stack'[m].node)
             /\ stack'[m + 1].node = Parts(stack'[m].node)[stack'[m].i - 1]
  <2>1. m \in 1..(L - 1) /\ m + 1 \in 1..(L - 1)
    BY <1>1
  <2> QED
    BY <1>2, <2>1 DEF Walking
<1>5. ASSUME NEW m \in 2..(L - 1)
      PROVE  m \in 2..L /\ m \in 1..(L - 1) /\ stack'[m] = stack[m] /\ IsDebug[stack'[m].node] /\ stack[m].node \in Types
  <2>1. m \in 2..L /\ m \in 1..(L - 1)
    BY <1>1
  <2> QED
    BY <1>2, <2>1 DEF Walking, Fixing
<1>6. ASSUME NEW m \in 2..(L - 1), ~IsStruct(stack'[m].node), NEW j \in DOMAIN Parts(stack'[m].node),
             j < stack'[m].i, m = L - 1 \/ j # stack'[m].i - 1, Fixable'[Parts(stack'[m].node)[j]]
      PROVE  FunctionsIn[Parts(stack'[m].node)[j]] \subseteq Range(diTypes)'
  <2>1. Parts(stack[m].node) \in Seq(Types)
    BY <1>5, <1>6, PartsType DEF Fixing
  <2>2. Parts(stack[m].node)[j] \in Types /\ stack'[m] = stack[m]
    BY <1>5, <1>6, <2>1
  <2>3. Fixable[Parts(stack[m].node)[j]]
    BY <1>6, <2>2
  <2>4. CASE m = L - 1 /\ j = stack[m].i - 1
    <3>1. m + 1 = L
      BY <1>1, <2>4
    <3>2. stack[L].node = Parts(stack[m].node)[j]
      BY <1>5, <2>4, <3>1 DEF Walking
    <3> QED
      BY <1>1, <2>2, <2>3, <3>2
  <2>5. CASE j # stack[m].i - 1
    <3>1. FunctionsIn[Parts(stack[m].node)[j]] \subseteq Range(diTypes)
      BY <1>5, <1>6, <2>2, <2>3, <2>5 DEF Walking
    <3> QED
      BY <2>2, <3>1
  <2> QED
    BY <1>6, <2>2, <2>4, <2>5
<1> HIDE DEF L
<1> QED
  BY <1>2, <1>3, <1>4, <1>5, <1>6 DEF Walking

\* Nothing is in the cache at the start.
LEMMA FixOKInit == DEInit => FixOK
<1> SUFFICES ASSUME DEInit PROVE FixOK
  OBVIOUS
<1>1. diTypes = <<>> /\ pass \notin Fixes
  BY DEF DEInit, Fixes
<1>2. Complete(diTypes)
  BY <1>1 DEF Complete, InOrder, Range
<1> QED
  BY <1>1, <1>2 DEF FixOK

\* The other passes leave the cache alone.
LEMMA FixOKElsewhere ==
  ASSUME FixOK, UNCHANGED diTypes, pass' \notin Fixes
  PROVE  FixOK'
BY DEF FixOK, Complete

\* A call that looks at no more parts has made what it needs, or gives no type.
LEMMA AllPartsMade ==
  ASSUME ModuleOK(mod), InputOK, Fixing, Walking, Last(stack).node # Loop,
         Fixable[Last(stack).node], ~IsStruct(Last(stack).node),
         \/ ~(Last(stack).i <= Len(Parts(Last(stack).node)))
         \/ \E j \in 1..(Last(stack).i - 1) : ~Fixable[Parts(Last(stack).node)[j]]
  PROVE  \A p \in Range(Parts(Last(stack).node)) : FunctionsIn[p] \subseteq Range(diTypes)
<1> DEFINE L == Len(stack)
           t == Last(stack).node
           i == Last(stack).i
<1>1. L \in Nat /\ L \in 2..L /\ Last(stack) = stack[L] /\ i \in Nat
  BY TopFix DEF Fixing
<1>2. t \in Debugs /\ t \in Types /\ Parts(t) \in Seq(Debugs)
  BY TopParts DEF Debugs
<1>3. \A p \in Range(Parts(t)) : Fixable[p]
  <2>1. ~Is(t, "struct")
    BY DEF Is, IsStruct
  <2>2. FixableBy(t, Fixable)
    BY <1>2, FixableIs DEF FixableOK
  <2> QED
    BY <2>1, <2>2 DEF FixableBy
<1>4. i > Len(Parts(t)) \/ \E j \in 1..(i - 1) : j \notin DOMAIN Parts(t)
  <2>1. \A j \in DOMAIN Parts(t) : Fixable[Parts(t)[j]]
    BY <1>3 DEF Range
  <2>2. CASE ~(i <= Len(Parts(t)))
    <3> DEFINE k == Len(Parts(t))
    <3>1. k \in Nat
      BY <1>2
    <3> HIDE DEF k, i
    <3> QED
      BY <1>1, <2>2, <3>1 DEF k
  <2>3. CASE \E j \in 1..(i - 1) : ~Fixable[Parts(t)[j]]
    BY <2>1, <2>3
  <2> QED
    BY <2>2, <2>3
<1>5. \A j \in DOMAIN Parts(t) : j < i
  <2> DEFINE q == Parts(t)
  <2>1. q \in Seq(Debugs) /\ (i > Len(q) \/ \E j \in 1..(i - 1) : j \notin DOMAIN q)
    BY <1>2, <1>4
  <2> HIDE DEF q, i
  <2>2. DOMAIN q = 1..Len(q) /\ Len(q) \in Nat
    BY <2>1
  <2>3. \A j \in DOMAIN q : j < i
    BY <1>1, <2>1, <2>2
  <2> QED
    BY <2>3 DEF q
<1>6. \A j \in DOMAIN Parts(t) : FunctionsIn[Parts(t)[j]] \subseteq Range(diTypes)
  <2>1. \A j \in DOMAIN Parts(t) : Fixable[Parts(t)[j]]
    BY <1>3 DEF Range
  <2> QED
    BY <1>1, <1>5, <2>1 DEF Walking
<1> QED
  BY <1>6 DEF Range

\* fixType keeps its cache complete.
LEMMA FixTypeStep ==
  ASSUME ModuleOK(mod), DEInv, TablesOK, FixOK, FixType
  PROVE  FixOK' /\ ItemsOK'
<1> DEFINE L == Len(stack)
           t == Last(stack).node
           i == Last(stack).i
           Structs == {s \in Types : Is(s, "struct")}
<1>1. /\ pass = "parseMetadataTypes" /\ stack # <<>> /\ pass \in Fixes
      /\ UNCHANGED <<mod, structs, roots>>
  BY DEF FixType, Fixes
<1>2. InputOK /\ Fixing
  BY <1>1 DEF DEInv, PhaseOK, Idle, BeforeOrder, BehindOrder, Fixes, WritesBefore, WritesBehind
<1>3. Complete(diTypes) /\ visited \subseteq Structs /\ Walking
  BY <1>1 DEF FixOK
<1>4. /\ t \in Types \cup {Loop} /\ Parts(t) \in Seq(Debugs) /\ i \in Nat /\ i >= 1
      /\ t # Loop => t \in Debugs /\ (IsStruct(t) => t \in DOMAIN mod.debugItems)
  BY <1>2, <1>3, TopFix, TopParts
<1>5. ItemsOK /\ DOMAIN mod.debugItems \subseteq DOMAIN items
  <2>1. structs = mod.structs
    BY <1>1 DEF TablesOK, NoStructs
  <2> QED
    BY <2>1 DEF TablesOK, ItemsOK, ModuleOK
<1>6. ASSUME ItemsOK', \A u \in DOMAIN items : Len(items'[u]) = Len(items[u])
      PROVE  \A s \in Types : Fixable'[s] = Fixable[s]
  BY <1>1, <1>5, <1>6, FixableKept
<1>7. i <= Len(Parts(t)) => i \in DOMAIN Parts(t) /\ Parts(t)[i] \in Debugs
  <2> DEFINE q == Parts(t)
  <2>1. q \in Seq(Debugs)
    BY <1>4
  <2> HIDE DEF q, i
  <2>2. i <= Len(q) => i \in DOMAIN q /\ q[i] \in Debugs
    BY <1>4, <2>1
  <2> QED
    BY <2>2 DEF q
<1>8. CASE /\ i <= Len(Parts(t)) /\ Known(Parts(t)[i])
           /\ Advance /\ SetMember(t, i, Parts(t)[i])
           /\ UNCHANGED <<visited, diTypes, pass>>
  <2>1. /\ Parts(t)[i] \in Types /\ Parts(t)[i] \in Debugs /\ Parts(t)[i] \in Range(Parts(t))
        /\ i \in DOMAIN Parts(t)
    BY <1>7, <1>8 DEF Debugs, Range
  <2>2. ItemsOK' /\ \A u \in DOMAIN items : Len(items'[u]) = Len(items[u])
    BY <1>1, <1>3, <1>4, <1>5, <1>8, <2>1, MemberSet
  <2>3. FunctionsIn[Parts(t)[i]] \subseteq Range(diTypes)
    BY <1>3, <1>8, <2>1, KnownComplete
  <2>4. Walking'
    BY <1>1, <1>2, <1>3, <1>6, <1>8, <2>1, <2>2, <2>3, WalkAdvance
  <2> QED
    BY <1>1, <1>3, <1>8, <2>2, <2>4 DEF FixOK, Complete
<1>9. CASE /\ i <= Len(Parts(t)) /\ ~Known(Parts(t)[i])
           /\ Push(Parts(t)[i])
           /\ visited' = visited \cup {s \in {Parts(t)[i]} : Is(s, "struct")}
           /\ UNCHANGED <<items, diTypes, pass>>
  <2>1. i \in DOMAIN Parts(t) /\ Parts(t)[i] \in Types
    BY <1>7, <1>9 DEF Debugs
  <2>2. Walking'
    BY <1>1, <1>2, <1>3, <1>9, <2>1, WalkPush
  <2>3. ItemsOK'
    BY <1>1, <1>5, <1>9 DEF ItemsOK
  <2>4. visited' \subseteq Structs
    BY <1>3, <1>9, <2>1
  <2> QED
    BY <1>1, <1>3, <1>9, <2>2, <2>3, <2>4 DEF FixOK, Complete
<1>10. CASE /\ \/ ~(i <= Len(Parts(t)))
               \/ ~IsStruct(t) /\ \E j \in 1..(i - 1) : ~Fixable[Parts(t)[j]]
            /\ t # Loop
            /\ SetMember(stack[Len(stack) - 1].node, stack[Len(stack) - 1].i - 1, t)
            /\ Make(t) /\ Return /\ UNCHANGED visited
  <2> DEFINE c == stack[L - 1].node
  <2>1. L \in Nat /\ L \in 2..L /\ stack \in Seq(Calls) /\ t = stack[L].node
    BY <1>2, <1>10, TopFix DEF Fixing
  <2>2. L - 1 \in 1..(L - 1) /\ L - 1 + 1 = L /\ (L - 1 = 1 \/ L - 1 \in 2..L)
    <3>1. \A n \in Nat : n \in 2..n => /\ n - 1 \in 1..(n - 1) /\ n - 1 + 1 = n
                                        /\ (n - 1 = 1 \/ n - 1 \in 2..n)
      OBVIOUS
    <3> QED
      BY <2>1, <3>1
  <2>3. t = Parts(c)[stack[L - 1].i - 1] /\ stack[L - 1].i - 1 \in DOMAIN Parts(c)
    BY <1>3, <2>1, <2>2 DEF Walking
  <2>4. t \in Types /\ t \in Debugs /\ t \in Range(Parts(c))
    BY <1>4, <1>10, <2>3 DEF Range, Debugs
  <2>5. c \in Types \cup {Loop} /\ (c # Loop /\ IsStruct(c) => c \in DOMAIN mod.debugItems)
    BY <1>2, <2>2 DEF Fixing
  <2>6. ItemsOK' /\ \A u \in DOMAIN items : Len(items'[u]) = Len(items[u])
    BY <1>1, <1>3, <1>5, <1>10, <2>4, <2>5, MemberSet
  <2>7. Fixable[t] /\ ~IsStruct(t) =>
           \A p \in Range(Parts(t)) : FunctionsIn[p] \subseteq Range(diTypes)
    BY <1>2, <1>3, <1>10, AllPartsMade
  <2>8. /\ Complete(diTypes') /\ Range(diTypes) \subseteq Range(diTypes')
        /\ Fixable[t] => FunctionsIn[t] \subseteq Range(diTypes')
    BY <1>3, <1>10, <2>4, <2>7, MakeStep
  <2>9. Walking'
    BY <1>1, <1>2, <1>3, <1>6, <1>10, <2>6, <2>8, WalkReturn
  <2> QED
    BY <1>1, <1>3, <1>10, <2>6, <2>8, <2>9 DEF FixOK, Complete
<1>11. CASE /\ t = Loop /\ Return /\ visited' = {} /\ pass' = "includes"
            /\ UNCHANGED <<items, diTypes>>
  <2>1. ItemsOK'
    BY <1>1, <1>5, <1>11 DEF ItemsOK
  <2> QED
    BY <1>11, <2>1, FixOKElsewhere DEF Fixes
<1>12. \/ /\ i <= Len(Parts(t)) /\ Known(Parts(t)[i])
          /\ Advance /\ SetMember(t, i, Parts(t)[i])
          /\ UNCHANGED <<visited, diTypes, pass>>
       \/ /\ i <= Len(Parts(t)) /\ ~Known(Parts(t)[i])
          /\ Push(Parts(t)[i])
          /\ visited' = visited \cup {s \in {Parts(t)[i]} : Is(s, "struct")}
          /\ UNCHANGED <<items, diTypes, pass>>
       \/ /\ \/ ~(i <= Len(Parts(t)))
             \/ ~IsStruct(t) /\ \E j \in 1..(i - 1) : ~Fixable[Parts(t)[j]]
          /\ t # Loop
          /\ SetMember(stack[Len(stack) - 1].node, stack[Len(stack) - 1].i - 1, t)
          /\ Make(t) /\ Return /\ UNCHANGED visited
       \/ /\ t = Loop /\ Return /\ visited' = {} /\ pass' = "includes"
          /\ UNCHANGED <<items, diTypes>>
  BY DEF FixType
<1> QED
  BY <1>8, <1>9, <1>10, <1>11, <1>12

\* parseMetadataTypes starts with the roots.
LEMMA StartFixing ==
  ASSUME ModuleOK(mod), DEInv, FixOK, StartDebugTypes
  PROVE  FixOK'
<1>1. /\ pass = "parseMetadataTypes" /\ pass' = pass /\ stack = <<>> /\ stack' = <<Call(Loop)>>
      /\ UNCHANGED <<diTypes, visited>>
  BY DEF StartDebugTypes
<1>2. Len(stack') = 1 /\ 1..(Len(stack') - 1) = {} /\ 2..Len(stack') = {}
  BY <1>1
<1>3. Walking'
  BY <1>2 DEF Walking
<1> QED
  BY <1>1, <1>3 DEF FixOK, Complete

\* Every step keeps the cache complete.
LEMMA FixOKStep ==
  ASSUME ModuleOK(mod), DEInv, TablesOK, FixOK, [DTNext]_deVars
  PROVE  FixOK'
<1>1. CASE NameStep
  <2>1. UNCHANGED diTypes /\ pass' \in NoCalls \cup {"parseMetadataTypes", "includes"}
    BY <1>1, NameStepIs
  <2>2. CASE pass' \notin Fixes
    BY <2>1, <2>2, FixOKElsewhere
  <2>3. CASE pass' \in Fixes
    <3>1. CreateExpressions
      BY <1>1, <2>3 DEF NameStep, Fixes, DetermineIncludes, StartGlobals, ComputeTopo, NameFunctions,
                        InitializeGlobalVars
    <3>2. stack = <<>> /\ visited = {} /\ UNCHANGED <<stack, visited>>
      BY <3>1 DEF CreateExpressions, DEInv, PhaseOK, Idle, BeforeOrder, BehindOrder, Fixes,
                  WritesBefore, WritesBehind
    <3> QED
      BY <2>1, <3>2 DEF FixOK, Complete
  <2> QED
    BY <2>2, <2>3
<1>2. CASE WriterStep
  <2>1. UNCHANGED diTypes /\ pass' \notin Fixes
    BY <1>2, WriterStepIs
  <2> QED
    BY <2>1, FixOKElsewhere
<1>3. CASE StartStructs \/ StructDefinition
  <2>1. UNCHANGED diTypes /\ pass' \notin Fixes
    BY <1>3, StructStepIs DEF Fixes
  <2> QED
    BY <2>1, FixOKElsewhere
<1>4. CASE ParseStructDeclarations \/ ParseStructItems \/ FindDeclaredFunctions
  <2>1. UNCHANGED diTypes /\ pass' \notin Fixes
    BY <1>4 DEF Fixes, ParseStructDeclarations, ParseStructItems, FindDeclaredFunctions
  <2> QED
    BY <2>1, FixOKElsewhere
<1>5. CASE StartDebugTypes
  BY <1>5, StartFixing
<1>6. CASE FixType
  BY <1>6, FixTypeStep
<1>7. CASE UNCHANGED deVars
  <2>1. /\ UNCHANGED <<mod, pass, items>>
        /\ UNCHANGED <<diTypes, roots, visited, stack>>
    BY <1>7, NothingMoves
  <2>2. \A x : Parts(x)' = Parts(x)
    BY <2>1, PartsKept
  <2>3. Walking => Walking'
    <3>1. ModuleOK(mod)' /\ \A s \in DOMAIN mod.debugItems : Len(items'[s]) = Len(items[s])
      BY <2>1
    <3>2. Fixable' = Fixable
      BY <2>1, <3>1, FixableKept
    <3> QED
      BY <2>1, <2>2, <3>2 DEF Walking
  <2> QED
    BY <2>1, <2>3 DEF FixOK, Complete
<1> QED
  BY <1>1, <1>2, <1>3, <1>4, <1>5, <1>6, <1>7, EveryStep

\* The tables keep what the passes put into them.
LEMMA TablesStep ==
  ASSUME ModuleOK(mod), DEInv, TablesOK, FixOK, [DTNext]_deVars
  PROVE  TablesOK'
<1>1. CASE DetermineIncludes \/ ParseStructDeclarations
  BY <1>1, DeclarationsParsed
<1>2. CASE ParseStructItems
  BY <1>2, ItemsParsed
<1>3. CASE FindDeclaredFunctions
  BY <1>3, UsesParsed
<1>4. CASE NameStep /\ ~DetermineIncludes
  <2>1. /\ UNCHANGED <<mod, structs, unnamedStructs, typeDefs, items>>
        /\ \/ UNCHANGED pass
           \/ pass = "determineIncludes" /\ pass' = "parseStructDeclarations"
           \/ pass \in NoCalls \ NoFunctions /\ pass' \in (NoCalls \ NoFunctions) \cup Late
    BY <1>4, NameStepIs
  <2>2. ItemsOK'
    BY <2>1 DEF TablesOK, ItemsOK
  <2>3. pass # "determineIncludes"
    BY <1>4 DEF NameStep, StartGlobals, ComputeTopo, NameFunctions, InitializeGlobalVars,
                CreateExpressions
  <2> QED
    BY <2>1, <2>2, <2>3, TablesLate
<1>5. CASE WriterStep \/ StartStructs \/ StructDefinition
  <2>1. /\ UNCHANGED <<mod, structs, unnamedStructs, typeDefs, items>>
        /\ pass \in Late /\ pass' \in Late
    BY <1>5, WriterStepIs, StructStepIs
  <2>2. ItemsOK'
    BY <2>1 DEF TablesOK, ItemsOK
  <2> QED
    BY <2>1, <2>2, TablesLate
<1>6. CASE StartDebugTypes \/ FixType
  <2>1. /\ UNCHANGED <<mod, structs, unnamedStructs, typeDefs>>
        /\ pass \in Late /\ pass' \in Late
    BY <1>6, DebugStepIs
  <2>2. StartDebugTypes => UNCHANGED items
    BY DEF StartDebugTypes, collected
  <2>3. ItemsOK'
    BY <1>6, <2>1, <2>2, FixTypeStep DEF TablesOK, ItemsOK
  <2> QED
    BY <2>1, <2>3, TablesLate
<1>7. CASE UNCHANGED deVars
  <2>1. UNCHANGED <<mod, pass, structs, unnamedStructs, typeDefs, items>>
    BY <1>7, NothingMoves
  <2>2. ItemsOK'
    BY <2>1 DEF TablesOK, ItemsOK
  <2> QED
    BY <2>1, <2>2, TablesLate
<1> QED
  BY <1>1, <1>2, <1>3, <1>4, <1>5, <1>6, <1>7, EveryStep

-----------------------------------------------------------------------------
(* The typedefs, and their numbers. *)

DebugDefs == {t \in Range(diTypes) : Is(t, "debug function")}

\* The places in front of the last one.
LEMMA NotLast == \A a, b \in Nat : a + 1 <= b => \A i \in 1..a : i \in 1..b /\ i # a + 1
OBVIOUS

\* Fixed types take the typedefs of the function pointers in them, or add them behind.
LEMMA DebugTypedefsAre ==
  ASSUME Complete(diTypes)
  PROVE  /\ DebugTypedefs \in Seq(Types) /\ IsInjective(DebugTypedefs) /\ InOrder(DebugTypedefs)
         /\ Range(DebugTypedefs) = DebugDefs
<1> DEFINE ts == diTypes
           k == Len(ts)
           Next(n, y) == IF Is(ts[n], "debug function") THEN Append(y, ts[n]) ELSE y
           Is0(d) == d = [n \in 0..k |-> IF n = 0 THEN <<>> ELSE Next(n, d[n - 1])]
           step == [n \in 1..k |-> [y \in Seq(Types) |-> Next(n, y)]]
           D == CHOOSE d : Is0(d)
<1>1. k \in Nat /\ (\A n \in 1..k : ts[n] \in Types /\ IsDebug[ts[n]]) /\ DOMAIN ts = 1..k
  BY DEF Complete, Debugs
<1>2. \A n \in 1..k : \A y \in Seq(Types) : Next(n, y) \in Seq(Types) /\ step[n][y] = Next(n, y)
  <2> SUFFICES ASSUME NEW n \in 1..k, NEW y \in Seq(Types)
               PROVE  Next(n, y) \in Seq(Types) /\ step[n][y] = Next(n, y)
    OBVIOUS
  <2>1. \A x \in Types : Append(y, x) \in Seq(Types)
    OBVIOUS
  <2>2. ts[n] \in Types
    BY <1>1
  <2> HIDE DEF k, ts
  <2> QED
    BY <2>1, <2>2
<1>3. DebugTypedefs = D[k]
  BY DEF DebugTypedefs
<1> HIDE DEF step, Next, k
<1>4. PICK R : Recursion(R, Seq(Types), <<>>, step, k)
  <2>1. <<>> \in Seq(Types)
    OBVIOUS
  <2> QED
    BY <1>1, <1>2, <2>1, RecursionDefined DEF Steps
<1>5. /\ R \in [0..k -> Seq(Types)] /\ R[0] = <<>>
      /\ \A n \in 1..k : R[n] = step[n][R[n - 1]]
  BY <1>4 DEF Recursion
<1>6. \A n \in 1..k : n - 1 \in 0..k /\ R[n - 1] \in Seq(Types) /\ R[n] = Next(n, R[n - 1])
  <2> SUFFICES ASSUME NEW n \in 1..k
               PROVE  n - 1 \in 0..k /\ R[n - 1] \in Seq(Types) /\ R[n] = Next(n, R[n - 1])
    OBVIOUS
  <2>1. n - 1 \in 0..k
    BY <1>1
  <2> QED
    BY <1>2, <1>5, <2>1
<1>7. Is0(R)
  <2>1. ASSUME NEW n \in 0..k PROVE R[n] = IF n = 0 THEN <<>> ELSE Next(n, R[n - 1])
    <3>1. n = 0 \/ n \in 1..k
      BY <1>1
    <3> QED
      BY <1>1, <1>5, <1>6, <3>1
  <2> QED
    BY <1>5, <2>1
<1>8. Is0(D)
  <2> HIDE DEF Is0
  <2> QED
    BY <1>7
<1> HIDE DEF D
<1>9. D[0] = <<>> /\ \A n \in 1..k : D[n] = Next(n, D[n - 1])
  <2>1. 0 \in 0..k /\ \A n \in 1..k : n \in 0..k /\ n # 0
    BY <1>1
  <2> QED
    BY <1>8, <2>1
<1> DEFINE F(n) == {ts[i] : i \in {j \in 1..n : Is(ts[j], "debug function")}}
           Good(n) == /\ D[n] \in Seq(Types) /\ IsInjective(D[n]) /\ InOrder(D[n])
                      /\ Range(D[n]) = F(n)
           T == {n \in Nat : n <= k => Good(n)}
<1>10. 0 \in T
  <2>1. F(0) = {} /\ <<>> \in Seq(Types) /\ Range(<<>>) = {} /\ IsInjective(<<>>)
    BY DEF Range, IsInjective
  <2>2. InOrder(<<>>)
    BY DEF InOrder
  <2> QED
    BY <1>9, <2>1, <2>2
<1> HIDE DEF T
<1>11. ASSUME NEW n \in Nat, n + 1 <= k, Good(n) PROVE Good(n + 1)
  <2> DEFINE x == ts[n + 1]
  <2>1. /\ n \in Nat /\ n <= k /\ n + 1 \in 1..k /\ (n + 1) - 1 = n
        /\ 1..n + 1 = 1..n \cup {n + 1}
    <3> HIDE DEF Good
    <3> QED
      BY <1>1, <1>11
  <2>2. /\ D[n] \in Seq(Types) /\ IsInjective(D[n]) /\ InOrder(D[n]) /\ Range(D[n]) = F(n)
        /\ x \in Types /\ IsDebug[x]
    BY <1>1, <1>11, <2>1
  <2>3. F(n + 1) = F(n) \cup (IF Is(x, "debug function") THEN {x} ELSE {})
    BY <2>1
  <2>4. D[n + 1] = IF Is(x, "debug function") THEN Append(D[n], x) ELSE D[n]
    BY <1>9, <2>1 DEF Next
  <2>5. Is(x, "debug function") => Inner(x) \subseteq F(n)
    <3> SUFFICES ASSUME Is(x, "debug function"), NEW g \in Inner(x) PROVE g \in F(n)
      OBVIOUS
    <3>1. PICK j \in 1..((n + 1) - 1) : ts[j] = g
      BY <1>1, <2>1 DEF InOrder, Complete
    <3>2. Is(g, "debug function")
      <4>1. PICK p \in Range(x[2]) \cup {x[3]} : g \in FunctionTypes[p]
        BY DEF Inner, Is, IsFunction
      <4>2. p \in Types /\ IsDebug[p]
        BY <2>2, <4>1, PartsOfFunction, IsDebugIs DEF Is, IsFunction
      <4> QED
        BY <4>1, <4>2, DebugInner
    <3> QED
      BY <2>1, <3>1, <3>2
  <2>6. Is(x, "debug function") => x \notin F(n)
    <3> SUFFICES ASSUME Is(x, "debug function"), NEW j \in 1..n, ts[j] = x PROVE FALSE
      OBVIOUS
    <3>1. j \in 1..k /\ n + 1 \in 1..k /\ j # n + 1
      <4>1. \A i \in 1..n : i \in 1..k /\ i # n + 1
        BY <1>1, <1>11, NotLast
      <4> QED
        BY <2>1, <4>1
    <3>2. j \in DOMAIN diTypes /\ n + 1 \in DOMAIN diTypes
      BY <1>1, <3>1
    <3> QED
      BY <3>1, <3>2 DEF Complete, Is
  <2> HIDE DEF F, x
  <2>7. CASE Is(x, "debug function")
    <3>1. D[n + 1] = Append(D[n], x)
      BY <2>4, <2>7
    <3>2. Inner(x) \subseteq Range(D[n]) /\ x \notin Range(D[n])
      BY <2>2, <2>5, <2>6, <2>7
    <3>3. /\ Append(D[n], x) \in Seq(Types) /\ Range(Append(D[n], x)) = Range(D[n]) \cup {x}
          /\ IsInjective(Append(D[n], x)) /\ InOrder(Append(D[n], x))
      BY <2>2, <3>2, AppendIs, StaysInjective, AppendInOrder
    <3> QED
      BY <2>2, <2>3, <2>7, <3>1, <3>3
  <2>8. CASE ~Is(x, "debug function")
    <3>1. D[n + 1] = D[n]
      BY <2>4, <2>8
    <3> QED
      BY <2>2, <2>3, <2>8, <3>1
  <2> QED
    BY <2>7, <2>8
<1> HIDE DEF Good, T
<1>12. Good(k)
  <2>1. \A n \in T : n \in Nat /\ n + 1 \in T
    BY <1>1, <1>11 DEF T
  <2>2. Nat \subseteq T
    BY <1>10, <2>1, SetInduction
  <2> QED
    BY <1>1, <2>2 DEF T
<1>13. F(k) = DebugDefs
  BY <1>1 DEF Range, DebugDefs
<1> QED
  BY <1>3, <1>12, <1>13 DEF Good

\* Each element of a list has a place in it.
LEMMA PlaceOf ==
  ASSUME NEW S, NEW s \in Seq(S), IsInjective(s), NEW j \in DOMAIN s
  PROVE  /\ {i \in 1..Len(s) : s[i] = s[j]} # {}
         /\ Min({i \in 1..Len(s) : s[i] = s[j]}) = j
<1>1. {i \in 1..Len(s) : s[i] = s[j]} = {j} /\ j \in Nat
  BY DEF IsInjective
<1>2. Min({j}) = j
  BY <1>1 DEF Min
<1> QED
  BY <1>1, <1>2

\* The number of a typedef that is needed by another one is smaller.
LEMMA NumberSmaller ==
  ASSUME Complete(diTypes), TypeDefsOK(typeDefs), \A d \in Range(typeDefs) : \A g \in Inner(d) : Is(g, "function"),
         NEW n \in DOMAIN typeDefs, NEW f \in Inner(SortedTypeDefs[n])
  PROVE  Number(f) \in 1..(n - 1)
<1>1. n \in Nat /\ \A j \in 1..(n - 1) : j \in DOMAIN typeDefs
  BY DEF TypeDefsOK
<1>2. CASE n \in DOMAIN DebugTypedefs
  <2> DEFINE D == DebugTypedefs
  <2>1. D \in Seq(Types) /\ IsInjective(D) /\ InOrder(D) /\ Range(D) = DebugDefs
    BY DebugTypedefsAre
  <2>2. SortedTypeDefs[n] = D[n]
    BY <1>2 DEF SortedTypeDefs
  <2> HIDE DEF D
  <2>3. n \in DOMAIN D
    BY <1>2 DEF D
  <2>4. PICK j \in 1..(n - 1) : D[j] = f
    BY <2>1, <2>2, <2>3 DEF InOrder
  <2>5. j \in DOMAIN D
    BY <2>1, <2>3, <2>4
  <2>6. ~Is(f, "function")
    <3>1. D[j] \in DebugDefs
      BY <2>1, <2>5 DEF Range
    <3> QED
      BY <2>4, <3>1 DEF DebugDefs, Is
  <2>7. LET I == {i \in 1..Len(D) : D[i] = f} IN I # {} /\ Min(I) = j
    BY <2>1, <2>4, <2>5, PlaceOf
  <2> QED
    BY <2>4, <2>6, <2>7 DEF Number, SelectInSeq, D
<1>3. CASE n \notin DOMAIN DebugTypedefs
  <2> DEFINE D == typeDefs
  <2>1. D \in Seq(Types) /\ IsInjective(D) /\ InOrder(D)
    BY DEF TypeDefsOK
  <2>2. SortedTypeDefs[n] = D[n]
    BY <1>3 DEF SortedTypeDefs
  <2>3. PICK j \in 1..(n - 1) : D[j] = f
    BY <2>1, <2>2 DEF InOrder
  <2>4. j \in DOMAIN D
    BY <1>1, <2>3
  <2>5. Is(f, "function")
    BY <2>2 DEF Range
  <2>6. LET I == {i \in 1..Len(D) : D[i] = f} IN I # {} /\ Min(I) = j
    BY <2>1, <2>3, <2>4, PlaceOf
  <2> QED
    BY <2>3, <2>5, <2>6 DEF Number, SelectInSeq
<1> QED
  BY <1>2, <1>3

-----------------------------------------------------------------------------
(* The struct definitions. *)

\* The members of a struct are types.
LEMMA MembersAre ==
  ASSUME ModuleOK(mod), TablesOK, pass \in Late, NEW s \in All
  PROVE  /\ Members(s) \in Seq(Types) /\ Range(Members(s)) \subseteq MembersOf(mod, s)
         /\ \A j \in DOMAIN Members(s) :
              /\ Members(s)[j] \in MembersOf(mod, s)
              /\ ContainedStruct(Members(s)[j]) # None =>
                   /\ ContainedStruct(Members(s)[j]) \in All
                   /\ ContainedStruct(Members(s)[j]) \in CompleteIn[Members(s)[j]]
<1>1. s \in Types /\ s # Loop /\ (s \in Range(mod.structs) => ~Is(s, "literal"))
  BY AllClosed
<1>2. DOMAIN items = Range(mod.structs)
  BY DEF TablesOK, ItemsOK, NoStructs, Late, Fixes, WritesBefore, WritesBehind
<1>3. Members(s) \in Seq(Types) /\ Range(Members(s)) \subseteq MembersOf(mod, s)
  <2>1. CASE s \in Range(mod.structs)
    BY <1>1, <1>2, <2>1 DEF Members, TablesOK, ItemsOK
  <2>2. CASE s \notin Range(mod.structs)
    <3>1. Is(s, "literal")
      BY <2>2 DEF All, Literals
    <3>2. Members(s) = s[2]
      BY <1>1, <1>2, <2>2 DEF Members
    <3> QED
      BY <1>1, <3>1, <3>2, ItemsOf DEF MembersOf
  <2> QED
    BY <2>1, <2>2
<1>4. \A j \in DOMAIN Members(s) : Members(s)[j] \in MembersOf(mod, s)
  BY <1>3 DEF Range
<1> QED
  BY <1>3, <1>4, AllClosed

Defining ==
  /\ stack \in Seq(Calls) /\ stack # <<>> /\ stack[1].node = Loop
  /\ roots \in Seq(All) /\ Range(roots) = All
  /\ \A m \in 2..Len(stack) : stack[m].node \in All
  /\ \A m \in DOMAIN stack : stack[m].i \in 1..Len(Members(stack[m].node)) + 1
  /\ \A m \in 1..(Len(stack) - 1) :
       /\ stack[m].i - 1 \in DOMAIN Members(stack[m].node)
       /\ stack[m + 1].node = ContainedStruct(Members(stack[m].node)[stack[m].i - 1])
  /\ \A m \in DOMAIN stack : \A j \in DOMAIN Members(stack[m].node) :
       j < stack[m].i /\ (m = Len(stack) \/ j # stack[m].i - 1) =>
         ContainedStruct(Members(stack[m].node)[j]) \in visited \cup {None}

StructsWritten ==
  /\ written["struct"] \in Seq(All) /\ IsInjective(written["struct"])
  /\ \A k \in DOMAIN written["struct"] : \A t \in Range(Members(written["struct"][k])) :
       ContainedStruct(t) # None => Before(k, "struct", ContainedStruct(t))

BeforeStructs == NoCalls \cup Fixes \cup {"includes", "structDeclarations", "typedefs"}
BehindStructs == {"functionDeclarations", "intrinsics", "globals", "functions", "end"}

DefinitionsOK ==
  /\ DOMAIN written = Sections
  /\ pass \in BeforeStructs => written["struct"] = <<>>
  /\ pass = "structDefinitions" =>
       /\ StructsWritten /\ visited = Range(written["struct"])
       /\ stack # <<>> => Defining
  /\ pass \in BehindStructs => StructsWritten /\ Range(written["struct"]) = All
  /\ pass \in BeforeStructs \cup BehindStructs =>
       pass \in {"computeGlobalVarsOrder"} \cup Fixes \/ Idle

\* A number from one on that is not one.
LEMMA AboveOne == \A k \in Nat : k >= 1 /\ k # 1 => k \in 2..k
OBVIOUS

\* What a struct leads to is a struct of the module.
LEMMA TopStruct ==
  ASSUME ModuleOK(mod), TablesOK, pass \in Late, Defining
  PROVE  LET L == Len(stack)
             n == Last(stack).node
             i == Last(stack).i
         IN /\ L \in Nat /\ L \in DOMAIN stack /\ Last(stack) = stack[L]
            /\ n # Loop <=> L \in 2..L
            /\ i \in Nat /\ i >= 1 /\ Members(n) \in Seq(Types)
            /\ i <= Len(Members(n)) => i \in DOMAIN Members(n)
            /\ i > Len(Members(n)) => \A j \in DOMAIN Members(n) : j < i
            /\ i \in DOMAIN Members(n) /\ ContainedStruct(Members(n)[i]) # None =>
                 ContainedStruct(Members(n)[i]) \in All
<1> DEFINE L == Len(stack)
           n == Last(stack).node
           i == Last(stack).i
<1>1. /\ L \in Nat /\ L \in DOMAIN stack /\ Last(stack) = stack[L] /\ L >= 1
      /\ i \in 1..Len(Members(n)) + 1
  BY DEF Defining, Last
<1>2. \A s \in All : s \in Types /\ s # Loop /\ IsStruct(s)
  BY AllClosed
<1>3. roots \in Seq(Types) /\ \A j \in DOMAIN roots : ContainedStruct(roots[j]) \in All
  <2>1. \A s \in All : ContainedStruct(s) = s
    BY <1>2 DEF ContainedStruct, IsStruct, Is
  <2>2. roots \in Seq(All)
    BY DEF Defining
  <2> QED
    BY <1>2, <2>1, <2>2
<1>4. /\ n # Loop <=> L \in 2..L
      /\ Members(n) \in Seq(Types)
      /\ i \in DOMAIN Members(n) /\ ContainedStruct(Members(n)[i]) # None =>
                 ContainedStruct(Members(n)[i]) \in All
  <2>1. CASE L = 1
    <3>1. n = Loop /\ L \notin 2..L
      BY <1>1, <2>1 DEF Defining
    <3> QED
      BY <1>3, <3>1 DEF Members
  <2>2. CASE L # 1
    <3>1. L \in 2..L
      BY <1>1, <2>2, AboveOne
    <3>2. n \in All /\ n # Loop
      BY <1>1, <1>2, <3>1 DEF Defining
    <3> QED
      BY <3>1, <3>2, MembersAre
  <2> QED
    BY <2>1, <2>2
<1>5. /\ i \in Nat /\ i >= 1
      /\ i <= Len(Members(n)) => i \in DOMAIN Members(n)
      /\ i > Len(Members(n)) => \A j \in DOMAIN Members(n) : j < i
  <2> DEFINE q == Members(n)
  <2>1. q \in Seq(Types) /\ i \in 1..Len(q) + 1
    BY <1>1, <1>4
  <2> HIDE DEF q, i
  <2>2. /\ i \in Nat /\ i >= 1
        /\ i <= Len(q) => i \in DOMAIN q
        /\ i > Len(q) => \A j \in DOMAIN q : j < i
    BY <2>1
  <2> QED
    BY <2>2 DEF q
<1> QED
  BY <1>1, <1>4, <1>5

\* The members of the structs depend on the tables only.
LEMMA MembersKept ==
  ASSUME UNCHANGED <<items, roots>>
  PROVE  \A x : Members(x)' = Members(x)
BY DEF Members

\* The structs depend on the module only.
LEMMA AllKept == ASSUME UNCHANGED mod PROVE All' = All
BY DEF All

\* A member without a struct keeps the stack of structDefinition a chain of members.
LEMMA DefineAdvance ==
  ASSUME ModuleOK(mod), TablesOK, pass \in Late, Defining, UNCHANGED <<mod, items, roots, visited>>,
         Advance,
         LET x == Last(stack).node
             i == Last(stack).i
         IN i \in DOMAIN Members(x) /\ ContainedStruct(Members(x)[i]) = None
  PROVE  Defining'
<1> DEFINE L == Len(stack)
<1>1. /\ L \in Nat /\ L \in DOMAIN stack /\ stack \in Seq(Calls) /\ Last(stack) = stack[L]
      /\ stack[L].i \in Nat /\ Members(stack[L].node) \in Seq(Types)
  BY TopStruct DEF Defining
<1>2. /\ stack' \in Seq(Calls') /\ Len(stack') = L
      /\ \A m \in 1..L : /\ stack'[m].node = stack[m].node
                         /\ stack'[m].i = IF m = L THEN stack[m].i + 1 ELSE stack[m].i
  BY <1>1, AdvanceIs DEF Defining
<1>3. (\A x : Members(x)' = Members(x)) /\ All' = All
  BY MembersKept, AllKept
<1>4. stack' # <<>> /\ stack'[1].node = Loop /\ DOMAIN stack' = 1..L /\ DOMAIN stack = 1..L
  BY <1>1, <1>2 DEF Defining
<1>5. \A m \in 2..L : m \in 1..L /\ stack'[m].node \in All
  <2>1. \A m \in 2..L : m \in 1..L
    BY <1>1
  <2> QED
    BY <1>2, <2>1 DEF Defining
<1>6. ASSUME NEW m \in 1..L PROVE stack'[m].i \in 1..Len(Members(stack'[m].node)) + 1
  <2>1. CASE m = L
    <3> DEFINE q == Members(stack[L].node)
               i == stack[L].i
    <3>1. q \in Seq(Types) /\ i \in DOMAIN q
      BY <1>1
    <3>2. i + 1 \in 1..Len(q) + 1
      <4> HIDE DEF q, i
      <4> QED
        BY <3>1, NextPlace
    <3> QED
      BY <1>2, <2>1, <3>2
  <2>2. CASE m # L
    BY <1>2, <1>4, <2>2 DEF Defining
  <2> QED
    BY <2>1, <2>2
<1>7. ASSUME NEW m \in 1..(L - 1)
      PROVE  /\ stack'[m].i - 1 \in DOMAIN Members(stack'[m].node)
             /\ stack'[m + 1].node = ContainedStruct(Members(stack'[m].node)[stack'[m].i - 1])
  <2>1. m \in 1..L /\ m + 1 \in 1..L /\ m # L
    BY <1>1
  <2> QED
    BY <1>2, <2>1 DEF Defining
<1>8. ASSUME NEW m \in 1..L, NEW j \in DOMAIN Members(stack'[m].node),
             j < stack'[m].i, m = L \/ j # stack'[m].i - 1
      PROVE  ContainedStruct(Members(stack'[m].node)[j]) \in visited \cup {None}
  <2>1. CASE m = L /\ j = stack[L].i
    <3>1. ContainedStruct(Members(stack[L].node)[stack[L].i]) = None
      BY <1>1
    <3>2. stack'[L].node = stack[L].node
      BY <1>1, <1>2
    <3> QED
      BY <2>1, <3>1, <3>2
  <2>2. CASE j < stack[m].i /\ (m = L \/ j # stack[m].i - 1)
    BY <1>2, <1>4, <1>8, <2>2 DEF Defining
  <2>3. CASE m = L /\ j # stack[L].i
    <3>1. j < stack[L].i + 1 /\ j \in DOMAIN Members(stack[L].node)
      BY <1>2, <1>8, <2>3
    <3>2. j \in Nat
      BY <1>1, <3>1
    <3>3. j < stack[L].i
      BY <1>1, <2>3, <3>1, <3>2
    <3> QED
      BY <2>2, <2>3, <3>3
  <2>4. CASE m # L
    BY <1>2, <1>8, <2>2, <2>4
  <2> QED
    BY <2>1, <2>3, <2>4
<1> HIDE DEF L
<1> QED
  BY <1>2, <1>3, <1>4, <1>5, <1>6, <1>7, <1>8 DEF Defining

\* One less than one more.
LEMMA OneBack == \A k \in Nat : \A y : y = k + 1 => y - 1 = k
OBVIOUS

\* A call for a member keeps the stack of structDefinition a chain of members.
LEMMA DefinePush ==
  ASSUME ModuleOK(mod), TablesOK, pass \in Late, Defining, UNCHANGED <<mod, items, roots, visited>>,
         LET x == Last(stack).node
             i == Last(stack).i
         IN /\ i \in DOMAIN Members(x) /\ ContainedStruct(Members(x)[i]) # None
            /\ Push(ContainedStruct(Members(x)[i]))
  PROVE  Defining'
<1> DEFINE L == Len(stack)
           x == stack[L].node
           i == stack[L].i
           n == ContainedStruct(Members(x)[i])
<1>1. /\ L \in Nat /\ L \in DOMAIN stack /\ stack \in Seq(Calls) /\ Last(stack) = stack[L]
      /\ i \in Nat /\ Members(x) \in Seq(Types) /\ i \in DOMAIN Members(x) /\ n \in All /\ Push(n)
  BY TopStruct DEF Defining
<1>2. n \in Nodes /\ n # Loop
  BY <1>1, AllClosed DEF Nodes
<1> HIDE DEF n
<1>3. /\ stack' \in Seq(Calls') /\ Len(stack') = L + 1
      /\ stack'[L + 1].node = n /\ stack'[L + 1].i = 1
      /\ \A m \in 1..L : /\ stack'[m].node = stack[m].node
                         /\ stack'[m].i = IF m = L THEN stack[m].i + 1 ELSE stack[m].i
  BY <1>1, <1>2, PushIs DEF Defining
<1>4. (\A y : Members(y)' = Members(y)) /\ All' = All
  BY MembersKept, AllKept
<1>5. /\ stack' # <<>> /\ stack'[1].node = Loop /\ DOMAIN stack' = 1..(L + 1)
      /\ DOMAIN stack = 1..L /\ Len(stack') - 1 = L
      /\ \A m \in 1..(L + 1) : m \in 1..L \/ m = L + 1
      /\ \A m \in 2..(L + 1) : m \in 2..L \/ m = L + 1
      /\ \A m \in 2..L : m \in 1..L
  <2>1. stack' # <<>> /\ DOMAIN stack' = 1..(L + 1) /\ DOMAIN stack = 1..L
    BY <1>1, <1>3
  <2>2. stack'[1].node = Loop
    <3>1. 1 \in 1..L
      BY <1>1
    <3> QED
      BY <1>3, <3>1 DEF Defining
  <2>3. Len(stack') - 1 = L
    BY <1>1, <1>3
  <2>4. /\ \A m \in 1..(L + 1) : m \in 1..L \/ m = L + 1
        /\ \A m \in 2..(L + 1) : m \in 2..L \/ m = L + 1
        /\ \A m \in 2..L : m \in 1..L
    <3> HIDE DEF L
    <3> QED
      BY <1>1, OneMorePlace
  <2> QED
    BY <2>1, <2>2, <2>3, <2>4
<1>6. \A m \in 2..(L + 1) : stack'[m].node \in All
  BY <1>1, <1>3, <1>5 DEF Defining
<1>7. ASSUME NEW m \in 1..(L + 1) PROVE stack'[m].i \in 1..Len(Members(stack'[m].node)) + 1
  <2>1. CASE m = L
    <3> DEFINE q == Members(stack[L].node)
    <3>1. q \in Seq(Types) /\ i \in DOMAIN q
      BY <1>1
    <3>2. i + 1 \in 1..Len(q) + 1
      <4> HIDE DEF q, i
      <4> QED
        BY <3>1, NextPlace
    <3> QED
      BY <1>1, <1>3, <2>1, <3>2
  <2>2. CASE m \in 1..L /\ m # L
    BY <1>3, <1>5, <2>2 DEF Defining
  <2>3. CASE m = L + 1
    <3>1. Members(n) \in Seq(Types)
      BY <1>1, MembersAre
    <3>2. 1 \in 1..Len(Members(n)) + 1
      BY <3>1, FirstPlace
    <3> QED
      BY <1>3, <2>3, <3>2
  <2> QED
    BY <1>5, <2>1, <2>2, <2>3
<1>8. ASSUME NEW m \in 1..L
      PROVE  /\ stack'[m].i - 1 \in DOMAIN Members(stack'[m].node)
             /\ stack'[m + 1].node = ContainedStruct(Members(stack'[m].node)[stack'[m].i - 1])
  <2>1. CASE m = L
    <3>1. i + 1 - 1 = i
      BY <1>1, BackAgain
    <3>0. stack'[L].i = i + 1 /\ stack'[L].node = x /\ stack'[L + 1].node = n
      BY <1>1, <1>3, <1>5
    <3>4. stack'[m].i = i + 1 /\ stack'[m].node = x /\ stack'[m + 1].node = n
      <4> HIDE DEF L, x, i
      <4> QED
        BY <2>1, <3>0
    <3>2. stack'[m].i - 1 = i /\ stack'[m].node = x /\ stack'[m + 1].node = n
      <4>1. stack'[m].i - 1 = i
        BY <1>1, <3>4, OneBack
      <4> QED
        BY <3>4, <4>1
    <3> QED
      BY <1>1, <3>2 DEF n
  <2>2. CASE m # L
    <3>1. m \in 1..(L - 1) /\ m + 1 \in 1..L
      BY <1>1, <2>2
    <3>2. stack'[m].i = stack[m].i /\ stack'[m].node = stack[m].node /\ stack'[m + 1].node = stack[m + 1].node
      BY <1>3, <2>2, <3>1
    <3>3. /\ stack[m].i - 1 \in DOMAIN Members(stack[m].node)
          /\ stack[m + 1].node = ContainedStruct(Members(stack[m].node)[stack[m].i - 1])
      BY <3>1 DEF Defining
    <3> QED
      BY <3>2, <3>3
  <2> QED
    BY <2>1, <2>2
<1>9. ASSUME NEW m \in 1..(L + 1), NEW j \in DOMAIN Members(stack'[m].node),
             j < stack'[m].i, m = L + 1 \/ j # stack'[m].i - 1
      PROVE  ContainedStruct(Members(stack'[m].node)[j]) \in visited \cup {None}
  <2>1. CASE m = L + 1
    <3>1. Members(n) \in Seq(Types) /\ j \in DOMAIN Members(n) /\ j < 1
      BY <1>1, <1>3, <1>9, <2>1, MembersAre
    <3>2. j \in Nat /\ ~(j < 1)
      BY <3>1, PlaceIs
    <3> QED
      BY <3>1, <3>2
  <2>2. CASE m \in 1..L /\ m # L
    <3>1. m # L + 1
      BY <1>1, <2>2
    <3> QED
      BY <1>3, <1>5, <1>9, <2>2, <3>1 DEF Defining
  <2>3. CASE m = L
    <3>1. j < i + 1 /\ j # i /\ j \in DOMAIN Members(x)
      <4>1. i + 1 - 1 = i /\ L # L + 1
        BY <1>1, BackAgain
      <4>2. stack'[m].i = i + 1 /\ stack'[m].node = x
        BY <1>1, <1>3, <2>3
      <4>3. j < stack'[m].i /\ (m = L + 1 \/ j # stack'[m].i - 1) /\ j \in DOMAIN Members(stack'[m].node)
        BY <1>9
      <4>4. j # stack'[m].i - 1
        BY <2>3, <4>1, <4>3
      <4>5. stack'[m].i - 1 = i
        BY <1>1, <4>2, OneBack
      <4> HIDE DEF L, x, i
      <4> QED
        BY <4>2, <4>3, <4>4, <4>5
    <3>2. j \in Nat
      BY <1>1, <3>1
    <3>3. j < i
      BY <1>1, <3>1, <3>2
    <3> QED
      BY <1>1, <1>3, <2>3, <3>1, <3>3 DEF Defining
  <2> QED
    BY <1>5, <2>1, <2>2, <2>3
<1> HIDE DEF L, x, i
<1> QED
  BY <1>3, <1>4, <1>5, <1>6, <1>7, <1>8, <1>9, ZenonT(40) DEF Defining

\* A return of structDefinition keeps the stack a chain of members.
LEMMA DefineReturn ==
  ASSUME ModuleOK(mod), TablesOK, pass \in Late, Defining, UNCHANGED <<mod, items, roots>>,
         Last(stack).node # Loop, Return, visited \cup {Last(stack).node} \subseteq visited'
  PROVE  Defining'
<1> DEFINE L == Len(stack)
<1>1. /\ L \in Nat /\ L \in 2..L /\ stack \in Seq(Calls) /\ Last(stack) = stack[L]
  BY TopStruct DEF Defining
<1>2. /\ stack' \in Seq(Calls') /\ Len(stack') = L - 1
      /\ \A m \in 1..(L - 1) : stack'[m] = stack[m]
  BY <1>1, ReturnIs DEF Defining
<1>3. (\A y : Members(y)' = Members(y)) /\ All' = All
  BY MembersKept, AllKept
<1>4. /\ stack' # <<>> /\ stack'[1].node = Loop /\ DOMAIN stack' = 1..(L - 1)
      /\ \A m \in 1..(L - 1) : m \in DOMAIN stack
      /\ \A m \in 2..(L - 1) : m \in 2..L /\ m \in 1..(L - 1)
      /\ \A m \in 1..(L - 1 - 1) : m \in 1..(L - 1) /\ m + 1 \in 1..(L - 1)
  BY <1>1, <1>2 DEF Defining
<1>5. \A m \in 2..(L - 1) : stack'[m].node \in All
  BY <1>2, <1>4 DEF Defining
<1>6. \A m \in 1..(L - 1) : stack'[m].i \in 1..Len(Members(stack'[m].node)) + 1
  BY <1>2, <1>4 DEF Defining
<1>7. \A m \in 1..(L - 1 - 1) :
        /\ stack'[m].i - 1 \in DOMAIN Members(stack'[m].node)
        /\ stack'[m + 1].node = ContainedStruct(Members(stack'[m].node)[stack'[m].i - 1])
  BY <1>2, <1>4 DEF Defining
<1>8. ASSUME NEW m \in 1..(L - 1), NEW j \in DOMAIN Members(stack'[m].node),
             j < stack'[m].i, m = L - 1 \/ j # stack'[m].i - 1
      PROVE  ContainedStruct(Members(stack'[m].node)[j]) \in visited' \cup {None}
  <2>1. CASE m = L - 1 /\ j = stack[m].i - 1
    <3>1. m + 1 = L
      BY <1>1, <2>1
    <3>2. stack[L].node = ContainedStruct(Members(stack[m].node)[j])
      BY <2>1, <3>1 DEF Defining
    <3> QED
      BY <1>1, <1>2, <3>2
  <2>2. CASE j # stack[m].i - 1
    BY <1>2, <1>4, <1>8, <2>2 DEF Defining
  <2> QED
    BY <1>2, <1>8, <2>1, <2>2
<1> HIDE DEF L
<1> QED
  BY <1>2, <1>3, <1>4, <1>5, <1>6, <1>7, <1>8 DEF Defining

\* What is written of structs depends on their members only.
LEMMA StructsKept ==
  ASSUME StructsWritten, UNCHANGED <<mod, items>>, written'["struct"] = written["struct"],
         Loop \notin All
  PROVE  StructsWritten'
<1>1. All' = All
  BY AllKept
<1>2. \A x \in All : Members(x)' = Members(x)
  BY DEF Members
<1>3. \A k \in DOMAIN written["struct"] : written["struct"][k] \in All
  BY DEF StructsWritten
<1> QED
  BY <1>1, <1>2, <1>3 DEF StructsWritten, Before

\* A struct is written behind those it contains.
LEMMA StructAppended ==
  ASSUME StructsWritten, UNCHANGED <<mod, items>>, Loop \notin All, NEW s \in All,
         s \notin Range(written["struct"]), Members(s) \in Seq(Types),
         \A t \in Range(Members(s)) : ContainedStruct(t) \in Range(written["struct"]) \cup {None},
         written'["struct"] = Append(written["struct"], s)
  PROVE  StructsWritten' /\ Range(written["struct"])' = Range(written["struct"]) \cup {s}
<1> DEFINE w == written["struct"]
           v == written'["struct"]
<1>1. w \in Seq(All) /\ IsInjective(w) /\ v = Append(w, s) /\ Len(w) \in Nat /\ DOMAIN w = 1..Len(w)
  BY DEF StructsWritten
<1>2. /\ v \in Seq(All) /\ Len(v) = Len(w) + 1 /\ v[Len(w) + 1] = s
      /\ Range(v) = Range(w) \cup {s} /\ \A n \in DOMAIN w : v[n] = w[n]
  BY <1>1, AppendIs
<1>3. IsInjective(v)
  BY <1>1, StaysInjective
<1>4. All' = All /\ \A x \in All : Members(x)' = Members(x)
  BY AllKept DEF Members
<1>5. \A k \in DOMAIN w : \A t \in Range(Members(w[k])) : ContainedStruct(t) # None =>
        \E j \in 1..(k - 1) : w[j] = ContainedStruct(t)
  BY DEF StructsWritten, Before
<1>6. \A t \in Range(Members(s)) : ContainedStruct(t) # None => \E j \in DOMAIN w : w[j] = ContainedStruct(t)
  BY DEF Range
<1>7. written["struct"]' = v
  OBVIOUS
<1> HIDE DEF w, v
<1>8. DOMAIN v = 1..(Len(w) + 1) /\ \A k \in DOMAIN v : k \in DOMAIN w \/ k = Len(w) + 1
  BY <1>1, <1>2
<1>9. ASSUME NEW k \in DOMAIN v, NEW t \in Range(Members(v[k])), ContainedStruct(t) # None
      PROVE  \E j \in 1..(k - 1) : v[j] = ContainedStruct(t)
  <2>1. CASE k \in DOMAIN w
    <3>1. v[k] = w[k]
      BY <1>2, <2>1
    <3>2. PICK j \in 1..(k - 1) : w[j] = ContainedStruct(t)
      BY <1>5, <1>9, <2>1, <3>1
    <3>3. j \in DOMAIN w
      BY <1>1, <2>1
    <3> QED
      BY <1>2, <3>2, <3>3
  <2>2. CASE k = Len(w) + 1
    <3>1. PICK j \in DOMAIN w : w[j] = ContainedStruct(t)
      BY <1>2, <1>6, <1>9, <2>2
    <3>2. j \in 1..(k - 1)
      BY <1>1, <2>2
    <3> QED
      BY <1>2, <3>1, <3>2
  <2> QED
    BY <1>8, <2>1, <2>2
<1>10. \A k \in DOMAIN v : v[k] \in All
  BY <1>2
<1>11. \A k \in DOMAIN v : \A y : y = v[k] => Members(y)' = Members(y)
  BY <1>4, <1>10
<1>12. StructsWritten'
  <2>1. All' = All
    BY <1>4
  <2> QED
    BY <1>2, <1>3, <1>7, <1>9, <1>11, <2>1 DEF StructsWritten, Before
<1> QED
  BY <1>2, <1>7, <1>12 DEF w

\* structDefinitions starts with every struct of the program.
LEMMA StructsStarted ==
  ASSUME ModuleOK(mod), TablesOK, DefinitionsOK, StartStructs
  PROVE  DefinitionsOK'
<1>1. /\ pass = "structDefinitions" /\ pass' = pass /\ stack' = <<Call(Loop)>>
      /\ UNCHANGED <<mod, items, visited, written, structs, unnamedStructs>>
      /\ \E order \in SetToSeqs(unnamedStructs) : roots' = structs \o order
  BY DEF StartStructs, collected
<1>2. PICK order \in SetToSeqs(unnamedStructs) : roots' = structs \o order
  BY <1>1
<1>3. structs = mod.structs /\ unnamedStructs = Literals(mod) /\ IsFiniteSet(unnamedStructs)
  <2>1. ReachedSoFar = FromItems \cup FromUses
    BY <1>1 DEF ReachedSoFar, NoItems, NoFunctions, NoStructs
  <2> QED
    BY <1>1, <2>1, LiteralsAre DEF TablesOK, NoStructs
<1>4. order \in Seq(Literals(mod)) /\ Range(order) = Literals(mod)
  BY <1>3, SetToSeqsIs
<1>5. structs \in Seq(Range(structs))
  <2>1. structs \in Seq({t \in Types : t[1] \in {"struct", "union"}})
    BY <1>3 DEF ModuleOK
  <2> QED
    BY <2>1 DEF Range
<1>6. structs \in Seq(All) /\ order \in Seq(All)
  BY <1>3, <1>4, <1>5 DEF All
<1>7. roots' \in Seq(All) /\ Range(roots') = Range(structs) \cup Range(order)
  BY <1>2, <1>6, ConcatIs
<1>8. Range(roots') = All
  BY <1>3, <1>4, <1>7 DEF All
<1>9. All' = All /\ Loop \notin All
  BY <1>1, AllKept, AllClosed
<1>10. Members(Loop)' = roots' /\ ~(Loop \in All)
  BY <1>9 DEF Members
<1>11. Defining'
  <2>1. /\ stack' \in Seq(Calls') /\ Len(stack') = 1 /\ stack'[1] = Call(Loop) /\ DOMAIN stack' = {1}
    BY <1>1 DEF Call, Calls, Nodes
  <2>2. stack'[1].node = Loop /\ stack'[1].i = 1
    BY <2>1 DEF Call
  <2>3. 1 \in 1..Len(roots') + 1
    BY <1>7
  <2>4. \A j \in DOMAIN roots' : ~(j < 1)
    BY <1>7
  <2>5. stack' # <<>> /\ 2..Len(stack') = {} /\ 1..(Len(stack') - 1) = {}
    BY <2>1
  <2>6. roots' \in Seq(All') /\ Range(roots') = All'
    BY <1>7, <1>8, <1>9
  <2>7. \A y : y = Loop => Members(y)' = roots'
    BY DEF Members
  <2> QED
    BY <2>1, <2>2, <2>3, <2>4, <2>5, <2>6, <2>7 DEF Defining
<1>12. StructsWritten' /\ visited' = Range(written["struct"])'
  <2>1. StructsWritten /\ visited = Range(written["struct"])
    BY <1>1 DEF DefinitionsOK
  <2> QED
    BY <1>1, <1>9, <2>1, StructsKept
<1>13. DOMAIN written' = Sections
  BY <1>1 DEF DefinitionsOK
<1>14. pass' \notin BeforeStructs /\ pass' \notin BehindStructs
  BY <1>1 DEF BeforeStructs, BehindStructs, NoCalls, NoNames, NoFunctions, NoItems, NoStructs, Fixes
<1> QED
  BY <1>11, <1>12, <1>13, <1>14 DEF DefinitionsOK

\* structDefinition writes a struct behind those its members need.
LEMMA Structs ==
  ASSUME ModuleOK(mod), TablesOK, DefinitionsOK, StructDefinition
  PROVE  DefinitionsOK'
<1> DEFINE L == Len(stack)
           s == Last(stack).node
           i == Last(stack).i
<1>1. /\ pass = "structDefinitions" /\ stack # <<>> /\ pass \in Late
      /\ UNCHANGED <<mod, items, roots>>
  BY DEF StructDefinition, collected, Late, WritesBefore
<1>2. Defining /\ StructsWritten /\ visited = Range(written["struct"]) /\ DOMAIN written = Sections
  BY <1>1 DEF DefinitionsOK
<1>3. /\ s # Loop <=> L \in 2..L
      /\ L \in Nat /\ L \in DOMAIN stack /\ Last(stack) = stack[L]
      /\ i \in Nat /\ Members(s) \in Seq(Types)
      /\ i <= Len(Members(s)) => i \in DOMAIN Members(s)
      /\ i > Len(Members(s)) => \A j \in DOMAIN Members(s) : j < i
  BY <1>1, <1>2, TopStruct
<1>4. pass \notin BeforeStructs /\ pass \notin BehindStructs
  BY <1>1 DEF BeforeStructs, BehindStructs, NoCalls, NoNames, NoFunctions, NoItems, NoStructs, Fixes
<1>5. Loop \notin All
  BY AllClosed
<1>6. CASE /\ i <= Len(Members(s))
           /\ LET c == ContainedStruct(Members(s)[i])
              IN IF c = None THEN Advance ELSE Push(c)
           /\ UNCHANGED <<visited, written, pass>>
  <2>1. Defining'
    <3>1. CASE ContainedStruct(Members(s)[i]) = None
      BY <1>1, <1>2, <1>3, <1>6, <3>1, DefineAdvance
    <3>2. CASE ContainedStruct(Members(s)[i]) # None
      BY <1>1, <1>2, <1>3, <1>6, <3>2, DefinePush
    <3> QED
      BY <3>1, <3>2
  <2>2. StructsWritten'
    BY <1>1, <1>2, <1>5, <1>6, StructsKept
  <2> QED
    BY <1>2, <1>4, <1>6, <2>1, <2>2 DEF DefinitionsOK
<1>7. CASE i > Len(Members(s))
  <2>1. \A j \in DOMAIN Members(s) : ContainedStruct(Members(s)[j]) \in visited \cup {None}
    <3> HIDE DEF L, s, i
    <3>1. \A j \in DOMAIN Members(s) : j < i
      BY <1>3, <1>7
    <3>2. s = stack[L].node /\ i = stack[L].i
      BY <1>3 DEF s, i
    <3>3. L = Len(stack)
      BY DEF L
    <3> QED
      BY <1>2, <1>3, <3>1, <3>2, <3>3 DEF Defining
  <2>2. CASE /\ s # Loop /\ Return /\ UNCHANGED pass
             /\ IF s \in visited THEN UNCHANGED <<visited, written>>
                ELSE /\ visited' = visited \cup {s}
                     /\ written' = [written EXCEPT !["struct"] = Append(@, s)]
    <3>1. visited \cup {s} \subseteq visited'
      BY <2>2
    <3>2. Defining'
      BY <1>1, <1>2, <2>2, <3>1, DefineReturn
    <3>3. StructsWritten' /\ visited' = Range(written["struct"])'
      <4>1. CASE s \in visited
        BY <1>1, <1>2, <1>5, <2>2, <4>1, StructsKept
      <4>2. CASE s \notin visited
        <5>1. s \in All
          BY <1>2, <1>3, <2>2 DEF Defining
        <5>2. written'["struct"] = Append(written["struct"], s) /\ visited' = visited \cup {s}
          BY <1>2, <2>2, <4>2 DEF Sections
        <5>3. \A t \in Range(Members(s)) : ContainedStruct(t) \in Range(written["struct"]) \cup {None}
          BY <1>2, <2>1 DEF Range
        <5> HIDE DEF s
        <5> QED
          BY <1>1, <1>2, <1>3, <1>5, <4>2, <5>1, <5>2, <5>3, StructAppended
      <4> QED
        BY <4>1, <4>2
    <3>4. DOMAIN written' = Sections
      BY <1>2, <2>2
    <3> QED
      BY <1>4, <2>2, <3>2, <3>3, <3>4 DEF DefinitionsOK
  <2>3. CASE /\ s = Loop /\ visited' = {} /\ Return /\ pass' = "functionDeclarations"
             /\ UNCHANGED written
    <3>1. L = 1
      <4>1. L >= 1
        BY <1>3
      <4>2. L \notin 2..L
        BY <1>3, <2>3
      <4> HIDE DEF L
      <4> QED
        BY <1>3, <4>1, <4>2, AboveOne
    <3>2. Idle'
      <4>1. stack \in Seq(Calls) /\ stack # <<>>
        BY <1>2 DEF Defining
      <4>2. stack' \in Seq(Calls') /\ Len(stack') = Len(stack) - 1
        BY <1>1, <2>3, <4>1, ReturnIs
      <4>3. Len(stack') = 0
        BY <3>1, <4>2
      <4> QED
        BY <2>3, <4>2, <4>3 DEF Idle
    <3>3. Range(written["struct"]) = All
      <4>1. \A r \in All : r \in visited
        <5>1. roots \in Seq(All) /\ Range(roots) = All
          BY <1>2 DEF Defining
        <5>2. \A r \in All : ContainedStruct(r) = r /\ r # None
          <6>1. \A r \in All : IsStruct(r)
            BY AllClosed
          <6> QED
            BY <6>1 DEF ContainedStruct, IsStruct, Is, None
        <5>3. Members(s) = roots
          BY <2>3 DEF Members
        <5> QED
          BY <2>1, <5>1, <5>2, <5>3 DEF Range
      <4>2. Range(written["struct"]) \subseteq All
        BY <1>2 DEF StructsWritten, Range
      <4> QED
        BY <1>2, <4>1, <4>2
    <3>4. StructsWritten' /\ Range(written["struct"])' = All'
      BY <1>1, <1>2, <1>5, <2>3, <3>3, StructsKept, AllKept
    <3>5. pass' \in BehindStructs /\ pass' \notin BeforeStructs /\ pass' # "structDefinitions"
      BY <2>3 DEF BeforeStructs, BehindStructs, NoCalls, NoNames, NoFunctions, NoItems, NoStructs, Fixes
    <3> QED
      BY <1>2, <2>3, <3>2, <3>4, <3>5 DEF DefinitionsOK
  <2> QED
    BY <1>3, <1>7, <2>2, <2>3 DEF StructDefinition
<1> QED
  BY <1>3, <1>6, <1>7 DEF StructDefinition

\* Nothing is written at the start.
LEMMA DefinitionsInit == DEInit => DefinitionsOK
<1> SUFFICES ASSUME DEInit PROVE DefinitionsOK
  OBVIOUS
<1>1. pass = "determineIncludes" /\ stack = <<>> /\ visited = {}
      /\ written = [section \in Sections |-> <<>>]
  BY DEF DEInit
<1>2. written["struct"] = <<>>
  BY <1>1 DEF Sections
<1> QED
  BY <1>1, <1>2 DEF DefinitionsOK, BehindStructs, Idle

\* A step that leaves the structs alone.
LEMMA DefinitionsKept ==
  ASSUME ModuleOK(mod), DefinitionsOK, UNCHANGED mod,
         DOMAIN written' = Sections, written'["struct"] = written["struct"],
         \/ /\ pass \in BeforeStructs /\ pass' \in BeforeStructs
            /\ pass' \in {"computeGlobalVarsOrder"} \cup Fixes \/ Idle'
         \/ /\ pass \in BeforeStructs /\ pass' = "structDefinitions" /\ Idle'
         \/ pass \in BehindStructs /\ pass' \in BehindStructs /\ UNCHANGED <<items, stack, visited>>
         \/ UNCHANGED <<pass, items, stack, visited, roots>>
  PROVE  DefinitionsOK'
<1> USE DEF BeforeStructs, BehindStructs, NoCalls, NoNames, NoFunctions, NoItems, NoStructs, Fixes
<1>1. All' = All /\ Loop \notin All
  BY AllKept, AllClosed
<1>2. CASE /\ pass \in BeforeStructs /\ pass' \in BeforeStructs
           /\ pass' \in {"computeGlobalVarsOrder"} \cup Fixes \/ Idle'
  <2>1. pass' # "structDefinitions" /\ pass' \notin BehindStructs
    BY <1>2
  <2>2. written'["struct"] = <<>>
    BY <1>2 DEF DefinitionsOK
  <2> QED
    BY <1>2, <2>1, <2>2 DEF DefinitionsOK
<1>3. CASE pass \in BeforeStructs /\ pass' = "structDefinitions" /\ Idle'
  <2>1. written["struct"] = <<>>
    BY <1>3 DEF DefinitionsOK
  <2>2. StructsWritten' /\ Range(written["struct"])' = {} /\ stack' = <<>> /\ visited' = {}
    BY <1>3, <2>1 DEF StructsWritten, Range, IsInjective, Idle
  <2> QED
    BY <1>3, <2>2 DEF DefinitionsOK
<1>4. CASE pass \in BehindStructs /\ pass' \in BehindStructs /\ UNCHANGED <<items, stack, visited>>
  <2>1. StructsWritten /\ Range(written["struct"]) = All /\ Idle
    BY <1>4 DEF DefinitionsOK
  <2>2. StructsWritten' /\ Range(written["struct"])' = All' /\ Idle'
    BY <1>1, <1>4, <2>1, StructsKept DEF Idle
  <2> QED
    BY <1>4, <2>2 DEF DefinitionsOK
<1>5. CASE UNCHANGED <<pass, items, stack, visited, roots>>
  <2> USE <1>5
  <2>1. StructsWritten => StructsWritten'
    BY <1>1, StructsKept
  <2>2. Defining => Defining'
    <3>1. \A x : Members(x)' = Members(x)
      BY MembersKept
    <3>2. Calls' = Calls
      BY CallsUnchanged
    <3> QED
      BY <1>1, <3>1, <3>2 DEF Defining
  <2>3. Idle => Idle'
    BY DEF Idle
  <2>4. Range(written["struct"])' = Range(written["struct"])
    OBVIOUS
  <2> HIDE DEF BeforeStructs, BehindStructs
  <2>5. (pass' \in BeforeStructs <=> pass \in BeforeStructs) /\ (pass' \in BehindStructs <=> pass \in BehindStructs)
    BY DEF BeforeStructs, BehindStructs
  <2> QED
    BY <1>1, <2>1, <2>2, <2>3, <2>4, <2>5 DEF DefinitionsOK
<1> QED
  BY <1>2, <1>3, <1>4, <1>5

\* fixType returns to nothing when all types are seen.
LEMMA FixingEnds ==
  ASSUME DEInv, FixType, pass' = "includes"
  PROVE  Idle'
<1>1. /\ pass = "parseMetadataTypes" /\ stack # <<>> /\ UNCHANGED mod
  BY DEF FixType
<1>2. InputOK /\ Fixing
  BY <1>1 DEF DEInv, PhaseOK, Idle, BeforeOrder, BehindOrder, Fixes, WritesBefore, WritesBehind
<1>3. Last(stack).node = Loop /\ Return /\ visited' = {}
  BY <1>1 DEF FixType, Make
<1>4. Len(stack) = 1
  <2> DEFINE L == Len(stack)
  <2>1. L \in Nat /\ L \in DOMAIN stack /\ L \notin 2..L
    BY <1>2, <1>3, TopFix
  <2>2. L >= 1
    BY <2>1
  <2> HIDE DEF L
  <2>3. L = 1
    BY <2>1, <2>2, AboveOne
  <2> QED
    BY <2>3 DEF L
<1>5. stack' \in Seq(Calls') /\ Len(stack') = Len(stack) - 1
  BY <1>1, <1>2, <1>3, ReturnIs DEF Fixing
<1>6. stack' = <<>>
  BY <1>4, <1>5
<1> QED
  BY <1>3, <1>6 DEF Idle

\* Every step keeps the definitions in order.
LEMMA DefinitionsStep ==
  ASSUME ModuleOK(mod), DEInv, TablesOK, DefinitionsOK, [DTNext]_deVars
  PROVE  DefinitionsOK'
<1>1. DEInv'
  BY DEInvStep
<1>2. mod' = mod /\ DOMAIN written = Sections
  BY Fixed DEF DefinitionsOK
<1> DEFINE Rest == {"computeGlobalVarsOrder"} \cup Fixes
<1>3. pass' \in NoCalls => pass' \in Rest \/ Idle'
  BY <1>1 DEF DEInv, PhaseOK, NoCalls, NoNames, NoFunctions, NoItems, NoStructs, BeforeOrder, BehindOrder,
       Fixes, WritesBefore, WritesBehind
<1>4. CASE NameStep
  <2>1. /\ UNCHANGED written
        /\ pass \in NoCalls /\ pass' \in NoCalls \cup {"parseMetadataTypes", "includes"}
    BY <1>4, NameStepIs
  <2>2. CASE pass' = "includes"
    <3>1. pass = "createExpressions" /\ UNCHANGED <<stack, visited>>
      BY <1>4, <2>2 DEF NameStep, DetermineIncludes, StartGlobals, ComputeTopo, NameFunctions,
           InitializeGlobalVars, CreateExpressions
    <3>2. Idle
      BY <3>1 DEF DEInv, PhaseOK, BeforeOrder, BehindOrder, Fixes, WritesBefore, WritesBehind
    <3>3. Idle'
      BY <3>1, <3>2 DEF Idle
    <3>4. pass \in BeforeStructs /\ pass' \in BeforeStructs
      BY <2>1, <2>2 DEF BeforeStructs
    <3> QED
      BY <1>2, <2>1, <3>3, <3>4, DefinitionsKept
  <2>3. CASE pass' # "includes"
    <3>1. pass \in BeforeStructs /\ pass' \in BeforeStructs /\ (pass' \in Rest \/ Idle')
      BY <1>3, <2>1, <2>3 DEF BeforeStructs, Fixes
    <3> QED
      BY <1>2, <2>1, <3>1, DefinitionsKept
  <2> QED
    BY <2>2, <2>3
<1>5. CASE ParseStructDeclarations \/ ParseStructItems \/ FindDeclaredFunctions
  <2>1. UNCHANGED written /\ pass \in NoCalls /\ pass' \in NoCalls
    BY <1>5 DEF ParseStructDeclarations, ParseStructItems, FindDeclaredFunctions, NoCalls, NoNames,
         NoFunctions, NoItems, NoStructs
  <2>2. pass \in BeforeStructs /\ pass' \in BeforeStructs /\ (pass' \in Rest \/ Idle')
    BY <1>3, <2>1 DEF BeforeStructs
  <2> QED
    BY <1>2, <2>1, <2>2, DefinitionsKept
<1>6. CASE StartDebugTypes \/ FixType
  <2>1. UNCHANGED written /\ pass = "parseMetadataTypes" /\ pass' \in Fixes \cup {"includes"}
    BY <1>6, DebugStepIs DEF Fixes
  <2>2. pass' = "includes" => Idle'
    BY <1>6, <2>1, FixingEnds DEF StartDebugTypes
  <2>3. pass \in BeforeStructs /\ pass' \in BeforeStructs /\ (pass' \in Rest \/ Idle')
    BY <2>1, <2>2 DEF BeforeStructs, Fixes
  <2> QED
    BY <1>2, <2>1, <2>3, DefinitionsKept
<1>7. CASE WriterStep
  <2>1. UNCHANGED <<items, visited, stack>>
    BY <1>7, WriterStepIs
  <2>2. DOMAIN written' = Sections /\ written'["struct"] = written["struct"]
    BY <1>2, <1>7 DEF WriterStep, WriteIncludes, WriteStructDeclarations, WriteTypedefs,
         WriteFunctionDeclarations, WriteIntrinsicDefinitions, WriteGlobalVarDefinitions,
         WriteFunctionDefinitions, Write, Sections
  <2>3. \/ pass \in {"includes", "structDeclarations", "typedefs"}
           /\ pass' \in {"structDeclarations", "typedefs", "structDefinitions"}
        \/ pass \in BehindStructs /\ pass' \in BehindStructs
    BY <1>7 DEF WriterStep, WriteIncludes, WriteStructDeclarations, WriteTypedefs,
         WriteFunctionDeclarations, WriteIntrinsicDefinitions, WriteGlobalVarDefinitions,
         WriteFunctionDefinitions, Write, BehindStructs
  <2>4. CASE pass \in {"includes", "structDeclarations", "typedefs"}
             /\ pass' \in {"structDeclarations", "typedefs", "structDefinitions"}
    <3>1. pass \in BeforeStructs /\ (pass' \in BeforeStructs \/ pass' = "structDefinitions")
      BY <2>4 DEF BeforeStructs
    <3>2. Idle
      BY <2>4, <3>1 DEF DefinitionsOK, Fixes
    <3>3. Idle'
      BY <2>1, <3>2 DEF Idle
    <3> QED
      BY <1>2, <2>2, <3>1, <3>3, DefinitionsKept
  <2>5. CASE pass \in BehindStructs /\ pass' \in BehindStructs
    BY <1>2, <2>1, <2>2, <2>5, DefinitionsKept
  <2> QED
    BY <2>3, <2>4, <2>5
<1>8. CASE StartStructs
  BY <1>8, StructsStarted
<1>9. CASE StructDefinition
  BY <1>9, Structs
<1>10. CASE UNCHANGED deVars
  <2>1. UNCHANGED <<pass, items, stack, visited, roots, written>>
    BY <1>10, NothingMoves
  <2> QED
    BY <1>2, <2>1, DefinitionsKept
<1> QED
  BY <1>4, <1>5, <1>6, <1>7, <1>8, <1>9, <1>10, EveryStep

-----------------------------------------------------------------------------
(* The theorems. *)

TypesInv == Started /\ DEInv /\ TablesOK /\ FixOK /\ DefinitionsOK

\* The invariant about types.
LEMMA TypesInvariant == DTSpec => []TypesInv
<1>1. DEInit => TypesInv
  BY StartedInit, DEInvInit, TablesInit, FixOKInit, DefinitionsInit DEF TypesInv
<1>2. TypesInv /\ [DTNext]_deVars => TypesInv'
  <2> SUFFICES ASSUME TypesInv, [DTNext]_deVars PROVE TypesInv'
    OBVIOUS
  <2> USE DEF TypesInv
  <2>1. ModuleOK(mod)
    BY DEF Started
  <2> QED
    BY <2>1, StartedStep, DEInvStep, TablesStep, FixOKStep, DefinitionsStep
<1> QED
  BY <1>1, <1>2, PTL DEF DTSpec

\* What is written of structs, in every pass.
LEMMA StructsAlways == TypesInv => StructsWritten
<1> SUFFICES ASSUME TypesInv PROVE StructsWritten
  OBVIOUS
<1>1. pass \in BeforeStructs \/ pass = "structDefinitions" \/ pass \in BehindStructs
  BY DEF TypesInv, TablesOK, Late, Fixes, WritesBefore, WritesBehind, BeforeStructs, BehindStructs
<1>2. CASE pass \in BeforeStructs
  <2>1. written["struct"] = <<>>
    BY <1>2 DEF TypesInv, DefinitionsOK
  <2> QED
    BY <2>1 DEF StructsWritten, IsInjective
<1> QED
  BY <1>1, <1>2 DEF TypesInv, DefinitionsOK

\* For every module: the declaration of each member of a struct definition
\* declares the member's type, wherever toString and surroundName can say it.
THEOREM MembersTyped == DTSpec => []MembersKeepTheirTypes
<1>1. TypesInv => MembersKeepTheirTypes
  <2> SUFFICES ASSUME TypesInv, NEW s \in Defines("struct"), NEW t \in Range(Members(s)), SaysItAll[t]
               PROVE  Declared(t) = t
    BY DEF MembersKeepTheirTypes
  <2>1. s \in All
    BY StructsAlways DEF StructsWritten, Defines, Range
  <2>2. ModuleOK(mod) /\ TablesOK
    BY DEF TypesInv, Started
  <2>3. pass \in Late
    <3>1. pass \in NoCalls => written["struct"] = <<>>
      BY DEF TypesInv, DefinitionsOK, BeforeStructs
    <3>2. written["struct"] # <<>>
      BY DEF Defines, Range
    <3> QED
      BY <2>2, <3>1, <3>2 DEF TablesOK
  <2>4. t \in Types
    <3>1. Members(s) \in Seq(Types)
      BY <2>1, <2>2, <2>3, MembersAre
    <3> QED
      BY <3>1 DEF Range
  <2> QED
    BY <2>4, DeclaredIs
<1> QED
  BY <1>1, TypesInvariant, PTL

\* For every module and whatever the structs of its debug information refer
\* to: fixType makes no type twice, but for arrays.
THEOREM TypesMadeOnce == DTSpec => []TypesStay
<1>1. TypesInv => TypesStay
  BY DEF TypesInv, FixOK, Complete, TypesStay
<1> QED
  BY <1>1, TypesInvariant, PTL

\* Whether the calls between two of fixType's are all for types that are not
\* structs: each is then less deep than the one before.
LEMMA TypesFall ==
  ASSUME ModuleOK(mod), Fixing, Walking, NEW j \in 2..Len(stack), NEW k \in 2..Len(stack),
         \A n \in j..(k - 1) : ~Is(stack[n].node, "struct")
  PROVE  \A n \in Nat : n >= 1 /\ j + n <= k => Depth[stack[j + n].node] < Depth[stack[j].node]
<1> DEFINE L == Len(stack)
           T == {n \in Nat : n >= 1 /\ j + n <= k => Depth[stack[j + n].node] < Depth[stack[j].node]}
<1>1. L \in Nat /\ stack \in Seq(Calls) /\ DOMAIN stack = 1..L
  BY DEF Fixing
<1>2. \A m \in 2..L : stack[m].node \in Types /\ Depth[stack[m].node] \in Nat
                      /\ (IsStruct(stack[m].node) => stack[m].node \in DOMAIN mod.debugItems)
  BY DepthIs DEF Fixing
<1>3. ASSUME NEW m \in j..(k - 1)
      PROVE  Depth[stack[m + 1].node] < Depth[stack[m].node]
  <2>1. m \in 2..L /\ m \in 1..(L - 1) /\ m + 1 \in 2..L
    BY <1>1
  <2>2. stack[m + 1].node \in Range(Parts(stack[m].node))
    BY <2>1 DEF Walking, Range
  <2> QED
    BY <1>2, <2>1, <2>2, PartsLessDeep
<1>4. 0 \in T
  OBVIOUS
<1>5. ASSUME NEW n \in T PROVE n + 1 \in T
  <2> SUFFICES ASSUME j + (n + 1) <= k PROVE Depth[stack[j + (n + 1)].node] < Depth[stack[j].node]
    OBVIOUS
  <2>1. /\ j + n \in j..(k - 1) /\ (j + n) + 1 = j + (n + 1) /\ j + n \in 2..L /\ j + (n + 1) \in 2..L
        /\ j + n <= k
    BY <1>1
  <2>2. Depth[stack[j + (n + 1)].node] < Depth[stack[j + n].node]
    BY <1>3, <2>1
  <2>3. CASE n = 0
    BY <2>1, <2>2, <2>3
  <2>4. CASE n # 0
    <3>1. Depth[stack[j + n].node] < Depth[stack[j].node]
      BY <2>1, <2>4
    <3>2. \A a, b, c \in Nat : a < b /\ b < c => a < c
      OBVIOUS
    <3> QED
      BY <1>2, <2>1, <2>2, <3>1, <3>2
  <2> QED
    BY <2>3, <2>4
<1> HIDE DEF T
<1>6. Nat \subseteq T
  BY <1>4, <1>5, SetInduction
<1> QED
  BY <1>6 DEF T

\* No struct is defined while it is being defined: the structs of a module do
\* not contain each other in a circle.
LEMMA NoCircle ==
  ASSUME ModuleOK(mod), TablesOK, pass \in Late, Defining, NEW j \in 2..Len(stack),
         NEW k \in 2..Len(stack), j < k
  PROVE  stack[j].node # stack[k].node
<1> SUFFICES ASSUME stack[j].node = stack[k].node PROVE FALSE
  OBVIOUS
<1> DEFINE S == {stack[m].node : m \in j..(k - 1)}
           L == Len(stack)
<1>1. L \in Nat /\ stack \in Seq(Calls) /\ DOMAIN stack = 1..L
  BY DEF Defining
<1>2. \A m \in j..(k - 1) : m \in 2..L /\ m \in 1..(L - 1) /\ (m + 1 \in j..(k - 1) \/ m + 1 = k)
  BY <1>1
<1>3. S \in SUBSET All /\ S # {}
  <2>1. j \in j..(k - 1)
    BY <1>1
  <2> QED
    BY <1>2, <2>1 DEF Defining
<1>4. PICK s \in S : \A t \in MembersOf(mod, s) : CompleteIn[t] \cap S = {}
  BY <1>3 DEF ModuleOK, All
<1>5. PICK m \in j..(k - 1) : s = stack[m].node
  OBVIOUS
<1>6. stack[m + 1].node \in S
  <2>1. CASE m + 1 \in j..(k - 1)
    BY <2>1
  <2>2. CASE m + 1 = k
    <3>1. j \in j..(k - 1)
      BY <1>1
    <3> QED
      BY <2>2, <3>1
  <2> QED
    BY <1>2, <2>1, <2>2
<1>7. /\ stack[m].i - 1 \in DOMAIN Members(s)
      /\ stack[m + 1].node = ContainedStruct(Members(s)[stack[m].i - 1])
  BY <1>2, <1>5 DEF Defining
<1> DEFINE p == stack[m].i - 1
<1>8. p \in DOMAIN Members(s) /\ ContainedStruct(Members(s)[p]) \in S
  BY <1>6, <1>7
<1> HIDE DEF p, S
<1>9. s \in All
  BY <1>3
<1>10. ContainedStruct(Members(s)[p]) # None
  <2>1. ContainedStruct(Members(s)[p]) \in All
    BY <1>3, <1>8
  <2> QED
    BY <2>1, AllClosed DEF None, IsStruct
<1>11. /\ Members(s)[p] \in MembersOf(mod, s)
       /\ ContainedStruct(Members(s)[p]) \in CompleteIn[Members(s)[p]]
  BY <1>8, <1>9, <1>10, MembersAre
<1> QED
  BY <1>4, <1>8, <1>11

\* The recursions go through cycles of initializers and of structs once, and
\* come to an end: fixType comes back to another type than a struct only by
\* way of a struct, and the structs do not contain each other in a circle.
THEOREM RecursionsEnd == DTSpec => []NoCallWithinItself
<1>1. TypesInv => NoCallWithinItself
  <2> SUFFICES ASSUME TypesInv, NEW j \in DOMAIN stack, NEW k \in DOMAIN stack, j < k,
                      stack[j].node = stack[k].node
               PROVE  /\ pass \in {"parseMetadataTypes", "crash"} /\ ~Is(stack[j].node, "struct")
                      /\ \E i \in j..k : Is(stack[i].node, "struct")
    BY DEF NoCallWithinItself
  <2>1. ModuleOK(mod) /\ TablesOK /\ DEInv /\ FixOK /\ DefinitionsOK /\ InputOK
    BY DEF TypesInv, Started, DEInv
  <2>2. stack # <<>> /\ ~Idle
    BY DEF Idle
  <2>3. \/ pass = "computeGlobalVarsOrder" /\ Searching
        \/ pass \in Fixes /\ Fixing /\ Walking
        \/ pass = "structDefinitions" /\ Defining
    <3>1. \/ pass = "computeGlobalVarsOrder" /\ Searching
          \/ pass \in Fixes /\ Fixing
          \/ pass \in WritesBefore \cup WritesBehind
      BY <2>1, <2>2 DEF DEInv, PhaseOK, BeforeOrder, BehindOrder
    <3>2. pass \in Fixes => Walking
      BY <2>1, <2>2 DEF FixOK
    <3>3. pass \in WritesBefore \cup WritesBehind => pass = "structDefinitions"
      BY <2>1, <2>2 DEF DefinitionsOK, BeforeStructs, BehindStructs, WritesBefore, WritesBehind, Fixes
    <3>4. pass = "structDefinitions" => Defining
      BY <2>1, <2>2 DEF DefinitionsOK
    <3> QED
      BY <3>1, <3>2, <3>3, <3>4
  <2>4. /\ stack[1].node = Loop /\ stack \in Seq(Calls)
        /\ \A m \in 2..Len(stack) : stack[m].node # Loop
    <3>1. Loop \notin All
      BY <2>1, AllClosed
    <3> QED
      BY <2>1, <2>3, <3>1 DEF Searching, Fixing, Defining, InputOK
  <2>5. k \in 2..Len(stack)
    BY <2>4
  <2>6. j \in 2..Len(stack)
    BY <2>4, <2>5
  <2>7. pass \in Fixes /\ Fixing /\ Walking
    <3>1. ~(pass = "computeGlobalVarsOrder" /\ Searching)
      BY <2>5, <2>6 DEF Searching
    <3>2. ~(pass = "structDefinitions" /\ Defining)
      <4>1. pass = "structDefinitions" => pass \in Late
        BY DEF Late, WritesBefore
      <4> QED
        BY <2>1, <2>5, <2>6, <4>1, NoCircle
    <3> QED
      BY <2>3, <3>1, <3>2
  <2>8. ~Is(stack[j].node, "struct")
    BY <2>5, <2>6, <2>7 DEF Fixing
  <2>9. \E i \in j..k : Is(stack[i].node, "struct")
    <3> SUFFICES ASSUME \A i \in j..k : ~Is(stack[i].node, "struct") PROVE FALSE
      OBVIOUS
    <3>1. \A n \in j..(k - 1) : n \in j..k
      BY <2>5, <2>6
    <3>2. \A n \in j..(k - 1) : ~Is(stack[n].node, "struct")
      BY <3>1
    <3>3. k - j \in Nat /\ k - j >= 1 /\ j + (k - j) <= k /\ j + (k - j) = k
      BY <2>5, <2>6
    <3>4. Depth[stack[k].node] < Depth[stack[j].node]
      BY <2>1, <2>5, <2>6, <2>7, <3>2, <3>3, TypesFall
    <3>5. Depth[stack[k].node] \in Nat
      BY <2>5, <2>7, DepthIs DEF Fixing
    <3> QED
      BY <3>4, <3>5
  <2> QED
    BY <2>7, <2>8, <2>9 DEF Fixes
<1> QED
  BY <1>1, TypesInvariant, PTL

-----------------------------------------------------------------------------
(* The functions and the headers. *)

Listed == {h \in DOMAIN Lists : \E n \in mod.functions : ListedName(n) \in Lists[h]}
Declarable == mod.functions \ (DebugFunctions \cup {"isnan"})

NamesOK ==
  /\ headers = (IF pass = "determineIncludes" THEN {} ELSE Listed)
       \cup (IF pass \notin NoStructs /\ VaListTag \in Range(mod.structs) THEN {"stdarg"} ELSE {})
       \cup (IF pass \notin NoCalls /\ mod.compares THEN {"math"} ELSE {})
  /\ functions = [n \in (IF pass \in NoFunctions THEN {} ELSE Declarable) |->
                    IF pass \in NoNames THEN n ELSE Underscored(ListedName(n))]
  /\ intrinsics = IF pass \in NoCalls THEN {} ELSE mod.calls \cap Overflows

\* There are no headers and no functions at the start.
LEMMA NamesInit == DEInit => NamesOK
<1> SUFFICES ASSUME DEInit PROVE NamesOK
  OBVIOUS
<1>1. pass = "determineIncludes" /\ headers = {} /\ functions = [n \in {} |-> n] /\ intrinsics = {}
  BY DEF DEInit
<1> QED
  BY <1>1 DEF NamesOK, NoStructs, NoItems, NoFunctions, NoNames, NoCalls

\* The names stay when what they are made of stays.
LEMMA NamesKept ==
  ASSUME NamesOK, UNCHANGED <<mod, headers, functions, intrinsics>>,
         pass' = "determineIncludes" <=> pass = "determineIncludes",
         pass' \in NoStructs <=> pass \in NoStructs, pass' \in NoFunctions <=> pass \in NoFunctions,
         pass' \in NoNames <=> pass \in NoNames, pass' \in NoCalls <=> pass \in NoCalls
  PROVE  NamesOK'
<1>1. Listed' = Listed /\ Declarable' = Declarable
  BY DEF Listed, Declarable
<1> QED
  BY <1>1 DEF NamesOK

\* Every step keeps the headers and the functions what the module says.
LEMMA NamesStep ==
  ASSUME NamesOK, [DTNext]_deVars
  PROVE  NamesOK'
<1>1. mod' = mod /\ Listed' = Listed /\ Declarable' = Declarable
  BY Fixed DEF Listed, Declarable
<1> DEFINE Same == /\ pass' = "determineIncludes" <=> pass = "determineIncludes"
                   /\ pass' \in NoStructs <=> pass \in NoStructs
                   /\ pass' \in NoFunctions <=> pass \in NoFunctions
                   /\ pass' \in NoNames <=> pass \in NoNames
                   /\ pass' \in NoCalls <=> pass \in NoCalls
<1> USE DEF NoStructs, NoItems, NoFunctions, NoNames, NoCalls
<1>2. CASE DetermineIncludes
  <2>1. /\ pass = "determineIncludes" /\ pass' = "parseStructDeclarations"
        /\ headers' = Listed /\ UNCHANGED <<functions, intrinsics>>
    BY <1>2 DEF DetermineIncludes, Listed
  <2> QED
    BY <1>1, <2>1 DEF NamesOK
<1>3. CASE ParseStructDeclarations
  <2>1. /\ pass = "parseStructDeclarations" /\ pass' = "parseStructItems"
        /\ headers' = headers \cup IF VaListTag \in Range(mod.structs) THEN {"stdarg"} ELSE {}
        /\ UNCHANGED <<functions, intrinsics>>
    BY <1>3 DEF ParseStructDeclarations
  <2>2. headers = Listed
    BY <2>1 DEF NamesOK
  <2>3. headers' = Listed \cup (IF VaListTag \in Range(mod.structs) THEN {"stdarg"} ELSE {})
    BY <2>1, <2>2
  <2> QED
    BY <1>1, <2>1, <2>3 DEF NamesOK
<1>4. CASE ParseStructItems
  <2>1. /\ pass = "parseStructItems" /\ pass' = "findDeclaredFunctions"
        /\ UNCHANGED <<headers, functions, intrinsics>>
    BY <1>4 DEF ParseStructItems
  <2> QED
    BY <1>1, <2>1, NamesKept
<1>5. CASE FindDeclaredFunctions
  <2>1. /\ pass = "findDeclaredFunctions" /\ pass' = "computeGlobalVarsOrder"
        /\ functions' = [n \in Declarable |-> n] /\ UNCHANGED <<headers, intrinsics>>
    BY <1>5 DEF FindDeclaredFunctions, Declarable
  <2> QED
    BY <1>1, <2>1 DEF NamesOK
<1>6. CASE NameFunctions
  <2>1. /\ pass = "nameFunctions" /\ pass' = "initializeGlobalVars"
        /\ functions' = [n \in DOMAIN functions |-> Underscored(ListedName(n))]
        /\ UNCHANGED <<headers, intrinsics>>
    BY <1>6 DEF NameFunctions
  <2>2. DOMAIN functions = Declarable
    BY <2>1 DEF NamesOK
  <2> QED
    BY <1>1, <2>1, <2>2 DEF NamesOK
<1>7. CASE CreateExpressions
  <2>1. /\ pass = "createExpressions" /\ pass' \in {"includes", "parseMetadataTypes"}
        /\ intrinsics' = mod.calls \cap Overflows
        /\ headers' = headers \cup IF mod.compares THEN {"math"} ELSE {}
        /\ UNCHANGED functions
    BY <1>7 DEF CreateExpressions
  <2>2. headers = Listed \cup (IF VaListTag \in Range(mod.structs) THEN {"stdarg"} ELSE {})
    BY <2>1 DEF NamesOK
  <2>3. pass' \notin NoCalls
    BY <2>1
  <2> QED
    BY <1>1, <2>1, <2>2, <2>3 DEF NamesOK
<1>8. CASE StartGlobals \/ ComputeTopo \/ InitializeGlobalVars
  <2>1. UNCHANGED <<headers, functions, intrinsics>>
    BY <1>8 DEF StartGlobals, ComputeTopo, InitializeGlobalVars, collected
  <2>2. \/ pass = "computeGlobalVarsOrder" /\ pass' \in {"computeGlobalVarsOrder", "nameFunctions"}
        \/ pass = "initializeGlobalVars" /\ pass' = "createExpressions"
    BY <1>8 DEF StartGlobals, ComputeTopo, InitializeGlobalVars
  <2> QED
    BY <1>1, <2>1, <2>2, NamesKept
<1>9. CASE WriterStep \/ (StartStructs \/ StructDefinition) \/ (StartDebugTypes \/ FixType)
  <2>1. UNCHANGED <<headers, functions, intrinsics>> /\ pass \in Late /\ pass' \in Late
    BY <1>9, WriterStepIs, StructStepIs, DebugStepIs
  <2>2. pass \notin NoCalls /\ pass' \notin NoCalls
    BY <2>1 DEF Late, Fixes, WritesBefore, WritesBehind
  <2> QED
    BY <1>1, <2>1, <2>2, NamesKept
<1>10. CASE UNCHANGED deVars
  <2>1. UNCHANGED <<pass, headers, functions, intrinsics>>
    BY <1>10, NothingMoves
  <2> QED
    BY <1>1, <2>1, NamesKept
<1> QED
  BY <1>2, <1>3, <1>4, <1>5, <1>6, <1>7, <1>8, <1>9, <1>10, EveryStep DEF NameStep

\* There are finitely many headers.
LEMMA HeadersFinite ==
  ASSUME NamesOK
  PROVE  IsFiniteSet(headers) /\ headers \subseteq DOMAIN Lists \cup {"stdarg"}
<1> DEFINE q == <<"stdlib", "string", "stdio", "pthread", "math", "stdarg">>
           S == {"stdlib", "string", "stdio", "pthread", "math", "stdarg"}
<1>1. DOMAIN Lists \cup {"stdarg"} = S
  BY DEF Lists
<1>2. headers \subseteq S
  <2>1. Listed \subseteq DOMAIN Lists
    BY DEF Listed
  <2>2. "math" \in DOMAIN Lists
    BY DEF Lists
  <2> QED
    BY <1>1, <2>1, <2>2 DEF NamesOK
<1>3. IsFiniteSet(S)
  <2>1. q \in Seq(S)
    OBVIOUS
  <2>2. Range(q) = S
    <3>1. DOMAIN q = {1, 2, 3, 4, 5, 6}
      OBVIOUS
    <3> QED
      BY <3>1 DEF Range
  <2> HIDE DEF q, S
  <2>3. IsFiniteSet(Range(q))
    BY <2>1, FiniteRange
  <2> QED
    BY <2>2, <2>3
<1> QED
  BY <1>1, <1>2, <1>3, FS_Subset

\* The functions printed are finitely many.
LEMMA FunctionsAre ==
  ASSUME NamesOK, ModuleOK(mod)
  PROVE  /\ DOMAIN functions \subseteq mod.functions /\ IsFiniteSet(DOMAIN functions)
         /\ \A ns \in SUBSET DOMAIN functions : IsFiniteSet(Names(ns))
<1>1. DOMAIN functions \subseteq mod.functions /\ IsFiniteSet(mod.functions)
  BY DEF NamesOK, Declarable, ModuleOK
<1>2. IsFiniteSet(DOMAIN functions)
  BY <1>1, FS_Subset
<1>3. ASSUME NEW ns \in SUBSET DOMAIN functions PROVE IsFiniteSet(Names(ns))
  <2> DEFINE f == [n \in ns |-> functions[n]]
  <2>1. IsFiniteSet(ns)
    BY <1>2, FS_Subset
  <2>2. f \in Surjection(ns, Names(ns))
    BY DEF Surjection, Names
  <2> HIDE DEF f
  <2> QED
    BY <2>1, <2>2, FS_Surjection
<1> QED
  BY <1>1, <1>2, <1>3

-----------------------------------------------------------------------------
(* The text. *)

IncludeText == IF useIncludes THEN SetToSeq(headers) ELSE <<>>
IsnanText == IF ~useIncludes /\ "math" \in headers THEN <<"__isnan">> ELSE <<>>
StructText == structs \o SetToSeq(unnamedStructs)
TypedefText == [n \in DOMAIN typeDefs |-> <<n, SortedTypeDefs[n]>>]
DeclarationText == SetToSeq(Names(Printed(DOMAIN functions) \ intrinsics))
OverflowText == SetToSeq(Names(intrinsics \cap mod.overflow))
BodyText == SetToSeq(Names(Printed(mod.defined)))

NoIncludes == NoCalls \cup Fixes \cup {"includes"}
NoStructNames == NoIncludes \cup {"structDeclarations"}
NoTypedefs == NoStructNames \cup {"typedefs"}
NoDeclarations == NoTypedefs \cup {"structDefinitions", "functionDeclarations"}
NoOverflows == NoDeclarations \cup {"intrinsics"}
NoBodies == NoOverflows \cup {"globals", "functions"}

FunctionText ==
  IF pass \in NoIncludes THEN <<>>
  ELSE IF pass \in NoOverflows THEN IsnanText
  ELSE IF pass \in NoBodies THEN IsnanText \o OverflowText
  ELSE IsnanText \o OverflowText \o BodyText

TextOK ==
  /\ DOMAIN written = Sections
  /\ written["include"] = IF pass \in NoIncludes THEN <<>> ELSE IncludeText
  /\ written["struct declaration"] = IF pass \in NoStructNames THEN <<>> ELSE StructText
  /\ written["typedef"] = IF pass \in NoTypedefs THEN <<>> ELSE TypedefText
  /\ written["function declaration"] = IF pass \in NoDeclarations THEN <<>> ELSE DeclarationText
  /\ written["function"] = FunctionText

\* No section is written at the start.
LEMMA TextInit == DEInit => TextOK
<1> SUFFICES ASSUME DEInit PROVE TextOK
  OBVIOUS
<1>1. pass = "determineIncludes" /\ written = [section \in Sections |-> <<>>]
  BY DEF DEInit
<1>2. /\ pass \in NoIncludes /\ pass \in NoStructNames /\ pass \in NoTypedefs
      /\ pass \in NoDeclarations /\ pass \in NoOverflows /\ pass \in NoBodies
  BY <1>1 DEF NoStructs, NoItems, NoFunctions, NoNames, NoCalls, NoIncludes, NoStructNames, NoTypedefs,
              NoDeclarations, NoOverflows, NoBodies
<1> QED
  BY <1>1, <1>2 DEF TextOK, FunctionText, Sections

\* The texts stay when the tables stay.
LEMMA TextsKept ==
  ASSUME UNCHANGED <<mod, useIncludes, headers, structs, unnamedStructs, typeDefs, functions,
                     intrinsics, diTypes>>
  PROVE  /\ IncludeText' = IncludeText /\ IsnanText' = IsnanText /\ StructText' = StructText
         /\ TypedefText' = TypedefText /\ DeclarationText' = DeclarationText
         /\ OverflowText' = OverflowText /\ BodyText' = BodyText
<1>1. DebugTypedefs' = DebugTypedefs
  BY DEF DebugTypedefs
<1>2. SortedTypeDefs' = SortedTypeDefs
  BY <1>1 DEF SortedTypeDefs
<1>3. \A ns : Names(ns)' = Names(ns) /\ Printed(ns)' = Printed(ns)
  BY DEF Names, Printed, IsFunctionPrinted
<1>4. DeclarationText' = DeclarationText
  <2>1. (Printed(DOMAIN functions) \ intrinsics)' = Printed(DOMAIN functions) \ intrinsics
    BY DEF Printed, IsFunctionPrinted
  <2>2. Names(Printed(DOMAIN functions) \ intrinsics)' = Names(Printed(DOMAIN functions) \ intrinsics)
    BY <2>1 DEF Names
  <2> QED
    BY <2>2 DEF DeclarationText
<1>5. OverflowText' = OverflowText
  BY DEF OverflowText, Names
<1>6. BodyText' = BodyText
  BY DEF BodyText, Names, Printed, IsFunctionPrinted
<1> QED
  BY <1>2, <1>4, <1>5, <1>6 DEF IncludeText, IsnanText, StructText, TypedefText

\* The texts are sequences.
LEMMA TextsAre ==
  ASSUME TablesOK, NamesOK, ModuleOK(mod), pass \in Late
  PROVE  /\ useIncludes => IncludeText \in Seq(headers) /\ IsInjective(IncludeText)
              /\ Range(IncludeText) = headers
         /\ IncludeText \in Seq(headers)
         /\ IsnanText \in Seq({"__isnan"})
         /\ StructText \in Seq(All) /\ IsInjective(StructText) /\ Range(StructText) = All
         /\ TypedefText \in Seq(Range(TypedefText)) /\ DOMAIN TypedefText = DOMAIN typeDefs
         /\ DeclarationText \in Seq(Names(Printed(DOMAIN functions) \ intrinsics))
         /\ IsInjective(DeclarationText)
         /\ Range(DeclarationText) = Names(Printed(DOMAIN functions) \ intrinsics)
         /\ OverflowText \in Seq(Names(intrinsics \cap mod.overflow)) /\ IsInjective(OverflowText)
         /\ Range(OverflowText) = Names(intrinsics \cap mod.overflow)
         /\ BodyText \in Seq(Names(Printed(mod.defined))) /\ IsInjective(BodyText)
         /\ Range(BodyText) = Names(Printed(mod.defined))
<1>1. IsFiniteSet(headers)
  BY HeadersFinite
<1>2. /\ useIncludes => IncludeText \in Seq(headers) /\ IsInjective(IncludeText)
           /\ Range(IncludeText) = headers
      /\ IncludeText \in Seq(headers) /\ IsnanText \in Seq({"__isnan"})
  <2> DEFINE q == SetToSeq(headers)
  <2>1. q \in Seq(headers) /\ IsInjective(q) /\ Range(q) = headers
    BY <1>1, SetToSeqIs
  <2>2. IncludeText = IF useIncludes THEN q ELSE <<>>
    BY DEF IncludeText
  <2> HIDE DEF q
  <2>3. IsnanText \in Seq({"__isnan"})
    <3>1. <<"__isnan">> \in Seq({"__isnan"}) /\ <<>> \in Seq({"__isnan"})
      OBVIOUS
    <3> QED
      BY <3>1 DEF IsnanText
  <2>4. IncludeText \in Seq(headers)
    BY <2>1, <2>2
  <2> QED
    BY <2>1, <2>2, <2>3, <2>4
<1>3. pass \notin NoFunctions /\ pass \notin NoStructs /\ pass \notin NoItems /\ pass \notin NoCalls
  BY DEF Late, Fixes, WritesBefore, WritesBehind, NoCalls, NoNames, NoFunctions, NoItems, NoStructs
<1>4. intrinsics \subseteq DOMAIN functions
  <2>1. intrinsics = mod.calls \cap Overflows /\ DOMAIN functions = Declarable
    BY <1>3 DEF NamesOK
  <2>2. Overflows \cap (DebugFunctions \cup {"isnan"}) = {} /\ mod.calls \subseteq mod.functions
    BY DEF Overflows, DebugFunctions, ModuleOK
  <2> QED
    BY <2>1, <2>2 DEF Declarable
<1>5. /\ DeclarationText \in Seq(Names(Printed(DOMAIN functions) \ intrinsics))
      /\ IsInjective(DeclarationText)
      /\ Range(DeclarationText) = Names(Printed(DOMAIN functions) \ intrinsics)
  <2> DEFINE ns == Printed(DOMAIN functions) \ intrinsics
  <2>1. ns \in SUBSET DOMAIN functions
    BY DEF Printed
  <2> HIDE DEF ns
  <2>2. IsFiniteSet(Names(ns))
    BY <2>1, FunctionsAre
  <2> QED
    BY <2>2, SetToSeqIs DEF DeclarationText, ns
<1>6. /\ OverflowText \in Seq(Names(intrinsics \cap mod.overflow)) /\ IsInjective(OverflowText)
      /\ Range(OverflowText) = Names(intrinsics \cap mod.overflow)
  <2> DEFINE ns == intrinsics \cap mod.overflow
  <2>1. ns \in SUBSET DOMAIN functions
    BY <1>4
  <2> HIDE DEF ns
  <2>2. IsFiniteSet(Names(ns))
    BY <2>1, FunctionsAre
  <2> QED
    BY <2>2, SetToSeqIs DEF OverflowText, ns
<1>7. /\ BodyText \in Seq(Names(Printed(mod.defined))) /\ IsInjective(BodyText)
      /\ Range(BodyText) = Names(Printed(mod.defined))
  <2> DEFINE ns == Printed(mod.defined)
  <2>1. ns \in SUBSET DOMAIN functions
    BY DEF Printed
  <2> HIDE DEF ns
  <2>2. IsFiniteSet(Names(ns))
    BY <2>1, FunctionsAre
  <2> QED
    BY <2>2, SetToSeqIs DEF BodyText, ns
<1>8. StructText \in Seq(All) /\ IsInjective(StructText) /\ Range(StructText) = All
  <2>1. structs = mod.structs /\ unnamedStructs = Literals(mod) /\ IsFiniteSet(unnamedStructs)
    <3>1. ReachedSoFar = FromItems \cup FromUses
      BY <1>3 DEF ReachedSoFar
    <3> QED
      BY <1>3, <3>1, LiteralsAre DEF TablesOK
  <2> DEFINE q == SetToSeq(unnamedStructs)
  <2>2. q \in Seq(Literals(mod)) /\ IsInjective(q) /\ Range(q) = Literals(mod)
    BY <2>1, SetToSeqIs
  <2>3. structs \in Seq(Range(structs)) /\ IsInjective(structs)
    <3>1. structs \in Seq({t \in Types : t[1] \in {"struct", "union"}}) /\ IsInjective(structs)
      BY <2>1 DEF ModuleOK
    <3> QED
      BY <3>1 DEF Range
  <2> HIDE DEF q
  <2>4. structs \in Seq(All) /\ q \in Seq(All)
    BY <2>1, <2>2, <2>3 DEF All
  <2>5. Range(structs) \cap Range(q) = {}
    <3>1. \A s \in Range(mod.structs) : s \in All
      BY DEF All
    <3>2. \A s \in Range(mod.structs) : ~Is(s, "literal")
      BY <3>1, AllClosed
    <3> QED
      BY <2>1, <2>2, <3>2 DEF Literals
  <2>6. StructText = structs \o q
    BY DEF StructText, q
  <2> QED
    BY <2>1, <2>2, <2>3, <2>4, <2>5, <2>6, ConcatIs, ConcatInjective DEF All
<1>9. TypedefText \in Seq(Range(TypedefText)) /\ DOMAIN TypedefText = DOMAIN typeDefs
  <2>1. typeDefs \in Seq(Types)
    BY DEF TablesOK, TypeDefsOK
  <2>2. DOMAIN TypedefText = 1..Len(typeDefs) /\ Len(typeDefs) \in Nat
    BY <2>1 DEF TypedefText
  <2>3. TypedefText \in [1..Len(typeDefs) -> Range(TypedefText)]
    BY <2>2 DEF TypedefText, Range
  <2> HIDE DEF TypedefText
  <2> QED
    BY <2>1, <2>2, <2>3
<1> QED
  BY <1>2, <1>5, <1>6, <1>7, <1>8, <1>9

\* A step that writes none of these sections.
LEMMA TextKept ==
  ASSUME TextOK, [DTNext]_deVars, DOMAIN written' = Sections,
         \A section \in Sections \ {"struct", "global"} : written'[section] = written[section],
         \/ pass \in NoIncludes /\ pass' \in NoIncludes
         \/ /\ UNCHANGED <<headers, structs, unnamedStructs, typeDefs, functions, intrinsics, diTypes>>
            /\ pass' \in NoIncludes <=> pass \in NoIncludes
            /\ pass' \in NoStructNames <=> pass \in NoStructNames
            /\ pass' \in NoTypedefs <=> pass \in NoTypedefs
            /\ pass' \in NoDeclarations <=> pass \in NoDeclarations
            /\ pass' \in NoOverflows <=> pass \in NoOverflows
            /\ pass' \in NoBodies <=> pass \in NoBodies
  PROVE  TextOK'
<1>1. /\ written'["include"] = written["include"] /\ written'["typedef"] = written["typedef"]
      /\ written'["struct declaration"] = written["struct declaration"]
      /\ written'["function declaration"] = written["function declaration"]
      /\ written'["function"] = written["function"]
  BY DEF Sections
<1>2. CASE pass \in NoIncludes /\ pass' \in NoIncludes
  <2>1. \A p \in NoIncludes : p \in NoStructNames /\ p \in NoTypedefs /\ p \in NoDeclarations
    BY DEF NoStructNames, NoTypedefs, NoDeclarations
  <2> HIDE DEF NoIncludes
  <2> QED
    BY <1>1, <1>2, <2>1 DEF TextOK, FunctionText
<1>3. CASE /\ UNCHANGED <<headers, structs, unnamedStructs, typeDefs, functions, intrinsics, diTypes>>
           /\ pass' \in NoIncludes <=> pass \in NoIncludes
           /\ pass' \in NoStructNames <=> pass \in NoStructNames
           /\ pass' \in NoTypedefs <=> pass \in NoTypedefs
           /\ pass' \in NoDeclarations <=> pass \in NoDeclarations
           /\ pass' \in NoOverflows <=> pass \in NoOverflows
           /\ pass' \in NoBodies <=> pass \in NoBodies
  <2>1. UNCHANGED <<mod, useIncludes>>
    BY Fixed
  <2>2. /\ IncludeText' = IncludeText /\ IsnanText' = IsnanText /\ StructText' = StructText
        /\ TypedefText' = TypedefText /\ DeclarationText' = DeclarationText
        /\ OverflowText' = OverflowText /\ BodyText' = BodyText
    BY <1>3, <2>1, TextsKept
  <2> HIDE DEF IncludeText, IsnanText, StructText, TypedefText, DeclarationText, OverflowText, BodyText,
               NoIncludes, NoStructNames, NoTypedefs, NoDeclarations, NoOverflows, NoBodies
  <2>3. FunctionText' = FunctionText
    BY <1>3, <2>2 DEF FunctionText
  <2> QED
    BY <1>1, <1>3, <2>2, <2>3 DEF TextOK
<1> QED
  BY <1>2, <1>3

\* The writer writes each section from the tables.
LEMMA TextWritten ==
  ASSUME ModuleOK(mod), TablesOK, NamesOK, TextOK, WriterStep
  PROVE  TextOK'
<1>1. /\ UNCHANGED <<mod, useIncludes, headers, structs, unnamedStructs, typeDefs, functions,
                     intrinsics, diTypes>>
      /\ pass \in Late
  BY WriterStepIs
<1>2. /\ IncludeText' = IncludeText /\ IsnanText' = IsnanText /\ StructText' = StructText
      /\ TypedefText' = TypedefText /\ DeclarationText' = DeclarationText
      /\ OverflowText' = OverflowText /\ BodyText' = BodyText
  BY <1>1, TextsKept
<1>3. /\ <<>> \o IncludeText = IncludeText /\ <<>> \o IsnanText = IsnanText
      /\ <<>> \o StructText = StructText /\ <<>> \o TypedefText = TypedefText
      /\ <<>> \o DeclarationText = DeclarationText
  BY <1>1, TextsAre, EmptyFirst
<1>4. /\ pass = "includes" => pass \in NoIncludes
      /\ pass \in NoIncludes => pass \in NoStructNames
      /\ pass \in NoStructNames => pass \in NoTypedefs
      /\ pass \in NoTypedefs => pass \in NoDeclarations
      /\ pass \in NoDeclarations => pass \in NoOverflows
      /\ pass \in NoOverflows => pass \in NoBodies
  BY DEF NoIncludes, NoStructNames, NoTypedefs, NoDeclarations, NoOverflows, NoBodies
<1>5. DOMAIN written = Sections
  BY DEF TextOK
<1> USE DEF NoIncludes, NoStructNames, NoTypedefs, NoDeclarations, NoOverflows, NoBodies,
            NoStructs, NoItems, NoFunctions, NoNames, NoCalls, Fixes
<1>6. CASE WriteIncludes
  <2>1. pass = "includes" /\ pass' = "structDeclarations"
    BY <1>6 DEF WriteIncludes, Write
  <2>2. /\ written["include"] = <<>> /\ written["function"] = <<>>
        /\ written["struct declaration"] = <<>> /\ written["typedef"] = <<>>
        /\ written["function declaration"] = <<>>
    BY <2>1 DEF TextOK, FunctionText
  <2>3. pass' \notin NoIncludes /\ pass' \in NoStructNames /\ pass' \in NoTypedefs /\ pass' \in NoDeclarations
        /\ pass' \in NoOverflows
    BY <2>1
  <2>4. CASE useIncludes
    <3>1. written' = [written EXCEPT !["include"] = @ \o IncludeText]
      BY <1>6, <2>4 DEF WriteIncludes, Write, IncludeText
    <3>2. IsnanText = <<>>
      BY <2>4 DEF IsnanText
    <3> HIDE DEF NoIncludes, NoStructNames, NoTypedefs, NoDeclarations, NoOverflows, NoBodies
    <3>3. /\ DOMAIN written' = Sections /\ written'["include"] = IncludeText /\ written'["function"] = <<>>
          /\ written'["struct declaration"] = <<>> /\ written'["typedef"] = <<>>
          /\ written'["function declaration"] = <<>>
      BY <1>3, <1>5, <2>2, <3>1 DEF Sections
    <3> QED
      BY <1>2, <2>3, <3>2, <3>3 DEF TextOK, FunctionText
  <2>5. CASE ~useIncludes
    <3>1. written' = [written EXCEPT !["function"] = @ \o IsnanText]
      BY <1>6, <2>5 DEF WriteIncludes, Write, IsnanText
    <3>2. IncludeText = <<>>
      BY <2>5 DEF IncludeText
    <3> HIDE DEF NoIncludes, NoStructNames, NoTypedefs, NoDeclarations, NoOverflows, NoBodies
    <3>3. /\ DOMAIN written' = Sections /\ written'["include"] = <<>> /\ written'["function"] = IsnanText
          /\ written'["struct declaration"] = <<>> /\ written'["typedef"] = <<>>
          /\ written'["function declaration"] = <<>>
      BY <1>3, <1>5, <2>2, <3>1 DEF Sections
    <3> QED
      BY <1>2, <2>3, <3>2, <3>3 DEF TextOK, FunctionText
  <2> QED
    BY <2>4, <2>5
<1>7. CASE WriteStructDeclarations
  <2>1. /\ pass = "structDeclarations" /\ pass' = "typedefs"
        /\ written' = [written EXCEPT !["struct declaration"] = @ \o StructText]
    BY <1>7 DEF WriteStructDeclarations, Write, StructText
  <2>2. written["struct declaration"] = <<>>
    BY <2>1 DEF TextOK
  <2>3. /\ pass \notin NoIncludes /\ pass \in NoStructNames /\ pass \in NoTypedefs /\ pass \in NoDeclarations
        /\ pass \in NoOverflows
        /\ pass' \notin NoIncludes /\ pass' \notin NoStructNames /\ pass' \in NoTypedefs
        /\ pass' \in NoDeclarations /\ pass' \in NoOverflows
    BY <2>1
  <2> HIDE DEF NoIncludes, NoStructNames, NoTypedefs, NoDeclarations, NoOverflows, NoBodies
  <2>4. /\ DOMAIN written' = Sections /\ written'["struct declaration"] = StructText
        /\ written'["include"] = written["include"] /\ written'["typedef"] = written["typedef"]
        /\ written'["function declaration"] = written["function declaration"]
        /\ written'["function"] = written["function"]
    BY <1>3, <1>5, <2>1, <2>2 DEF Sections
  <2> QED
    BY <1>2, <2>3, <2>4 DEF TextOK, FunctionText
<1>8. CASE WriteTypedefs
  <2>1. /\ pass = "typedefs" /\ pass' = "structDefinitions"
        /\ written' = [written EXCEPT !["typedef"] = @ \o TypedefText]
    BY <1>8 DEF WriteTypedefs, Write, TypedefText
  <2>2. written["typedef"] = <<>>
    BY <2>1 DEF TextOK
  <2>3. /\ pass \notin NoIncludes /\ pass \notin NoStructNames /\ pass \in NoTypedefs /\ pass \in NoDeclarations
        /\ pass \in NoOverflows
        /\ pass' \notin NoIncludes /\ pass' \notin NoStructNames /\ pass' \notin NoTypedefs
        /\ pass' \in NoDeclarations /\ pass' \in NoOverflows
    BY <2>1
  <2> HIDE DEF NoIncludes, NoStructNames, NoTypedefs, NoDeclarations, NoOverflows, NoBodies
  <2>4. /\ DOMAIN written' = Sections /\ written'["typedef"] = TypedefText
        /\ written'["include"] = written["include"]
        /\ written'["struct declaration"] = written["struct declaration"]
        /\ written'["function declaration"] = written["function declaration"]
        /\ written'["function"] = written["function"]
    BY <1>3, <1>5, <2>1, <2>2 DEF Sections
  <2> QED
    BY <1>2, <2>3, <2>4 DEF TextOK, FunctionText
<1>9. CASE WriteFunctionDeclarations
  <2>1. /\ pass = "functionDeclarations" /\ pass' = "intrinsics"
        /\ written' = [written EXCEPT !["function declaration"] = @ \o DeclarationText]
    BY <1>9 DEF WriteFunctionDeclarations, Write, DeclarationText
  <2>2. written["function declaration"] = <<>>
    BY <2>1 DEF TextOK
  <2>3. /\ pass \notin NoIncludes /\ pass \notin NoStructNames /\ pass \notin NoTypedefs /\ pass \in NoDeclarations
        /\ pass \in NoOverflows
        /\ pass' \notin NoIncludes /\ pass' \notin NoStructNames /\ pass' \notin NoTypedefs
        /\ pass' \notin NoDeclarations /\ pass' \in NoOverflows
    BY <2>1
  <2> HIDE DEF NoIncludes, NoStructNames, NoTypedefs, NoDeclarations, NoOverflows, NoBodies
  <2>4. /\ DOMAIN written' = Sections /\ written'["function declaration"] = DeclarationText
        /\ written'["include"] = written["include"] /\ written'["typedef"] = written["typedef"]
        /\ written'["struct declaration"] = written["struct declaration"]
        /\ written'["function"] = written["function"]
    BY <1>3, <1>5, <2>1, <2>2 DEF Sections
  <2> QED
    BY <1>2, <2>3, <2>4 DEF TextOK, FunctionText
<1>10. CASE WriteIntrinsicDefinitions \/ WriteGlobalVarDefinitions \/ WriteFunctionDefinitions
  <2>1. \/ /\ pass = "intrinsics" /\ pass' = "globals"
           /\ written' = [written EXCEPT !["function"] = @ \o OverflowText]
        \/ /\ pass = "globals" /\ pass' = "functions"
           /\ written' = [written EXCEPT !["global"] = @ \o DefinedGlobals]
        \/ /\ pass = "functions" /\ pass' = "end"
           /\ written' = [written EXCEPT !["function"] = @ \o BodyText]
    BY <1>10 DEF WriteIntrinsicDefinitions, WriteGlobalVarDefinitions, WriteFunctionDefinitions, Write,
         OverflowText, BodyText
  <2>2. /\ pass \notin NoIncludes /\ pass \notin NoStructNames /\ pass \notin NoTypedefs
        /\ pass \notin NoDeclarations
        /\ pass' \notin NoIncludes /\ pass' \notin NoStructNames /\ pass' \notin NoTypedefs
        /\ pass' \notin NoDeclarations /\ pass' \notin NoOverflows
        /\ pass = "intrinsics" => pass \in NoOverflows /\ pass' \in NoBodies
        /\ pass = "globals" => pass \notin NoOverflows /\ pass \in NoBodies /\ pass' \in NoBodies
        /\ pass = "functions" => pass \notin NoOverflows /\ pass \in NoBodies /\ pass' \notin NoBodies
    BY <2>1
  <2> HIDE DEF NoIncludes, NoStructNames, NoTypedefs, NoDeclarations, NoOverflows, NoBodies
  <2>3. /\ DOMAIN written' = Sections
        /\ written'["include"] = written["include"] /\ written'["typedef"] = written["typedef"]
        /\ written'["struct declaration"] = written["struct declaration"]
        /\ written'["function declaration"] = written["function declaration"]
        /\ pass = "intrinsics" => written'["function"] = written["function"] \o OverflowText
        /\ pass = "globals" => written'["function"] = written["function"]
        /\ pass = "functions" => written'["function"] = written["function"] \o BodyText
    BY <1>5, <2>1 DEF Sections
  <2>4. written'["function"] = FunctionText'
    BY <1>2, <2>1, <2>2, <2>3 DEF TextOK, FunctionText
  <2> QED
    BY <1>2, <2>2, <2>3, <2>4 DEF TextOK
<1> QED
  BY <1>6, <1>7, <1>8, <1>9, <1>10 DEF WriterStep

\* Every step keeps the sections what the tables say.
LEMMA TextStep ==
  ASSUME ModuleOK(mod), TablesOK, NamesOK, TextOK, [DTNext]_deVars
  PROVE  TextOK'
<1>1. DOMAIN written = Sections
  BY DEF TextOK
<1>2. CASE WriterStep
  BY <1>2, TextWritten
<1>3. CASE NameStep \/ ParseStructDeclarations \/ ParseStructItems \/ FindDeclaredFunctions
           \/ (StartDebugTypes \/ FixType)
  <2>1. UNCHANGED written /\ pass \in NoIncludes /\ pass' \in NoIncludes
    <3>1. CASE NameStep
      <4>1. UNCHANGED written /\ pass \in NoCalls /\ pass' \in NoCalls \cup {"parseMetadataTypes", "includes"}
        BY <3>1, NameStepIs
      <4> QED
        BY <4>1 DEF NoIncludes, Fixes
    <3>2. CASE ParseStructDeclarations \/ ParseStructItems \/ FindDeclaredFunctions
      BY <3>2 DEF ParseStructDeclarations, ParseStructItems, FindDeclaredFunctions, NoIncludes, NoCalls,
           NoNames, NoFunctions, NoItems, NoStructs
    <3>3. CASE StartDebugTypes \/ FixType
      BY <3>3, DebugStepIs DEF NoIncludes, Fixes
    <3> QED
      BY <1>3, <3>1, <3>2, <3>3
  <2> QED
    BY <1>1, <2>1, TextKept
<1>4. CASE StartStructs \/ StructDefinition
  <2>1. /\ UNCHANGED <<headers, structs, unnamedStructs, typeDefs, functions, intrinsics, diTypes>>
        /\ pass = "structDefinitions" /\ pass' \in {"structDefinitions", "functionDeclarations"}
    BY <1>4, StructStepIs
  <2>2. /\ DOMAIN written' = Sections
        /\ \A section \in Sections \ {"struct", "global"} : written'[section] = written[section]
    BY <1>1, <1>4 DEF StartStructs, StructDefinition
  <2>3. /\ pass' \in NoIncludes <=> pass \in NoIncludes
        /\ pass' \in NoStructNames <=> pass \in NoStructNames
        /\ pass' \in NoTypedefs <=> pass \in NoTypedefs
        /\ pass' \in NoDeclarations <=> pass \in NoDeclarations
        /\ pass' \in NoOverflows <=> pass \in NoOverflows
        /\ pass' \in NoBodies <=> pass \in NoBodies
    BY <2>1 DEF NoIncludes, NoStructNames, NoTypedefs, NoDeclarations, NoOverflows, NoBodies,
            NoStructs, NoItems, NoFunctions, NoNames, NoCalls, Fixes
  <2> QED
    BY <2>1, <2>2, <2>3, TextKept
<1>5. CASE UNCHANGED deVars
  <2>1. UNCHANGED <<pass, written, headers, structs, unnamedStructs, typeDefs, functions, intrinsics, diTypes>>
    BY <1>5, NothingMoves
  <2> QED
    BY <1>1, <2>1, TextKept
<1> QED
  BY <1>2, <1>3, <1>4, <1>5, EveryStep

ProgramInv == TypesInv /\ NamesOK /\ TextOK

\* The invariant about the whole program.
LEMMA ProgramInvariant == DTSpec => []ProgramInv
<1>1. DEInit => TypesInv /\ NamesOK /\ TextOK
  BY StartedInit, DEInvInit, TablesInit, FixOKInit, DefinitionsInit, NamesInit, TextInit DEF TypesInv
<1>2. TypesInv /\ NamesOK /\ TextOK /\ [DTNext]_deVars => NamesOK' /\ TextOK'
  <2> SUFFICES ASSUME TypesInv, NamesOK, TextOK, [DTNext]_deVars PROVE NamesOK' /\ TextOK'
    OBVIOUS
  <2>1. ModuleOK(mod) /\ TablesOK
    BY DEF TypesInv, Started
  <2> QED
    BY <2>1, NamesStep, TextStep
<1> QED
  BY <1>1, <1>2, TypesInvariant, PTL DEF DTSpec, ProgramInv

\* Its parts.
LEMMA InvParts ==
  ASSUME TypesInv
  PROVE  /\ ModuleOK(mod) /\ TablesOK /\ DEInv /\ FixOK /\ Complete(diTypes) /\ DefinitionsOK
         /\ StructsWritten
BY StructsAlways DEF TypesInv, Started, FixOK

\* The structs are looked at in a pass behind those that make them.
LEMMA WrittenLate ==
  ASSUME ProgramInv
  PROVE  /\ pass \in Late \/ written["struct"] = <<>>
         /\ pass \in Late \/ pass \in NoIncludes
         /\ pass \in NoTypedefs \/ pass \in Late
         /\ pass = "end" => pass \in Late
<1>1. pass \in NoCalls => written["struct"] = <<>>
  BY DEF ProgramInv, TypesInv, DefinitionsOK, BeforeStructs
<1>2. pass \in NoCalls \cup Late
  BY InvParts DEF ProgramInv, TablesOK
<1>3. "end" \in Late
  BY DEF Late, WritesBehind
<1> QED
  BY <1>1, <1>2, <1>3 DEF NoIncludes, NoTypedefs, NoStructNames

\* The function pointers a typedef needs.
LEMMA InnerTypedefs ==
  ASSUME ProgramInv, NEW n \in DOMAIN typeDefs
  PROVE  /\ IsFunction(SortedTypeDefs[n]) /\ SortedTypeDefs[n] \in Types
         /\ \A f \in Inner(SortedTypeDefs[n]) : Number(f) \in 1..(n - 1)
<1>1. /\ TypeDefsOK(typeDefs) /\ Range(typeDefs) = {t \in ReachedSoFar : Is(t, "function")}
      /\ ReachedSoFar \subseteq FromItems \cup FromUses /\ ModuleOK(mod) /\ Complete(diTypes)
  BY InvParts DEF ProgramInv, TablesOK, ReachedSoFar
<1>2. \A d \in Range(typeDefs) : \A g \in Inner(d) : Is(g, "function")
  BY <1>1, FromTypes
<1>3. \A f \in Inner(SortedTypeDefs[n]) : Number(f) \in 1..(n - 1)
  BY <1>1, <1>2, NumberSmaller
<1>4. IsFunction(SortedTypeDefs[n]) /\ SortedTypeDefs[n] \in Types
  <2>1. CASE n \in DOMAIN DebugTypedefs
    <3>1. SortedTypeDefs[n] = DebugTypedefs[n]
      BY <2>1 DEF SortedTypeDefs
    <3>2. DebugTypedefs[n] \in DebugDefs
      BY <1>1, <2>1, DebugTypedefsAre DEF Range
    <3>3. DebugTypedefs[n] \in Types
      BY <1>1, <2>1, DebugTypedefsAre
    <3> QED
      BY <3>1, <3>2, <3>3 DEF DebugDefs, IsFunction, Is
  <2>2. CASE n \notin DOMAIN DebugTypedefs
    <3>1. SortedTypeDefs[n] = typeDefs[n]
      BY <2>2 DEF SortedTypeDefs
    <3>2. typeDefs[n] \in Range(typeDefs) /\ typeDefs[n] \in Types
      BY <1>1 DEF Range, TypeDefsOK
    <3> QED
      BY <1>1, <3>1, <3>2 DEF IsFunction, Is
  <2> QED
    BY <2>1, <2>2
<1> QED
  BY <1>3, <1>4

\* For every module: structDefinition defines a struct behind each struct its
\* members' declarations need complete, and a typedef stands behind those of
\* the function pointers its result and parameters are made of.
THEOREM DefinitionsInOrder == DTSpec => []DefinedBeforeNeeded
<1>1. ProgramInv => DefinedBeforeNeeded
  <2> SUFFICES ASSUME ProgramInv PROVE DefinedBeforeNeeded
    OBVIOUS
  <2>1. ModuleOK(mod) /\ TablesOK /\ StructsWritten /\ TextOK
    BY InvParts DEF ProgramInv
  <2>2. ASSUME NEW k \in DOMAIN written["struct"], NEW t \in Range(Members(written["struct"][k])),
               SaysItAll[t], NEW s \in NeedsComplete(t)
        PROVE  Before(k, "struct", s)
    <3>1. written["struct"][k] \in All
      BY <2>1 DEF StructsWritten
    <3>2. pass \in Late
      BY WrittenLate
    <3>3. t \in Types
      <4>1. Members(written["struct"][k]) \in Seq(Types)
        BY <2>1, <3>1, <3>2, MembersAre
      <4> QED
        BY <4>1 DEF Range
    <3>4. s = ContainedStruct(t)
      BY <2>2, <3>3, NeedsContained
    <3>5. s # None
      BY <2>2 DEF NeedsComplete, None, IsStruct
    <3> QED
      BY <2>1, <3>4, <3>5 DEF StructsWritten
  <2>3. ASSUME NEW k \in DOMAIN written["typedef"],
               NEW t \in Range(written["typedef"][k][2][2]) \cup {written["typedef"][k][2][3]},
               NEW f \in FunctionsIn[t]
        PROVE  \E j \in 1..(k - 1) : written["typedef"][j][1] = Number(f)
    <3>1. written["typedef"] = TypedefText
      <4>1. written["typedef"] # <<>>
        BY <2>3
      <4> QED
        BY <2>1, <4>1 DEF TextOK
    <3>2. k \in DOMAIN typeDefs /\ \A j \in DOMAIN typeDefs : TypedefText[j] = <<j, SortedTypeDefs[j]>>
      BY <2>3, <3>1 DEF TypedefText
    <3>3. IsFunction(SortedTypeDefs[k]) /\ SortedTypeDefs[k] \in Types
      BY <3>2, InnerTypedefs
    <3>4. f \in Inner(SortedTypeDefs[k])
      <4>1. t \in Range(SortedTypeDefs[k][2]) \cup {SortedTypeDefs[k][3]}
        BY <2>3, <3>1, <3>2
      <4> QED
        BY <2>3, <3>3, <4>1, NamedInner
    <3>5. Number(f) \in 1..(k - 1)
      BY <3>2, <3>4, InnerTypedefs
    <3>6. Number(f) \in DOMAIN typeDefs
      <4>1. typeDefs \in Seq(Types)
        BY <2>1 DEF TablesOK, TypeDefsOK
      <4> HIDE DEF Number
      <4> QED
        BY <3>2, <3>5, <4>1
    <3> QED
      BY <3>1, <3>2, <3>5, <3>6
  <2> QED
    BY <2>2, <2>3 DEF DefinedBeforeNeeded
<1> QED
  BY <1>1, ProgramInvariant, PTL

-----------------------------------------------------------------------------
(* The names. *)

LibraryNames == C_FUNCTIONS \cup UNION {Lists[h] : h \in DOMAIN Lists}

\* What a header declares and the program does not.
LEMMA LibraryIs ==
  /\ DOMAIN Lists = {"stdlib", "string", "stdio", "pthread", "math"}
  /\ DOMAIN Header = DOMAIN Lists \cup {"stdarg"}
  /\ LibraryNames = {"floor", "minnum", "memcpy", "va_start", "malloc", "strlen", "printf", "pthread_create"}
  /\ UNION {Lists[h] : h \in DOMAIN Lists}
       = {"floor", "minnum", "memcpy", "malloc", "strlen", "printf", "pthread_create"}
  /\ \A h \in DOMAIN Lists : Lists[h] \subseteq Header[h] \cup {"minnum"}
  /\ \A h \in DOMAIN Header : Header[h] \subseteq LibraryNames \cup {"__isnan"}
  /\ "floor" \in Lists["math"] /\ "memcpy" \in Lists["string"]
  /\ "__isnan" \in Header["math"] /\ Header["stdarg"] = {"va_start"}
<1>1. DOMAIN Lists = {"stdlib", "string", "stdio", "pthread", "math"}
  BY DEF Lists
<1>2. DOMAIN Header = {"stdlib", "string", "stdio", "pthread", "math", "stdarg"}
  BY DEF Header
<1>3. /\ Lists["stdlib"] = {"malloc"} /\ Lists["string"] = {"memcpy", "strlen"}
      /\ Lists["stdio"] = {"printf"} /\ Lists["pthread"] = {"pthread_create"}
      /\ Lists["math"] = {"floor", "minnum"}
  BY DEF Lists, C_MATH
<1>4. /\ Header["stdlib"] = {"malloc"} /\ Header["string"] = {"memcpy", "strlen"}
      /\ Header["stdio"] = {"printf"} /\ Header["pthread"] = {"pthread_create"}
      /\ Header["math"] = {"floor", "__isnan"} /\ Header["stdarg"] = {"va_start"}
  BY DEF Header
<1>5. C_FUNCTIONS = {"floor", "minnum", "memcpy", "va_start"}
  BY DEF C_FUNCTIONS, C_MATH
<1>6. UNION {Lists[h] : h \in DOMAIN Lists}
       = {"floor", "minnum", "memcpy", "malloc", "strlen", "printf", "pthread_create"}
  BY <1>1, <1>3
<1>7. LibraryNames = {"floor", "minnum", "memcpy", "va_start", "malloc", "strlen", "printf", "pthread_create"}
  BY <1>5, <1>6 DEF LibraryNames
<1> QED
  BY <1>1, <1>2, <1>3, <1>4, <1>6, <1>7

\* Only the names of LLVM's functions are changed.
LEMMA ListedIs ==
  ASSUME NEW n
  PROVE  /\ ListedName(n) = n \/ (ListedName(n) = TrimPrefix(n) /\ TrimPrefix(n) \in C_FUNCTIONS)
         /\ TrimPrefix(n) = "va_start" <=> n = "llvm.va_start"
         /\ TrimPrefix(n) = "minnum" <=> n = "llvm.minnum.f64"
BY DEF ListedName, TrimPrefix

\* The intrinsics that are printed.
LEMMA UnderscoredIs ==
  ASSUME NEW n, Underscored(n) \in LibraryNames \cup {"__isnan", "isnan"}
  PROVE  Underscored(n) = n
BY LibraryIs DEF Underscored

\* A function of the program's own keeps its name.
LEMMA OwnNames ==
  ASSUME NEW n, OwnName(n)
  PROVE  /\ ListedName(n) = n /\ Underscored(n) = n /\ n \notin DebugFunctions \cup Overflows \cup {"isnan"}
         /\ n \notin LibraryNames /\ n \notin {Underscored(o) : o \in Overflows}
<1>1. TrimPrefix(n) = "" /\ n \notin LibraryNames /\ n # "isnan" /\ n \notin {Underscored(o) : o \in Overflows}
  BY DEF OwnName, LibraryNames
<1>2. ListedName(n) = n
  BY <1>1 DEF ListedName, C_FUNCTIONS, C_MATH
<1>3. n # "llvm.uadd.with.overflow.i32" /\ n # "llvm.bswap.i32" /\ n # "llvm.dbg.value"
  BY <1>1 DEF TrimPrefix
<1> QED
  BY <1>1, <1>2, <1>3 DEF Underscored, DebugFunctions, Overflows

\* The names in the program, once they are given.
LEMMA NamesAre ==
  ASSUME ModuleOK(mod), NamesOK, pass \in Late
  PROVE  /\ DOMAIN functions = Declarable /\ intrinsics = mod.calls \cap Overflows
         /\ \A n \in Declarable : functions[n] = Underscored(ListedName(n))
         /\ headers = Listed \cup (IF VaListTag \in Range(mod.structs) THEN {"stdarg"} ELSE {})
                        \cup (IF mod.compares THEN {"math"} ELSE {})
         /\ mod.defined \subseteq Declarable
         /\ \A n \in mod.defined : functions[n] = n /\ IsFunctionPrinted(functions[n])
         /\ intrinsics \subseteq Declarable
<1>1. pass \notin NoNames /\ pass \notin NoFunctions /\ pass \notin NoCalls /\ pass \notin NoStructs
      /\ pass # "determineIncludes"
  BY DEF Late, Fixes, WritesBefore, WritesBehind, NoCalls, NoNames, NoFunctions, NoItems, NoStructs
<1>2. /\ DOMAIN functions = Declarable /\ intrinsics = mod.calls \cap Overflows
      /\ \A n \in Declarable : functions[n] = Underscored(ListedName(n))
      /\ headers = Listed \cup (IF VaListTag \in Range(mod.structs) THEN {"stdarg"} ELSE {})
                        \cup (IF mod.compares THEN {"math"} ELSE {})
  BY <1>1 DEF NamesOK
<1>3. ASSUME NEW n \in mod.defined
      PROVE  n \in Declarable /\ functions[n] = n /\ IsFunctionPrinted(functions[n])
  <2>1. n \in mod.functions /\ OwnName(n)
    BY DEF ModuleOK
  <2>2. n \in Declarable
    BY <2>1, OwnNames DEF Declarable
  <2>3. functions[n] = n
    BY <1>2, <2>1, <2>2, OwnNames
  <2>4. IsFunctionPrinted(n)
    BY <2>1, OwnNames DEF IsFunctionPrinted, LibraryNames
  <2> QED
    BY <2>2, <2>3, <2>4
<1>4. intrinsics \subseteq Declarable
  BY <1>2 DEF ModuleOK, Declarable, Overflows, DebugFunctions
<1> QED
  BY <1>2, <1>3, <1>4

\* A list of a set is a list of each larger one.
LEMMA Widened == ASSUME NEW A, NEW S, A \subseteq S, NEW s \in Seq(A) PROVE s \in Seq(S)
OBVIOUS

\* The names of the overflow intrinsics are different.
LEMMA OverflowNames ==
  ASSUME ModuleOK(mod), NamesOK, pass \in Late
  PROVE  Names(intrinsics \cap mod.overflow) \subseteq {Underscored(o) : o \in Overflows}
           /\ {Underscored(o) : o \in Overflows} = {"llvm_uadd_with_overflow_i32"}
<1>1. {Underscored(o) : o \in Overflows} = {"llvm_uadd_with_overflow_i32"}
  BY DEF Underscored, Overflows
<1>2. \A n \in intrinsics : n = "llvm.uadd.with.overflow.i32" /\ n \in Declarable
                            /\ functions[n] = Underscored(ListedName(n))
  BY NamesAre DEF Overflows
<1>3. ListedName("llvm.uadd.with.overflow.i32") = "llvm.uadd.with.overflow.i32"
  BY DEF ListedName, TrimPrefix, C_FUNCTIONS, C_MATH
<1> QED
  BY <1>1, <1>2, <1>3 DEF Names, Overflows

\* The bodies are written after the overflow functions, these after __isnan.
LEMMA FunctionsOnce ==
  ASSUME ProgramInv
  PROVE  IsInjective(FunctionText)
<1>1. ModuleOK(mod) /\ TablesOK /\ NamesOK
  BY InvParts DEF ProgramInv
<1> DEFINE S == {"__isnan"} \cup Names(intrinsics \cap mod.overflow) \cup Names(Printed(mod.defined))
<1>2. CASE pass \in Late
  <2>1. /\ IsnanText \in Seq({"__isnan"})
        /\ OverflowText \in Seq(Names(intrinsics \cap mod.overflow)) /\ IsInjective(OverflowText)
        /\ Range(OverflowText) = Names(intrinsics \cap mod.overflow)
        /\ BodyText \in Seq(Names(Printed(mod.defined))) /\ IsInjective(BodyText)
        /\ Range(BodyText) = Names(Printed(mod.defined))
    BY <1>1, <1>2, TextsAre
  <2>2. IsInjective(IsnanText) /\ Range(IsnanText) \subseteq {"__isnan"}
    BY DEF IsnanText, IsInjective, Range
  <2>3. "__isnan" \notin Names(intrinsics \cap mod.overflow)
    BY <1>1, <1>2, OverflowNames
  <2>4. \A c \in Names(Printed(mod.defined)) : c \in mod.defined /\ c \in mod.functions /\ OwnName(c)
    <3>1. \A n \in Printed(mod.defined) : n \in mod.defined /\ functions[n] = n
      BY <1>1, <1>2, NamesAre DEF Printed
    <3>2. \A c \in Names(Printed(mod.defined)) : c \in mod.defined
      BY <3>1 DEF Names
    <3> QED
      BY <1>1, <3>2 DEF ModuleOK
  <2>5. "__isnan" \notin Names(Printed(mod.defined))
    BY <1>1, <2>4 DEF ModuleOK
  <2>6. Names(intrinsics \cap mod.overflow) \cap Names(Printed(mod.defined)) = {}
    <3>1. \A c \in Names(Printed(mod.defined)) : c \notin {Underscored(o) : o \in Overflows}
      BY <2>4, OwnNames
    <3> QED
      BY <1>1, <1>2, <3>1, OverflowNames
  <2>7. /\ IsnanText \in Seq(S) /\ OverflowText \in Seq(S) /\ BodyText \in Seq(S)
        /\ IsnanText \o OverflowText \in Seq(S)
        /\ Range(IsnanText \o OverflowText) = Range(IsnanText) \cup Range(OverflowText)
    <3>0. /\ {"__isnan"} \subseteq S /\ Names(intrinsics \cap mod.overflow) \subseteq S
          /\ Names(Printed(mod.defined)) \subseteq S
      OBVIOUS
    <3> HIDE DEF S
    <3>1. IsnanText \in Seq(S) /\ OverflowText \in Seq(S) /\ BodyText \in Seq(S)
      BY <2>1, <3>0, Widened
    <3> QED
      BY <3>1, ConcatIs
  <2>8. IsInjective(IsnanText \o OverflowText)
    <3>1. Range(IsnanText) \cap Range(OverflowText) = {}
      BY <2>1, <2>2, <2>3
    <3> HIDE DEF S
    <3> QED
      BY <2>1, <2>2, <2>7, <3>1, ConcatInjective
  <2>9. IsInjective(IsnanText \o OverflowText \o BodyText)
    <3>1. (Range(IsnanText) \cup Range(OverflowText)) \cap Range(BodyText) = {}
      BY <2>1, <2>2, <2>5, <2>6
    <3> HIDE DEF S
    <3> QED
      BY <2>1, <2>7, <2>8, <3>1, ConcatInjective
  <2> QED
    BY <2>2, <2>8, <2>9 DEF FunctionText, IsInjective
<1>3. CASE pass \notin Late
  <2>1. pass \in NoIncludes
    BY <1>3, WrittenLate
  <2> QED
    BY <2>1 DEF FunctionText, IsInjective
<1> QED
  BY <1>2, <1>3

\* For every module and every set of headers: no section has anything twice,
\* and in the end the structs and typedefs are exactly those the program
\* reaches, and every function and global the module defines is there
\* (getType's tables, visited in structDefinition, the writer's conditions).
THEOREM NothingTwice == DTSpec => []DefinedOnce
<1>1. ProgramInv /\ GlobalsDefinedOnce => DefinedOnce
  <2> SUFFICES ASSUME ProgramInv, GlobalsDefinedOnce PROVE DefinedOnce
    OBVIOUS
  <2>1. ModuleOK(mod) /\ TablesOK /\ NamesOK /\ TextOK /\ StructsWritten /\ DefinitionsOK
    BY InvParts DEF ProgramInv
  <2>2. pass \notin Late => pass \in NoIncludes
    BY WrittenLate
  <2>3. pass \in NoIncludes => pass \in NoStructNames /\ pass \in NoTypedefs /\ pass \in NoDeclarations
    BY DEF NoStructNames, NoTypedefs, NoDeclarations
  <2>4. IsInjective(<<>>)
    BY DEF IsInjective
  <2>5. IsInjective(written["include"])
    <3>1. pass \in Late /\ useIncludes => IsInjective(IncludeText)
      BY <2>1, TextsAre
    <3>2. ~useIncludes => IncludeText = <<>>
      BY DEF IncludeText
    <3> QED
      BY <2>1, <2>2, <2>4, <3>1, <3>2 DEF TextOK
  <2>6. IsInjective(written["struct declaration"])
    <3>1. pass \in Late => IsInjective(StructText)
      BY <2>1, TextsAre
    <3> QED
      BY <2>1, <2>2, <2>3, <2>4, <3>1 DEF TextOK
  <2>7. IsInjective(written["typedef"])
    <3>1. IsInjective(TypedefText)
      BY DEF TypedefText, IsInjective
    <3> QED
      BY <2>1, <2>4, <3>1 DEF TextOK
  <2>8. IsInjective(written["function declaration"])
    <3>1. pass \in Late => IsInjective(DeclarationText)
      BY <2>1, TextsAre
    <3> QED
      BY <2>1, <2>2, <2>3, <2>4, <3>1 DEF TextOK
  <2>9. IsInjective(written["function"])
    BY <2>1, FunctionsOnce DEF TextOK
  <2>10. IsInjective(written["struct"]) /\ IsInjective(written["global"])
    BY <2>1 DEF StructsWritten, GlobalsDefinedOnce
  <2>11. \A section \in Sections : IsInjective(written[section])
    BY <2>5, <2>6, <2>7, <2>8, <2>9, <2>10 DEF Sections
  <2>12. ASSUME pass = "end"
         PROVE  /\ Defines("struct") = Range(mod.structs) \cup unnamedStructs
                /\ {d[1] : d \in Defines("typedef")} = DOMAIN typeDefs
                /\ Range(typeDefs) =
                     {t \in Range(Reached(mod.uses))
                              \cup UNION {Range(Reached(mod.items[s])) : s \in Range(mod.structs)} :
                        Is(t, "function")}
                /\ Names(mod.defined) \subseteq Defines("function")
    <3>1. /\ pass \in Late /\ pass \in BehindStructs /\ pass \notin NoTypedefs
          /\ pass \notin NoItems /\ pass \notin NoFunctions
      BY <2>12 DEF Late, WritesBehind, BehindStructs, NoTypedefs, NoStructNames, NoIncludes, NoCalls, NoNames,
                   NoFunctions, NoItems, NoStructs, Fixes
    <3>2. ReachedSoFar = FromItems \cup FromUses
      BY <3>1 DEF ReachedSoFar
    <3>3. unnamedStructs = Literals(mod)
      BY <2>1, <3>2, LiteralsAre DEF TablesOK
    <3>4. Defines("struct") = Range(mod.structs) \cup unnamedStructs
      BY <2>1, <3>1, <3>3 DEF DefinitionsOK, Defines, All
    <3>5. {d[1] : d \in Defines("typedef")} = DOMAIN typeDefs
      <4>1. written["typedef"] = TypedefText
        BY <2>1, <3>1 DEF TextOK
      <4>2. /\ DOMAIN TypedefText = DOMAIN typeDefs
            /\ \A n \in DOMAIN typeDefs : TypedefText[n][1] = n
        BY DEF TypedefText
      <4> HIDE DEF TypedefText
      <4>3. \A d \in Defines("typedef") : \E n \in DOMAIN typeDefs : d = TypedefText[n]
        BY <4>1, <4>2 DEF Defines, Range
      <4>4. \A n \in DOMAIN typeDefs : TypedefText[n] \in Defines("typedef")
        BY <4>1, <4>2 DEF Defines, Range
      <4> QED
        BY <4>2, <4>3, <4>4
    <3>6. Range(typeDefs) =
            {t \in Range(Reached(mod.uses))
                     \cup UNION {Range(Reached(mod.items[s])) : s \in Range(mod.structs)} :
               Is(t, "function")}
      <4>1. Range(typeDefs) = {t \in FromItems \cup FromUses : Is(t, "function")}
        BY <2>1, <3>2 DEF TablesOK
      <4> QED
        BY <4>1 DEF FromItems, FromUses
    <3>7. Names(mod.defined) \subseteq Defines("function")
      <4>1. Names(mod.defined) \subseteq Names(Printed(mod.defined))
        BY <2>1, <3>1, NamesAre DEF Names, Printed
      <4>2. Range(BodyText) = Names(Printed(mod.defined))
        BY <2>1, <3>1, TextsAre
      <4>3. written["function"] = IsnanText \o OverflowText \o BodyText
        <5>1. pass \notin NoIncludes /\ pass \notin NoOverflows /\ pass \notin NoBodies
          BY <2>12 DEF NoBodies, NoOverflows, NoDeclarations, NoTypedefs, NoStructNames, NoIncludes, NoCalls,
                       NoNames, NoFunctions, NoItems, NoStructs, Fixes
        <5> QED
          BY <2>1, <5>1 DEF TextOK, FunctionText
      <4>4. Range(BodyText) \subseteq Range(written["function"])
        <5> DEFINE S == {"__isnan"} \cup Names(intrinsics \cap mod.overflow) \cup Names(Printed(mod.defined))
        <5>1. IsnanText \in Seq(S) /\ OverflowText \in Seq(S) /\ BodyText \in Seq(S)
          <6>1. /\ IsnanText \in Seq({"__isnan"})
                /\ OverflowText \in Seq(Names(intrinsics \cap mod.overflow))
                /\ BodyText \in Seq(Names(Printed(mod.defined)))
            BY <2>1, <3>1, TextsAre
          <6>2. /\ {"__isnan"} \subseteq S /\ Names(intrinsics \cap mod.overflow) \subseteq S
                /\ Names(Printed(mod.defined)) \subseteq S
            OBVIOUS
          <6> HIDE DEF S
          <6> QED
            BY <6>1, <6>2, Widened
        <5> HIDE DEF S
        <5>2. IsnanText \o OverflowText \in Seq(S)
          BY <5>1, ConcatIs
        <5>3. Range(IsnanText \o OverflowText \o BodyText) = Range(IsnanText \o OverflowText) \cup Range(BodyText)
          <6> DEFINE u == IsnanText \o OverflowText
          <6> HIDE DEF u
          <6>1. u \in Seq(S)
            BY <5>2 DEF u
          <6>2. Range(u \o BodyText) = Range(u) \cup Range(BodyText)
            BY <5>1, <6>1, ConcatIs
          <6> QED
            BY <6>2 DEF u
        <5> QED
          BY <4>3, <5>3
      <4> QED
        BY <4>1, <4>2, <4>4 DEF Defines
    <3> QED
      BY <3>4, <3>5, <3>6, <3>7
  <2> QED
    BY <2>11, <2>12 DEF DefinedOnce
<1> QED
  BY <1>1, ProgramInvariant, EachGlobalDefined, PTL

\* What the text includes and what it defines, at the end.
LEMMA AtTheEnd ==
  ASSUME ProgramInv, pass = "end"
  PROVE  /\ ModuleOK(mod) /\ NamesOK /\ pass \in Late
         /\ Defines("include") = IF useIncludes THEN headers ELSE {}
         /\ Defines("function declaration") \cup Defines("function")
              = Names(Printed(DOMAIN functions) \ intrinsics) \cup Range(IsnanText)
                  \cup Names(intrinsics \cap mod.overflow) \cup Names(Printed(mod.defined))
<1>1. ModuleOK(mod) /\ TablesOK /\ NamesOK /\ TextOK
  BY InvParts DEF ProgramInv
<1>2. /\ pass \in Late /\ pass \notin NoIncludes /\ pass \notin NoDeclarations /\ pass \notin NoOverflows
      /\ pass \notin NoBodies
  BY DEF Late, WritesBehind, NoBodies, NoOverflows, NoDeclarations, NoTypedefs, NoStructNames, NoIncludes,
         NoCalls, NoNames, NoFunctions, NoItems, NoStructs, Fixes
<1>3. Defines("include") = IF useIncludes THEN headers ELSE {}
  <2>1. written["include"] = IncludeText
    BY <1>1, <1>2 DEF TextOK
  <2>2. useIncludes => Range(IncludeText) = headers
    BY <1>1, <1>2, TextsAre
  <2>3. ~useIncludes => Range(IncludeText) = {}
    BY DEF IncludeText, Range
  <2> QED
    BY <2>1, <2>2, <2>3 DEF Defines
<1>4. Defines("function declaration") = Names(Printed(DOMAIN functions) \ intrinsics)
  <2>1. written["function declaration"] = DeclarationText
    BY <1>1, <1>2 DEF TextOK
  <2> QED
    BY <1>1, <1>2, <2>1, TextsAre DEF Defines
<1>5. Defines("function") = Range(IsnanText) \cup Names(intrinsics \cap mod.overflow) \cup Names(Printed(mod.defined))
  <2> DEFINE S == {"__isnan"} \cup Names(intrinsics \cap mod.overflow) \cup Names(Printed(mod.defined))
  <2>1. written["function"] = IsnanText \o OverflowText \o BodyText
    BY <1>1, <1>2 DEF TextOK, FunctionText
  <2>2. /\ IsnanText \in Seq({"__isnan"})
        /\ OverflowText \in Seq(Names(intrinsics \cap mod.overflow))
        /\ Range(OverflowText) = Names(intrinsics \cap mod.overflow)
        /\ BodyText \in Seq(Names(Printed(mod.defined))) /\ Range(BodyText) = Names(Printed(mod.defined))
    BY <1>1, <1>2, TextsAre
  <2>3. /\ {"__isnan"} \subseteq S /\ Names(intrinsics \cap mod.overflow) \subseteq S
        /\ Names(Printed(mod.defined)) \subseteq S
    OBVIOUS
  <2> HIDE DEF S
  <2>4. IsnanText \in Seq(S) /\ OverflowText \in Seq(S) /\ BodyText \in Seq(S)
    BY <2>2, <2>3, Widened
  <2>5. /\ IsnanText \o OverflowText \in Seq(S)
        /\ Range(IsnanText \o OverflowText) = Range(IsnanText) \cup Range(OverflowText)
    BY <2>4, ConcatIs
  <2>6. Range(IsnanText \o OverflowText \o BodyText) = Range(IsnanText \o OverflowText) \cup Range(BodyText)
    <3> DEFINE a == IsnanText \o OverflowText
    <3>1. a \in Seq(S)
      BY <2>5
    <3> HIDE DEF a
    <3>2. Range(a \o BodyText) = Range(a) \cup Range(BodyText)
      BY <2>4, <3>1, ConcatIs
    <3> QED
      BY <3>2 DEF a
  <2> QED
    BY <2>1, <2>2, <2>5, <2>6 DEF Defines
<1> QED
  BY <1>1, <1>2, <1>3, <1>4, <1>5

\* For every module, with headers included or not: each function the printed
\* code calls is declared by a header or by the program, and none by both
\* (determineIncludes, functionDeclarations, functionDefinitions).
THEOREM CallsHaveDeclarations == DTSpec => []CallsDeclared
<1>1. ProgramInv => CallsDeclared
  <2> SUFFICES ASSUME ProgramInv, pass = "end"
               PROVE  LET included == UNION {Header[h] : h \in Defines("include")}
                          printed == Defines("function declaration") \cup Defines("function")
                      IN /\ CalledNames \subseteq included \cup printed
                                                    \cup (IF useIncludes THEN {} ELSE Builtins)
                         /\ included \cap printed = {}
    BY DEF CallsDeclared
  <2> DEFINE I == UNION {Header[h] : h \in Defines("include")}
             P == Defines("function declaration") \cup Defines("function")
             B == IF useIncludes THEN {} ELSE Builtins
  <2>1. /\ ModuleOK(mod) /\ NamesOK /\ pass \in Late
        /\ Defines("include") = IF useIncludes THEN headers ELSE {}
        /\ P = Names(Printed(DOMAIN functions) \ intrinsics) \cup Range(IsnanText)
                 \cup Names(intrinsics \cap mod.overflow) \cup Names(Printed(mod.defined))
    BY AtTheEnd
  <2>2. /\ DOMAIN functions = Declarable /\ intrinsics = mod.calls \cap Overflows
        /\ \A n \in Declarable : functions[n] = Underscored(ListedName(n))
        /\ headers = Listed \cup (IF VaListTag \in Range(mod.structs) THEN {"stdarg"} ELSE {})
                       \cup (IF mod.compares THEN {"math"} ELSE {})
        /\ mod.defined \subseteq Declarable /\ intrinsics \subseteq Declarable
    BY <2>1, NamesAre
  <2>3. useIncludes => \A h \in headers : Header[h] \subseteq I
    BY <2>1
  <2> HIDE DEF I, P
  <2>4. ASSUME mod.compares PROVE "__isnan" \in I \cup P
    <3>1. "math" \in headers
      BY <2>2, <2>4
    <3>2. CASE useIncludes
      BY <2>3, <3>1, <3>2, LibraryIs
    <3>3. CASE ~useIncludes
      <4>1. IsnanText = <<"__isnan">>
        BY <3>1, <3>3 DEF IsnanText
      <4>2. "__isnan" \in Range(IsnanText)
        BY <4>1 DEF Range
      <4> QED
        BY <2>1, <4>2
    <3> QED
      BY <3>2, <3>3
  <2>5. ASSUME NEW n \in mod.calls, n \notin {"llvm.minnum.f64", "llvm.dbg.value"} \cup (Overflows \ mod.overflow)
                                      \cup {IF useIncludes THEN "isnan" ELSE "llvm.va_start"}
        PROVE  Underscored(ListedName(n)) \in I \cup P \cup B
    <3> DEFINE c == Underscored(ListedName(n))
    <3>1. /\ n \in mod.functions /\ n \notin {"__isnan", "minnum", "va_start"}
          /\ n = "llvm.va_start" => VaListTag \in Range(mod.structs)
      BY <2>1 DEF ModuleOK
    <3>2. CASE n = "isnan"
      <4>1. ListedName(n) = "isnan" /\ Underscored("isnan") = "isnan"
        BY <3>2 DEF ListedName, TrimPrefix, C_FUNCTIONS, C_MATH, Underscored
      <4>2. ~useIncludes
        BY <2>5, <3>2
      <4> QED
        BY <4>1, <4>2 DEF Builtins
    <3>3. CASE n # "isnan" /\ n \in intrinsics
      <4>1. n \in intrinsics \cap mod.overflow
        BY <2>2, <2>5, <3>3
      <4>2. functions[n] = c
        BY <2>2, <3>3
      <4>3. c \in Names(intrinsics \cap mod.overflow)
        BY <4>1, <4>2 DEF Names
      <4> QED
        BY <2>1, <4>3
    <3>4. CASE n # "isnan" /\ n \notin intrinsics
      <4>1. n \in Declarable /\ functions[n] = c
        BY <2>2, <2>5, <3>1, <3>4 DEF Declarable, DebugFunctions
      <4>2. CASE IsFunctionPrinted(c)
        <5>1. n \in Printed(DOMAIN functions) \ intrinsics
          BY <2>2, <3>4, <4>1, <4>2 DEF Printed
        <5>2. c \in Names(Printed(DOMAIN functions) \ intrinsics)
          BY <4>1, <5>1 DEF Names
        <5> QED
          BY <2>1, <5>2
      <4>3. CASE ~IsFunctionPrinted(c)
        <5>1. c \in C_FUNCTIONS \/ (useIncludes /\ c \in UNION {Lists[h] : h \in DOMAIN Lists})
          BY <4>3 DEF IsFunctionPrinted
        <5>2. c = ListedName(n)
          <6> DEFINE l == ListedName(n)
          <6>1. Underscored(l) \in LibraryNames
            BY <5>1 DEF LibraryNames
          <6> HIDE DEF l
          <6>2. Underscored(l) = l
            BY <6>1, UnderscoredIs
          <6> QED
            BY <6>2 DEF l
        <5>3. c # "minnum"
          BY <2>5, <3>1, <5>2, ListedIs
        <5>4. CASE c \in UNION {Lists[h] : h \in DOMAIN Lists}
          <6>1. CASE useIncludes
            <7>1. PICK h \in DOMAIN Lists : c \in Lists[h]
              BY <5>4
            <7>2. h \in headers
              BY <2>2, <3>1, <5>2, <7>1 DEF Listed
            <7>3. c \in Header[h]
              BY <5>3, <7>1, LibraryIs
            <7> QED
              BY <2>3, <6>1, <7>2, <7>3
          <6>2. CASE ~useIncludes
            <7>1. c \in {"floor", "memcpy"}
              BY <5>1, <5>3, <5>4, <6>2, LibraryIs DEF C_FUNCTIONS, C_MATH
            <7> QED
              BY <6>2, <7>1 DEF Builtins
          <6> QED
            BY <6>1, <6>2
        <5>5. CASE c = "va_start"
          <6>1. n = "llvm.va_start"
            BY <3>1, <5>2, <5>5, ListedIs
          <6>2. useIncludes /\ "stdarg" \in headers
            BY <2>2, <2>5, <3>1, <6>1
          <6>3. c \in Header["stdarg"]
            BY <5>5, LibraryIs
          <6> QED
            BY <2>3, <6>2, <6>3
        <5>6. c \in UNION {Lists[h] : h \in DOMAIN Lists} \/ c = "va_start"
          BY <5>1, <5>3, LibraryIs DEF C_FUNCTIONS, C_MATH
        <5> QED
          BY <5>4, <5>5, <5>6
      <4> QED
        BY <4>2, <4>3
    <3> QED
      BY <3>2, <3>3, <3>4
  <2>6. CalledNames \subseteq I \cup P \cup B
    <3> HIDE DEF B
    <3> QED
      BY <2>4, <2>5 DEF CalledNames
  <2>7. I \cap P = {}
    <3>1. CASE ~useIncludes
      <4>1. I = {}
        BY <2>1, <3>1 DEF I
      <4> QED
        BY <4>1
    <3>2. CASE useIncludes
      <4>1. I \subseteq LibraryNames \cup {"__isnan"}
        <5>1. headers \subseteq DOMAIN Header
          BY <2>1, HeadersFinite, LibraryIs
        <5> QED
          BY <2>1, <3>2, <5>1, LibraryIs DEF I
      <4>2. IsnanText = <<>>
        BY <3>2 DEF IsnanText
      <4>3. ASSUME NEW n \in Declarable, IsFunctionPrinted(functions[n])
            PROVE  functions[n] \notin LibraryNames \cup {"__isnan"}
        <5>1. functions[n] \notin LibraryNames
          BY <3>2, <4>3 DEF IsFunctionPrinted, LibraryNames
        <5>2. functions[n] # "__isnan"
          <6>1. SUFFICES ASSUME functions[n] = "__isnan" PROVE FALSE
            OBVIOUS
          <6> DEFINE l == ListedName(n)
          <6>2. Underscored(l) = "__isnan"
            BY <2>2, <6>1
          <6>3. l = "__isnan"
            <7> HIDE DEF l
            <7> QED
              BY <6>2, UnderscoredIs
          <6>4. n = "__isnan"
            BY <6>3, ListedIs DEF C_FUNCTIONS, C_MATH
          <6> QED
            BY <2>1, <6>4 DEF Declarable, ModuleOK
        <5> QED
          BY <5>1, <5>2
      <4>4. ASSUME NEW ns \in SUBSET Declarable, \A n \in ns : IsFunctionPrinted(functions[n])
            PROVE  Names(ns) \cap I = {}
        BY <4>1, <4>3, <4>4 DEF Names
      <4>5. Names(Printed(DOMAIN functions) \ intrinsics) \cap I = {}
        <5>1. /\ Printed(DOMAIN functions) \ intrinsics \in SUBSET Declarable
              /\ \A n \in Printed(DOMAIN functions) \ intrinsics : IsFunctionPrinted(functions[n])
          BY <2>2 DEF Printed
        <5> QED
          BY <4>4, <5>1
      <4>6. Names(Printed(mod.defined)) \cap I = {}
        <5>1. /\ Printed(mod.defined) \in SUBSET Declarable
              /\ \A n \in Printed(mod.defined) : IsFunctionPrinted(functions[n])
          BY <2>2 DEF Printed
        <5> QED
          BY <4>4, <5>1
      <4>7. Names(intrinsics \cap mod.overflow) \cap I = {}
        <5>1. "llvm_uadd_with_overflow_i32" \notin LibraryNames \cup {"__isnan"}
          BY LibraryIs
        <5> QED
          BY <2>1, <4>1, <5>1, OverflowNames
      <4>8. Range(IsnanText) = {}
        BY <4>2 DEF Range
      <4> QED
        BY <2>1, <4>5, <4>6, <4>7, <4>8
    <3> QED
      BY <3>1, <3>2
  <2> QED
    BY <2>6, <2>7 DEF I, P
<1> QED
  BY <1>1, ProgramInvariant, PTL

-----------------------------------------------------------------------------
(* The types of the variables. *)

InBounds ==
  \A m \in DOMAIN stack : stack[m].i \in 1..Len(Operands(stack[m].node)) + 1

BoundOK == pass = "computeGlobalVarsOrder" => InBounds

\* computeTopo calls for operands only.
LEMMA TopoBound ==
  ASSUME DEInv, BoundOK, ComputeTopo, pass' = "computeGlobalVarsOrder"
  PROVE  InBounds'
<1> DEFINE L == Len(stack)
           g == Last(stack).node
           i == Last(stack).i
<1>1. pass = "computeGlobalVarsOrder" /\ stack # <<>> /\ UNCHANGED <<mod, roots>>
  BY DEF ComputeTopo
<1>2. InputOK /\ Searching /\ InBounds
  BY <1>1 DEF DEInv, BoundOK, PhaseOK, Idle, BeforeOrder, BehindOrder, Fixes, WritesBefore, WritesBehind
<1>3. /\ stack \in Seq(Calls) /\ L \in Nat /\ L \in DOMAIN stack /\ g = stack[L].node /\ i = stack[L].i
      /\ i \in Nat /\ i >= 1 /\ Operands(g) \in Seq(Globals) /\ DOMAIN stack = 1..L
  <2>1. /\ stack \in Seq(Calls) /\ L \in Nat /\ L \in DOMAIN stack /\ g = stack[L].node /\ i = stack[L].i
        /\ i \in Nat /\ i >= 1 /\ Operands(g) \in Seq(Globals)
    BY <1>2, TopCall
  <2> QED
    BY <2>1
<1>4. \A x : Operands(x)' = Operands(x)
  BY <1>1 DEF Operands
<1>5. i <= Len(Operands(g)) => i + 1 \in 1..Len(Operands(g)) + 1
  <2> DEFINE k == Len(Operands(g))
  <2>1. k \in Nat
    BY <1>3
  <2> HIDE DEF k, i
  <2>2. i <= k => i + 1 \in 1..k + 1
    BY <1>3, <2>1
  <2> QED
    BY <2>2 DEF k
<1>6. CASE i <= Len(Operands(g)) /\ Push(Operands(g)[i])
  <2>1. Operands(g)[i] \in Globals /\ Operands(g)[i] \in Nodes
    <3>1. Operands(g)[i] \in Globals
      BY <1>3, <1>6
    <3> QED
      BY <3>1 DEF Nodes
  <2>2. /\ stack' \in Seq(Calls') /\ Len(stack') = L + 1
        /\ stack'[L + 1].node = Operands(g)[i] /\ stack'[L + 1].i = 1
        /\ \A m \in 1..L : /\ stack'[m].node = stack[m].node
                           /\ stack'[m].i = IF m = L THEN stack[m].i + 1 ELSE stack[m].i
    BY <1>1, <1>3, <1>6, <2>1, PushIs
  <2>3. Len(Operands(Operands(g)[i])) \in Nat
    BY <1>2, <2>1 DEF Operands, InputOK
  <2>4. 1 \in 1..Len(Operands(Operands(g)[i])) + 1
    BY <2>3
  <2>5. ASSUME NEW m \in DOMAIN stack' PROVE stack'[m].i \in 1..Len(Operands(stack'[m].node)) + 1
    <3>1. m \in 1..L \/ m = L + 1
      <4>1. DOMAIN stack' = 1..(L + 1)
        BY <2>2
      <4> HIDE DEF L
      <4>2. \A k \in 1..(L + 1) : k \in 1..L \/ k = L + 1
        BY <1>3
      <4> QED
        BY <4>1, <4>2
    <3>2. CASE m = L + 1
      BY <2>2, <2>4, <3>2
    <3>3. CASE m \in 1..L /\ m = L
      BY <1>3, <1>5, <1>6, <2>2, <3>3
    <3>4. CASE m \in 1..L /\ m # L
      BY <1>2, <1>3, <2>2, <3>4 DEF InBounds
    <3> QED
      BY <3>1, <3>2, <3>3, <3>4
  <2> QED
    BY <1>4, <2>5 DEF InBounds
<1>7. CASE i <= Len(Operands(g)) /\ Advance
  <2>1. /\ stack' \in Seq(Calls') /\ Len(stack') = L
        /\ \A m \in 1..L : /\ stack'[m].node = stack[m].node
                           /\ stack'[m].i = IF m = L THEN stack[m].i + 1 ELSE stack[m].i
    BY <1>1, <1>3, <1>7, AdvanceIs
  <2>2. ASSUME NEW m \in DOMAIN stack' PROVE stack'[m].i \in 1..Len(Operands(stack'[m].node)) + 1
    <3>1. m \in 1..L
      BY <1>3, <2>1
    <3>2. CASE m = L
      BY <1>3, <1>5, <1>7, <2>1, <3>2
    <3>3. CASE m # L
      BY <1>2, <1>3, <2>1, <3>1, <3>3 DEF InBounds
    <3> QED
      BY <3>2, <3>3
  <2> QED
    BY <1>4, <2>2 DEF InBounds
<1>8. CASE Return
  <2>1. /\ stack' \in Seq(Calls') /\ Len(stack') = L - 1
        /\ \A m \in 1..(L - 1) : stack'[m] = stack[m]
    BY <1>1, <1>3, <1>8, ReturnIs
  <2>2. \A m \in DOMAIN stack' : m \in DOMAIN stack /\ stack'[m] = stack[m]
    BY <1>3, <2>1
  <2> QED
    BY <1>2, <1>4, <2>2 DEF InBounds
<1> QED
  BY <1>1, <1>6, <1>7, <1>8 DEF ComputeTopo

\* Every step keeps the call of computeTopo at an operand, or behind them.
LEMMA BoundStep ==
  ASSUME DEInv, BoundOK, [DTNext]_deVars
  PROVE  BoundOK'
<1> SUFFICES ASSUME pass' = "computeGlobalVarsOrder" PROVE InBounds'
  BY DEF BoundOK
<1>1. mod' = mod
  BY Fixed
<1>2. CASE ComputeTopo
  BY <1>2, TopoBound
<1>3. CASE StartGlobals
  <2>1. stack' = <<Call(Loop)>> /\ roots' = mod.globals
    BY <1>3 DEF StartGlobals
  <2>2. DOMAIN stack' = {1} /\ stack'[1].node = Loop /\ stack'[1].i = 1
    BY <2>1 DEF Call
  <2>3. 1 \in 1..Len(mod.globals) + 1
    <3>1. Len(mod.globals) \in Nat
      BY DEF DEInv, InputOK
    <3> QED
      BY <3>1
  <2>4. \A x : x = Loop => Operands(x)' = mod.globals
    BY <2>1 DEF Operands
  <2> QED
    BY <2>2, <2>3, <2>4 DEF InBounds
<1>4. CASE FindDeclaredFunctions
  <2>1. pass = "findDeclaredFunctions" /\ UNCHANGED stack
    BY <1>4 DEF FindDeclaredFunctions
  <2>2. stack = <<>>
    BY <2>1 DEF DEInv, PhaseOK, Idle, BeforeOrder, BehindOrder, Fixes, WritesBefore, WritesBehind
  <2> QED
    BY <2>1, <2>2 DEF InBounds
<1>5. CASE UNCHANGED deVars
  <2>1. UNCHANGED <<pass, stack, roots>>
    BY <1>5, NothingMoves
  <2>2. \A x : Operands(x)' = Operands(x)
    BY <1>1, <2>1 DEF Operands
  <2> QED
    BY <2>1, <2>2 DEF BoundOK, InBounds
<1>6. CASE NameStep /\ ~ComputeTopo /\ ~StartGlobals
  <2>1. pass' # "computeGlobalVarsOrder"
    BY <1>6 DEF NameStep, DetermineIncludes, NameFunctions, InitializeGlobalVars, CreateExpressions
  <2> QED
    BY <2>1
<1>7. CASE ParseStructDeclarations \/ ParseStructItems
  <2>1. pass' # "computeGlobalVarsOrder"
    BY <1>7 DEF ParseStructDeclarations, ParseStructItems
  <2> QED
    BY <2>1
<1>8. CASE WriterStep \/ (StartStructs \/ StructDefinition) \/ (StartDebugTypes \/ FixType)
  <2>1. pass' \in Late
    BY <1>8, WriterStepIs, StructStepIs, DebugStepIs
  <2> QED
    BY <2>1 DEF Late, Fixes, WritesBefore, WritesBehind
<1> QED
  BY <1>2, <1>3, <1>4, <1>5, <1>6, <1>7, <1>8, EveryStep

\* The calls of computeTopo are at an operand, or behind them.
LEMMA BoundInvariant == DTSpec => []BoundOK
<1>1. DEInit => BoundOK
  BY DEF DEInit, BoundOK
<1>2. DEInv /\ BoundOK /\ [DTNext]_deVars => BoundOK'
  BY BoundStep
<1> QED
  BY <1>1, <1>2, DEInvariant, PTL DEF DTSpec

\* For every module the tables, stacks and sections keep their types.
THEOREM DeclarationsTyped == DTSpec => []DETypeOK
<1>1. ProgramInv /\ BoundOK => DETypeOK
  <2> SUFFICES ASSUME ProgramInv, BoundOK PROVE DETypeOK
    OBVIOUS
  <2>1. /\ ModuleOK(mod) /\ TablesOK /\ NamesOK /\ DEInv /\ InputOK /\ Complete(diTypes) /\ FixOK
        /\ DefinitionsOK
    BY InvParts DEF ProgramInv, DEInv
  <2>2. headers \subseteq DOMAIN Lists \cup {"stdarg"} /\ DOMAIN functions \subseteq mod.functions
    BY <2>1, HeadersFinite, FunctionsAre
  <2>3. Range(structs) \cup unnamedStructs \cup Range(typeDefs) \subseteq Types
    <3>1. Range(mod.structs) \subseteq Types
      BY <2>1, AllClosed DEF All
    <3>2. Range(structs) \subseteq Types
      BY <2>1, <3>1 DEF TablesOK, Range
    <3>3. ReachedSoFar \subseteq Types
      BY <2>1, FromTypes DEF ReachedSoFar
    <3> QED
      BY <2>1, <3>2, <3>3 DEF TablesOK
  <2>4. \A s \in DOMAIN items : Range(items[s]) \subseteq Types
    <3>1. \A s \in DOMAIN items : items[s] \in Seq(Types)
      BY <2>1 DEF TablesOK, ItemsOK
    <3> QED
      BY <3>1 DEF Range
  <2>5. Range(globalVars) \cup DOMAIN values \subseteq Range(mod.globals)
    BY <2>1 DEF DEInv, OrderOK, ValuesOK, Globals, Range
  <2>6. Range(diTypes) \subseteq Types
    BY <2>1 DEF Complete, Debugs, Range
  <2>7. stack # <<>> =>
          \/ pass = "computeGlobalVarsOrder" /\ Searching
          \/ pass \in Fixes /\ Fixing
          \/ pass = "structDefinitions" /\ Defining
    <3> SUFFICES ASSUME stack # <<>>
                 PROVE  \/ pass = "computeGlobalVarsOrder" /\ Searching
                        \/ pass \in Fixes /\ Fixing
                        \/ pass = "structDefinitions" /\ Defining
      OBVIOUS
    <3>0. ~Idle
      BY DEF Idle
    <3>1. \/ pass = "computeGlobalVarsOrder" /\ Searching
          \/ pass \in Fixes /\ Fixing
          \/ pass \in WritesBefore \cup WritesBehind
      BY <2>1, <3>0 DEF DEInv, PhaseOK, BeforeOrder, BehindOrder
    <3>2. pass \in WritesBefore \cup WritesBehind => pass = "structDefinitions"
      BY <2>1, <3>0 DEF DefinitionsOK, BeforeStructs, BehindStructs, WritesBefore, WritesBehind, Fixes
    <3>3. pass = "structDefinitions" => Defining
      BY <2>1 DEF DefinitionsOK
    <3> QED
      BY <3>1, <3>2, <3>3
  <2>8. ASSUME NEW c \in Range(stack)
        PROVE  CASE pass = "computeGlobalVarsOrder" ->
                      c.node \in Range(mod.globals) \cup {Loop} /\ c.i \in 1..(1 + Len(Operands(c.node)))
                 [] pass = "structDefinitions" ->
                      /\ c.node \in Range(structs) \cup unnamedStructs \cup {Loop}
                      /\ c.i \in 1..(1 + Len(Members(c.node)))
                 [] OTHER -> c.node \in Types \cup {Loop}
    <3>1. PICK m \in DOMAIN stack : c = stack[m]
      BY DEF Range
    <3>2. stack # <<>> /\ (m = 1 \/ m \in 2..Len(stack))
      <4>1. stack \in Seq(Calls)
        BY <2>7, <3>1 DEF Searching, Fixing, Defining
      <4> QED
        BY <3>1, <4>1
    <3>3. CASE pass = "computeGlobalVarsOrder"
      <4>1. Searching /\ InBounds
        BY <2>7, <3>2, <3>3 DEF BoundOK, Fixes
      <4>2. c.node \in Globals \cup {Loop}
        BY <3>1, <3>2, <4>1 DEF Searching
      <4>3. c.i \in 1..Len(Operands(c.node)) + 1 /\ Len(Operands(c.node)) \in Nat
        BY <2>1, <3>1, <4>1, OperandsType DEF InBounds
      <4>4. Len(Operands(c.node)) + 1 = 1 + Len(Operands(c.node))
        BY <4>3
      <4> QED
        BY <3>3, <4>2, <4>3, <4>4 DEF Globals
    <3>4. CASE pass = "structDefinitions"
      <4>1. Defining /\ pass \in Late
        BY <2>7, <3>2, <3>4 DEF Late, WritesBefore, Fixes
      <4>2. c.node \in All \cup {Loop}
        BY <3>1, <3>2, <4>1 DEF Defining
      <4>3. All = Range(structs) \cup unnamedStructs
        <5>1. pass \notin NoItems /\ pass \notin NoFunctions /\ pass \notin NoStructs
          BY <3>4 DEF NoItems, NoFunctions, NoStructs
        <5>2. ReachedSoFar = FromItems \cup FromUses
          BY <5>1 DEF ReachedSoFar
        <5> QED
          BY <2>1, <5>1, <5>2, LiteralsAre DEF TablesOK, All
      <4>4. Members(c.node) \in Seq(Types)
        <5>1. CASE c.node = Loop
          <6>1. roots \in Seq(All) /\ All \subseteq Types
            BY <2>1, <4>1, AllClosed DEF Defining
          <6>2. roots \in Seq(Types)
            BY <6>1, Widened
          <6> QED
            BY <5>1, <6>2 DEF Members
        <5>2. CASE c.node \in All
          BY <2>1, <4>1, <5>2, MembersAre
        <5> QED
          BY <4>2, <5>1, <5>2
      <4>5. c.i \in 1..Len(Members(c.node)) + 1 /\ Len(Members(c.node)) \in Nat
        BY <3>1, <4>1, <4>4 DEF Defining
      <4>6. Len(Members(c.node)) + 1 = 1 + Len(Members(c.node))
        BY <4>5
      <4> QED
        BY <3>4, <4>2, <4>3, <4>5, <4>6
    <3>5. CASE pass # "computeGlobalVarsOrder" /\ pass # "structDefinitions"
      <4>1. Fixing
        BY <2>7, <3>2, <3>5
      <4> QED
        BY <3>1, <3>2, <3>5, <4>1 DEF Fixing
    <3> QED
      BY <3>3, <3>4, <3>5
  <2>9. stack # <<>> =>
          pass \in {"computeGlobalVarsOrder", "parseMetadataTypes", "structDefinitions", "crash"}
    BY <2>7 DEF Fixes
  <2> QED
    BY <2>2, <2>3, <2>4, <2>5, <2>6, <2>8, <2>9 DEF DETypeOK
<1> QED
  BY <1>1, ProgramInvariant, BoundInvariant, PTL
=============================================================================
