---------------------------- MODULE MCControlFlow ----------------------------
(* The translation of every function of N reachable blocks.  *)
EXTENDS EmittedC

CONSTANT MaxRets    \* bound: blocks that end in a return

\* The last block among those numbered so far that a successor list names.
LastNamed(s, last) ==
  CHOOSE m \in {last} \cup {s[i] : i \in DOMAIN s} :
    m >= last /\ \A i \in DOMAIN s : s[i] <= m

\* Successors of a block when the blocks up to "last" have been named: a new
\* block takes the next number.
SuccLists(last) ==
  {<<>>} \cup {<<c>> : c \in Blocks \cap (2..last + 1)}
    \cup {cd \in (Blocks \cap (2..last + 1)) \X (Blocks \cap (2..last + 2)) :
            cd[1] # cd[2] /\ (cd[1] <= last => cd[2] <= last + 1)}

Rets(s) == {b \in DOMAIN s : s[b] = <<>>}

\* Graphs as successor lists, blocks numbered in the order they are named, so
\* that each graph of reachable blocks is built once; with the last block named.
Graphs ==
  LET P[n \in 0..N] ==
        IF n = 0 THEN {<<<<>>, 1>>}
        ELSE UNION {{<<Append(p[1], s), LastNamed(s, p[2])>> : s \in SuccLists(p[2])} :
                      p \in {q \in P[n-1] : n <= q[2] /\ Cardinality(Rets(q[1])) <= MaxRets}}
  IN  {p[1] : p \in {q \in P[N] : q[2] = N /\ Cardinality(Rets(q[1])) <= MaxRets}}

Kind(s) == CASE Len(s) = 0 -> "ret" [] Len(s) = 1 -> "br" [] OTHER -> "cond"

Function(s, bare) ==
  [term |-> [b \in Blocks |-> Kind(s[b])], succ |-> s, phis |-> 2..N, bare |-> bare]

\* Every graph of N blocks with branches and returns; the returning blocks
\* either all have code or all have none.
MCInit ==
  /\ \E s \in Graphs : \E bare \in {{}, Rets(s)} : g = Function(s, bare)
  /\ EmInit

MCSpec == MCInit /\ [][EmNext]_emVars /\ WF_emVars(Translate)
=============================================================================
