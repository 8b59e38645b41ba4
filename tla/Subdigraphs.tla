----------------------------- MODULE Subdigraphs -----------------------------
(***************************************************************************)
(* The kinds of subdigraphs the searches look for, as properties of a set  *)
(* F of edges <<tail, head>>; V is the set of the vertices of the graph.   *)
(***************************************************************************)
EXTENDS Naturals, FiniteSets

Ends(F) == UNION {{e[1], e[2]} : e \in F}
In(F, v) == Cardinality({e \in F : e[2] = v})
Out(F, v) == Cardinality({e \in F : e[1] = v})
Passed(F, v) == In(F, v) = 1 /\ Out(F, v) = 1

\* No part of F is apart from the rest.
Connected(F) ==
    \A G \in (SUBSET F) \ {{}, F} : Ends(G) \cap Ends(F \ G) # {}

IsCycle(F) == F # {} /\ Connected(F) /\ \A v \in Ends(F) : Passed(F, v)

IsPath(F, s, t) ==
    /\ s # t /\ {s, t} \subseteq Ends(F) /\ Connected(F)
    /\ In(F, s) = 0 /\ Out(F, s) = 1 /\ In(F, t) = 1 /\ Out(F, t) = 0
    /\ \A v \in Ends(F) \ {s, t} : Passed(F, v)

Sources(F) == {v \in Ends(F) : In(F, v) = 0}

\* Trees directed away from their roots: no edge of a part without a source.
IsForest(F) ==
    /\ \A v \in Ends(F) : In(F, v) <= 1
    /\ \A G \in (SUBSET F) \ {{}} : Sources(G) # {}

IsTree(F, root) == IsForest(F) /\ Sources(F) \subseteq {root}

Spans(F, V) == Ends(F) = V
=============================================================================
