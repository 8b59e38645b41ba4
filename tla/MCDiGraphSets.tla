---------------------------- MODULE MCDiGraphSets ----------------------------
(***************************************************************************)
(* Two objects in universes of up to three edges; every set of up to four  *)
(* edges over four vertices is traversed.                                  *)
(***************************************************************************)
EXTENDS DiGraphSets

CONSTANT MaxWalked  \* how many edges the universes that are traversed have

MCLevel(e) == IF e = 0 THEN 0 ELSE NumElems + 1 - e

\* Two edges to which flip() adds others, a cycle with weights, a repeated
\* edge, too many edges, none.
MCLists == {
    <<<<1, 2>>, <<1, 3>>>>, <<<<1, 2, 4>>, <<1, 3>>>>,
    <<<<1, 2>>, <<2, 3, 5>>, <<3, 1, 0>>>>,
    <<<<1, 3, 4>>, <<1, 3>>>>,
    <<<<1, 2>>, <<1, 3>>, <<2, 1>>, <<2, 3>>, <<3, 1>>>>,
    <<>>}

MCWalks == {s \in SUBSET ((1..4) \X (1..4)) : Cardinality(s) \in 0..MaxWalked}

MCArguments == {
    <<"edge", <<1, 2>>>>, <<"edge", <<2, 1>>>>, <<"edge", <<3, 1>>>>,
    <<"graph", {}>>, <<"graph", {<<1, 2>>}>>, <<"graph", {<<1, 2>>, <<1, 3>>}>>,
    <<"vertex", 1>>, <<"vertex", 2>>}

MCQuestions == {
    <<"cycles", 0>>, <<"hamiltonian", 0>>, <<"paths", <<1, 3>>>>, <<"forests", {1}>>,
    <<"trees", 2>>, <<"indegree", <<1, <<0, 1>>>>>>, <<"indegree", <<3, <<1>>>>>>}

MCDumps == {{{1, 3}}}
=============================================================================
