--------------------------- MODULE MCGraphSearch ---------------------------
(***************************************************************************)
(* The searches, for all their arguments, on what Digraph::update() makes  *)
(* of every list of MinEdges to MaxEdges edges over MaxVertices vertex     *)
(* names.  Lists that differ by the names only give one graph, so only     *)
(* those are kept whose names are 1, 2, ... in the order update() meets    *)
(* them.                                                                   *)
(***************************************************************************)
EXTENDS GraphSearch, Digraph, SequencesExt

CONSTANTS MaxVertices, MinEdges, MaxEdges, SelfLoops

MCEdges == {e \in (1..MaxVertices) \X (1..MaxVertices) : SelfLoops \/ e[1] # e[2]}

NamedInOrder(l) == LET s == LeavingStack(l) IN \A k \in DOMAIN s : s[k] = k

MCEdgeLists[k \in 0..MaxEdges] ==
    IF k = 0 THEN {<<>>}
    ELSE {l \in {<<e>> \o t : e \in MCEdges, t \in MCEdgeLists[k - 1]} :
            NamedInOrder(l) /\ l[1] \notin ToSet(Tail(l))}

MCAllGraphs == {Update(l) : l \in UNION {MCEdgeLists[k] : k \in MinEdges..MaxEdges}}
=============================================================================
