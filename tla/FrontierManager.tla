-------------------------- MODULE FrontierManager --------------------------
(***************************************************************************)
(* The class FrontierManager: for every edge of a digraph, which vertices  *)
(* enter, are on and leave the frontier, and the slot of the array of a    *)
(* search state that holds the data of each of them.  One action is one    *)
(* iteration of a loop of the constructor.                                 *)
(*                                                                         *)
(* Edge index k of the code (from 0) is index k + 1 here.  The vectors of  *)
(* frontier_vss_ and remaining_vss_ are kept as sets: their order is the   *)
(* order of the vertex numbers and no reader depends on it.                *)
(***************************************************************************)
EXTENDS Integers, Sequences, FiniteSets

CONSTANT Graphs   \* the digraphs, [n |-> vertexSize(), edges |-> edge list]

Incident(g, a) == {g.edges[a][1], g.edges[a][2]}

\* What Digraph::update() returns: vertices 1..n, each on some edge.
IsGraph(g) ==
    /\ g.n \in Nat
    /\ g.edges \in Seq((1..g.n) \X (1..g.n))
    /\ g.edges # <<>>
    /\ \A v \in 1..g.n : \E a \in 1..Len(g.edges) : v \in Incident(g, a)

ASSUME GraphsAssumption == \A g \in Graphs : IsGraph(g)

VARIABLES
    graph,              \* graph_
    entering_vss,       \* entering_vss_
    leaving_vss,        \* leaving_vss_
    frontier_vss,       \* frontier_vss_
    remaining_vss,      \* remaining_vss_
    vertex_to_pos,      \* vertex_to_pos_
    pos_to_vertex,      \* pos_to_vertex_
    max_frontier_size,  \* max_frontier_size_
    seen,               \* entered_vs, then leaved_vs
    unused,             \* the stack of free slots, its top last
    current_vs,         \* the vertices on the frontier
    phase,              \* the loop the constructor is in
    i,                  \* the edge of the iteration
    j                   \* the element of entering_vs or leaving_vs

fmVars == <<graph, entering_vss, leaving_vss, frontier_vss, remaining_vss,
            vertex_to_pos, pos_to_vertex, max_frontier_size, seen, unused,
            current_vs, phase, i, j>>

N == graph.n
M == Len(graph.edges)
Vertices == 1..N
EdgeIds == 1..M

SeqSet(s) == {s[k] : k \in 1..Len(s)}
-----------------------------------------------------------------------------
\* Mutation: the last slot is on top.
AllUnusedAscending(n) == [k \in 1..n |-> k - 1]

\* The stack of free slots at the start: slot 0 is on top.
AllUnused(n) == [k \in 1..n |-> n - k]

Init ==
    /\ graph \in Graphs
    /\ entering_vss = [a \in EdgeIds |-> <<>>]
    /\ leaving_vss = [a \in EdgeIds |-> <<>>]
    /\ frontier_vss = <<>>
    /\ remaining_vss = <<>>
    /\ vertex_to_pos = [v \in Vertices |-> 0]
    /\ pos_to_vertex = [a \in EdgeIds |-> [p \in 0..N |-> 0]]
    /\ max_frontier_size = 0
    /\ seen = {}
    /\ unused = AllUnused(N)
    /\ current_vs = {}
    /\ phase = "entering"
    /\ i = 1
    /\ j = 1

\* The ends of edge e that are not in vs, the tail first, each once.
NewEnds(e, vs) ==
    IF e[1] \in vs
    THEN IF e[2] \in vs THEN <<>> ELSE <<e[2]>>
    ELSE IF e[2] \in vs \cup {e[1]} THEN <<e[1]>> ELSE <<e[1], e[2]>>

\* Mutation: no end is remembered.
SeenUnchanged == seen

\* entered_vs or leaved_vs after the ends of edge i are inserted.
SeenWithEnds == seen \cup Incident(graph, i)

\* constructEnteringAndLeavingVss(), first loop: from the first edge on.
ComputeEntering ==
    /\ phase = "entering"
    /\ entering_vss' = [entering_vss EXCEPT ![i] = NewEnds(graph.edges[i], seen)]
    /\ IF i < M
       THEN /\ i' = i + 1
            /\ seen' = SeenWithEnds
            /\ UNCHANGED phase
       ELSE /\ phase' = "leaving"
            /\ seen' = {}
            /\ UNCHANGED i
    /\ UNCHANGED <<graph, leaving_vss, frontier_vss, remaining_vss, vertex_to_pos,
                   pos_to_vertex, max_frontier_size, unused, current_vs, j>>

\* Second loop: from the last edge back.
ComputeLeaving ==
    /\ phase = "leaving"
    /\ leaving_vss' = [leaving_vss EXCEPT ![i] = NewEnds(graph.edges[i], seen)]
    /\ IF i > 1
       THEN /\ i' = i - 1
            /\ seen' = SeenWithEnds
            /\ UNCHANGED phase
       ELSE /\ phase' = "enter"
            /\ seen' = {}
            /\ UNCHANGED i
    /\ UNCHANGED <<graph, entering_vss, frontier_vss, remaining_vss, vertex_to_pos,
                   pos_to_vertex, max_frontier_size, unused, current_vs, j>>

\* construct(): a vertex enters and takes the free slot on top of the stack.
Enter ==
    /\ phase = "enter"
    /\ j <= Len(entering_vss[i])
    /\ LET v == entering_vss[i][j]
           u == unused[Len(unused)]
       IN  /\ current_vs' = current_vs \cup {v}
           /\ unused' = SubSeq(unused, 1, Len(unused) - 1)
           /\ vertex_to_pos' = [vertex_to_pos EXCEPT ![v] = u]
           /\ pos_to_vertex' = [pos_to_vertex EXCEPT ![i][u] = v]
    /\ j' = j + 1
    /\ UNCHANGED <<graph, entering_vss, leaving_vss, frontier_vss, remaining_vss,
                   max_frontier_size, seen, phase, i>>

\* Mutation: the leaving vertices are kept.
RemainingAll == current_vs

\* What is left of the frontier when the vertices of edge i have left.
Remaining == current_vs \ SeqSet(leaving_vss[i])

\* All have entered: the frontier is measured and recorded.
Record ==
    /\ phase = "enter"
    /\ j > Len(entering_vss[i])
    /\ max_frontier_size' = IF Cardinality(current_vs) > max_frontier_size
                            THEN Cardinality(current_vs)
                            ELSE max_frontier_size
    /\ frontier_vss' = Append(frontier_vss, current_vs)
    /\ remaining_vss' = Append(remaining_vss, Remaining)
    /\ phase' = "leave"
    /\ j' = 1
    /\ UNCHANGED <<graph, entering_vss, leaving_vss, vertex_to_pos, pos_to_vertex,
                   seen, unused, current_vs, i>>

\* The free slots, and the frontier, once v has left.
Freed(v) == Append(unused, vertex_to_pos[v])

\* Mutation: v stays on the frontier.
WithoutNothing(v) == current_vs
Without(v) == current_vs \ {v}

\* A vertex leaves and its slot is free again.
Leave ==
    /\ phase = "leave"
    /\ j <= Len(leaving_vss[i])
    /\ current_vs' = Without(leaving_vss[i][j])
    /\ unused' = Freed(leaving_vss[i][j])
    /\ j' = j + 1
    /\ UNCHANGED <<graph, entering_vss, leaving_vss, frontier_vss, remaining_vss,
                   vertex_to_pos, pos_to_vertex, max_frontier_size, seen, phase, i>>

IsLastEdge == i = M

\* Mutation: every row starts empty.
RowNotCopied == pos_to_vertex

\* The rows of pos_to_vertex with the next one copied from this one.
RowCopied == [pos_to_vertex EXCEPT ![i + 1] = pos_to_vertex[i]]

\* The next edge begins with a copy of the slots of this one.
NextEdge ==
    /\ phase = "leave"
    /\ j > Len(leaving_vss[i])
    /\ j' = 1
    /\ IF IsLastEdge
       THEN /\ phase' = "done"
            /\ UNCHANGED <<i, pos_to_vertex>>
       ELSE /\ i' = i + 1
            /\ phase' = "enter"
            /\ pos_to_vertex' = RowCopied
    /\ UNCHANGED <<graph, entering_vss, leaving_vss, frontier_vss, remaining_vss,
                   vertex_to_pos, max_frontier_size, seen, unused, current_vs>>

Construct ==
    \/ ComputeEntering
    \/ ComputeLeaving
    \/ Enter
    \/ Record
    \/ Leave
    \/ NextEdge

Spec == Init /\ [][Construct]_fmVars
-----------------------------------------------------------------------------
\* getVerticesEnteringLevel(v): the edge at which v enters.
VerticesEnteringLevel(v) ==
    CHOOSE a \in EdgeIds : /\ v \in SeqSet(entering_vss[a])
                           /\ \A b \in 1..(a - 1) : v \notin SeqSet(entering_vss[b])

\* getAllVerticesEnteringLevel(): the last edge at which a vertex enters.
AllVerticesEnteringLevel ==
    CHOOSE a \in EdgeIds : /\ entering_vss[a] # <<>>
                           /\ \A b \in (a + 1)..M : entering_vss[b] = <<>>
-----------------------------------------------------------------------------
Phases == {"entering", "leaving", "enter", "leave", "done"}

\* Every variable has its type throughout the constructor.
TypeOK ==
    /\ IsGraph(graph)
    /\ entering_vss \in [EdgeIds -> Seq(Vertices)]
    /\ leaving_vss \in [EdgeIds -> Seq(Vertices)]
    /\ frontier_vss \in Seq(SUBSET Vertices)
    /\ remaining_vss \in Seq(SUBSET Vertices)
    /\ vertex_to_pos \in [Vertices -> 0..(N - 1)]
    /\ pos_to_vertex \in [EdgeIds -> [0..N -> 0..N]]
    /\ max_frontier_size \in 0..N
    /\ seen \subseteq Vertices
    /\ unused \in Seq(0..(N - 1))
    /\ current_vs \subseteq Vertices
    /\ phase \in Phases
    /\ i \in EdgeIds
    /\ j \in 1..3

(***************************************************************************)
(* Two vertices on the frontier never share a slot, and no slot in use is  *)
(* on the free stack: the data[vertexToPos(v)] of the searches (getIndeg,  *)
(* setComp, ...) address one vertex each.                                  *)
(***************************************************************************)
SlotsDistinct ==
    /\ \A v, w \in current_vs : vertex_to_pos[v] = vertex_to_pos[w] => v = w
    /\ \A v \in current_vs : vertex_to_pos[v] \notin SeqSet(unused)
    /\ \A a, b \in 1..Len(unused) : unused[a] = unused[b] => a = b

(***************************************************************************)
(* The stack of free slots never underflows at unused.back(): a free slot  *)
(* remains for each vertex not on the frontier.                            *)
(***************************************************************************)
SlotsAccounted == Len(unused) + Cardinality(current_vs) = N

(***************************************************************************)
(* The searches allocate an array of getMaxFrontierSize() elements         *)
(* (setArraySize); every slot ever given out is inside it, because freed   *)
(* slots are taken again before a new one is.                              *)
(***************************************************************************)
SlotsBounded ==
    phase \in {"leave", "done"} =>
        \A v \in Vertices :
            (\E a \in 1..i : v \in Incident(graph, a)) =>
                vertex_to_pos[v] < max_frontier_size

(***************************************************************************)
(* The documented frontier: at edge a it is the ends of a and the vertices *)
(* with an edge before a and one after a; what remains is what a later     *)
(* edge still needs (the comments of frontier_vss_ and leaving_vss_).      *)
(***************************************************************************)
FrontierExact ==
    \A a \in 1..Len(frontier_vss) :
        /\ frontier_vss[a] = {v \in Vertices :
                                /\ \E b \in 1..a : v \in Incident(graph, b)
                                /\ \E b \in a..M : v \in Incident(graph, b)}
        /\ remaining_vss[a] = {v \in frontier_vss[a] :
                                \E b \in (a + 1)..M : v \in Incident(graph, b)}

(***************************************************************************)
(* At the end a vertex enters at its first edge and leaves at its last,    *)
(* once each; the assertions on entered_vs.size() and leaved_vs.size().    *)
(***************************************************************************)
OnceEach(vss) ==
    /\ \A v \in Vertices : Cardinality({a \in EdgeIds : v \in SeqSet(vss[a])}) = 1
    /\ \A a \in EdgeIds : Cardinality(SeqSet(vss[a])) = Len(vss[a])
EnterLeaveOnce ==
    phase = "done" =>
        /\ OnceEach(entering_vss)
        /\ OnceEach(leaving_vss)
        /\ \A v \in Vertices : \A a, b \in EdgeIds :
            v \in SeqSet(entering_vss[a]) /\ v \in SeqSet(leaving_vss[b]) => a <= b

(***************************************************************************)
(* posToVertex(a, vertexToPos(v)) gives v back for every vertex that is on *)
(* the frontier of edge a, though vertexToPos is a single table and slots  *)
(* are reused between edges.                                               *)
(***************************************************************************)
SlotTablesAgree ==
    phase = "done" =>
        \A a \in EdgeIds : \A v \in frontier_vss[a] :
            pos_to_vertex[a][vertex_to_pos[v]] = v
=============================================================================
