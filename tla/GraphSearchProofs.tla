------------------------- MODULE GraphSearchProofs -------------------------
(***************************************************************************)
(* The constructor of FrontierManager and the searches of graphset.cc, for *)
(* every digraph and every argument.                                       *)
(***************************************************************************)
EXTENDS GraphSearch, FiniteSetTheorems, LeastNumber, TLAPS

(***************************************************************************)
(* The constructor                                                         *)
(***************************************************************************)
\* The vertices with an edge numbered lo to hi.
Touched(lo, hi) == {v \in Vertices : \E b \in lo..hi : v \in Incident(graph, b)}
EntersAt(a) == Touched(a, a) \ Touched(1, a - 1)
LeavesAt(a) == Touched(a, a) \ Touched(a + 1, M)
Before(sq, k) == {sq[x] : x \in 1..(k - 1)}

IsListing(sq, S) ==
    /\ sq \in Seq(S)
    /\ Len(sq) <= 2
    /\ SeqSet(sq) = S
    /\ \A x, y \in 1..Len(sq) : sq[x] = sq[y] => x = y

\* The lists made so far by constructEnteringAndLeavingVss().
ListsInv ==
    /\ phase = "entering" => seen = Touched(1, i - 1)
    /\ phase = "leaving" => seen = Touched(i + 1, M)
    /\ \A a \in EdgeIds : (phase = "entering" => a < i) =>
            IsListing(entering_vss[a], EntersAt(a))
    /\ \A a \in EdgeIds : (phase # "entering" /\ (phase = "leaving" => a > i)) =>
            IsListing(leaving_vss[a], LeavesAt(a))

\* Where the constructor is.
ControlInv ==
    /\ phase = "entering" => j = 1
    /\ phase = "leaving" => j = 1
    /\ phase = "enter" => j <= Len(entering_vss[i]) + 1
    /\ phase = "leave" => j <= Len(leaving_vss[i]) + 1
    /\ phase = "done" => i = M

\* The vertices on the frontier.
CurrentInv ==
    /\ phase \in {"entering", "leaving", "done"} => current_vs = {}
    /\ phase = "enter" => current_vs = (Touched(1, i - 1) \cap Touched(i, M))
                                          \cup Before(entering_vss[i], j)
    /\ phase = "leave" => current_vs = (Touched(1, i) \cap Touched(i, M))
                                          \ Before(leaving_vss[i], j)

\* The levels recorded so far.
RecordInv ==
    /\ phase \in {"entering", "leaving"} => frontier_vss = <<>>
    /\ phase = "enter" => Len(frontier_vss) = i - 1
    /\ phase \in {"leave", "done"} => Len(frontier_vss) = i
    /\ Len(remaining_vss) = Len(frontier_vss)

\* The number of slots given out so far.
HighWater == IF Cardinality(current_vs) > max_frontier_size
             THEN Cardinality(current_vs) ELSE max_frontier_size

\* Below the slots that were given out and freed, the stack is untouched.
StackInv ==
    /\ \A x \in 1..(N - HighWater) : unused[x] = N - x
    /\ \A x \in 1..Len(unused) : x > N - HighWater => unused[x] < HighWater
    /\ \A v \in Vertices : vertex_to_pos[v] = 0 \/ vertex_to_pos[v] < HighWater
    /\ phase \in {"leave", "done"} =>
            /\ max_frontier_size >= 1
            /\ Cardinality(current_vs) <= max_frontier_size

\* What the two slot tables say of the vertices of an edge.
TablesInv ==
    /\ phase \in {"enter", "leave"} =>
            \A v \in current_vs : pos_to_vertex[i][vertex_to_pos[v]] = v
    /\ \A a \in 1..Len(frontier_vss) : \A v \in frontier_vss[a] :
            pos_to_vertex[a][vertex_to_pos[v]] = v

IInv == /\ TypeOK
        /\ ListsInv
        /\ ControlInv
        /\ CurrentInv
        /\ RecordInv
        /\ FrontierExact
        /\ SlotsDistinct
        /\ SlotsAccounted
        /\ StackInv
-----------------------------------------------------------------------------
\* The ends of an edge that have not been seen, each once.
LEMMA NewEndsListing ==
    ASSUME NEW V, NEW e \in V \X V, NEW vs
    PROVE  IsListing(NewEnds(e, vs), {e[1], e[2]} \ vs)
<1>1. e[1] \in V /\ e[2] \in V
    OBVIOUS
<1>2. CASE e[1] \in vs /\ e[2] \in vs
    BY <1>2 DEF IsListing, NewEnds, SeqSet
<1>3. CASE e[1] \in vs /\ e[2] \notin vs
    BY <1>1, <1>3 DEF IsListing, NewEnds, SeqSet
<1>4. CASE e[1] \notin vs /\ e[2] \in vs \cup {e[1]}
    BY <1>1, <1>4 DEF IsListing, NewEnds, SeqSet
<1>5. CASE e[1] \notin vs /\ e[2] \notin vs \cup {e[1]}
    BY <1>1, <1>5 DEF IsListing, NewEnds, SeqSet
<1> QED
    BY <1>2, <1>3, <1>4, <1>5

\* A listing read from its first element on.
LEMMA BeforeListing ==
    ASSUME NEW S, NEW sq, IsListing(sq, S), NEW k \in 1..(Len(sq) + 1)
    PROVE  /\ Before(sq, 1) = {}
           /\ k = Len(sq) + 1 => Before(sq, k) = S
           /\ k <= Len(sq) => /\ sq[k] \in S
                              /\ sq[k] \notin Before(sq, k)
                              /\ Before(sq, k + 1) = Before(sq, k) \cup {sq[k]}
<1>1. sq \in Seq(S) /\ Len(sq) \in Nat /\ SeqSet(sq) = S
    BY DEF IsListing
<1>2. Before(sq, 1) = {}
    BY DEF Before
<1>3. ASSUME k = Len(sq) + 1 PROVE Before(sq, k) = S
    BY <1>1, <1>3 DEF Before, SeqSet
<1>4. ASSUME k <= Len(sq)
      PROVE  /\ sq[k] \in S
             /\ sq[k] \notin Before(sq, k)
             /\ Before(sq, k + 1) = Before(sq, k) \cup {sq[k]}
    <2>1. k \in 1..Len(sq)
        BY <1>1, <1>4
    <2>2. sq[k] \in S
        BY <1>1, <2>1
    <2>3. sq[k] \notin Before(sq, k)
        BY <1>1, <2>1 DEF Before, IsListing
    <2>4. 1..(k + 1 - 1) = (1..(k - 1)) \cup {k}
        BY <2>1
    <2>5. Before(sq, k + 1) = Before(sq, k) \cup {sq[k]}
        BY <2>4 DEF Before
    <2> QED
        BY <2>2, <2>3, <2>5
<1> QED
    BY <1>2, <1>3, <1>4

\* The stack operations of std::vector.
LEMMA StackFacts ==
    ASSUME NEW S, NEW s \in Seq(S)
    PROVE  /\ Len(s) \in Nat
           /\ \A x \in 1..Len(s) : s[x] \in S
           /\ Len(s) # 0 =>
                /\ SubSeq(s, 1, Len(s) - 1) \in Seq(S)
                /\ Len(SubSeq(s, 1, Len(s) - 1)) = Len(s) - 1
                /\ \A x \in 1..(Len(s) - 1) : SubSeq(s, 1, Len(s) - 1)[x] = s[x]
           /\ \A e \in S :
                /\ Append(s, e) \in Seq(S)
                /\ Len(Append(s, e)) = Len(s) + 1
                /\ Append(s, e)[Len(s) + 1] = e
                /\ \A x \in 1..Len(s) : Append(s, e)[x] = s[x]
<1>1. Len(s) \in Nat
    OBVIOUS
<1>2. \A x \in 1..Len(s) : s[x] \in S
    OBVIOUS
<1>3. ASSUME Len(s) # 0
      PROVE  /\ SubSeq(s, 1, Len(s) - 1) \in Seq(S)
             /\ Len(SubSeq(s, 1, Len(s) - 1)) = Len(s) - 1
             /\ \A x \in 1..(Len(s) - 1) : SubSeq(s, 1, Len(s) - 1)[x] = s[x]
    BY <1>1, <1>2, <1>3
<1>4. ASSUME NEW e \in S
      PROVE  /\ Append(s, e) \in Seq(S)
             /\ Len(Append(s, e)) = Len(s) + 1
             /\ Append(s, e)[Len(s) + 1] = e
             /\ \A x \in 1..Len(s) : Append(s, e)[x] = s[x]
    OBVIOUS
<1> QED
    BY <1>1, <1>2, <1>3, <1>4

LEMMA GraphFacts ==
    ASSUME IsGraph(graph)
    PROVE  /\ N \in Nat \ {0} /\ M \in Nat \ {0}
           /\ \A a \in EdgeIds : /\ graph.edges[a] \in Vertices \X Vertices
                                 /\ Incident(graph, a) \subseteq Vertices
                                 /\ graph.edges[a][1] \in Incident(graph, a)
<1>1. N \in Nat /\ M \in Nat /\ graph.edges # <<>>
    BY DEF IsGraph, N, M
<1>2. M > 0
    BY <1>1 DEF IsGraph, M
<1>3. \A a \in EdgeIds : graph.edges[a] \in Vertices \X Vertices
    BY DEF IsGraph, EdgeIds, M, Vertices, N
<1>4. \A a \in EdgeIds : Incident(graph, a) \subseteq Vertices
                         /\ graph.edges[a][1] \in Incident(graph, a)
    BY <1>3 DEF Incident
<1>5. 1 \in EdgeIds
    BY <1>1, <1>2 DEF EdgeIds
<1>6. N > 0
    BY <1>1, <1>3, <1>5 DEF Vertices
<1> QED
    BY <1>1, <1>2, <1>3, <1>4, <1>6

\* The vertices of a range of edges, and how the range grows.
LEMMA TouchedFacts ==
    ASSUME IsGraph(graph)
    PROVE  /\ Touched(1, 0) = {} /\ Touched(M + 1, M) = {}
           /\ \A a \in EdgeIds :
                /\ Touched(a, a) = Incident(graph, a)
                /\ Touched(1, a) = Touched(1, a - 1) \cup Incident(graph, a)
                /\ Touched(a, M) = Touched(a + 1, M) \cup Incident(graph, a)
<1>1. N \in Nat /\ M \in Nat
    BY GraphFacts
<1>2. Touched(1, 0) = {} /\ Touched(M + 1, M) = {}
    BY <1>1 DEF Touched
<1>3. ASSUME NEW a \in EdgeIds
      PROVE  /\ Touched(a, a) = Incident(graph, a)
             /\ Touched(1, a) = Touched(1, a - 1) \cup Incident(graph, a)
             /\ Touched(a, M) = Touched(a + 1, M) \cup Incident(graph, a)
    <2>1. Incident(graph, a) \subseteq Vertices
        BY GraphFacts
    <2>2. a \in Nat /\ a >= 1 /\ a <= M
        BY <1>1 DEF EdgeIds
    <2>3. a..a = {a} /\ 1..a = (1..(a - 1)) \cup {a} /\ a..M = ((a + 1)..M) \cup {a}
        BY <1>1, <2>2
    <2> QED
        BY <2>1, <2>3 DEF Touched
<1> QED
    BY <1>2, <1>3

\* No action changes the graph, nor what is defined from it.
LEMMA SameGraph ==
    ASSUME graph' = graph
    PROVE  /\ N' = N /\ M' = M /\ Vertices' = Vertices /\ EdgeIds' = EdgeIds
           /\ IsGraph(graph) => IsGraph(graph)'
<1>1. N' = N /\ M' = M
    BY DEF N, M
<1>2. IsGraph(graph) => IsGraph(graph)'
    BY DEF IsGraph, Incident
<1> QED
    BY <1>1, <1>2 DEF Vertices, EdgeIds

LEMMA EveryVertexTouched ==
    ASSUME IsGraph(graph)
    PROVE  Touched(1, M) = Vertices
BY DEF IsGraph, Touched, M, N, Vertices

\* Sets of vertices are finite.
LEMMA VertexSets ==
    ASSUME IsGraph(graph), NEW S \in SUBSET Vertices
    PROVE  /\ IsFiniteSet(S)
           /\ Cardinality(S) \in 0..N
           /\ \A v \in Vertices \ S : /\ Cardinality(S \cup {v}) = Cardinality(S) + 1
                                       /\ Cardinality(S) < N
           /\ \A v \in S : Cardinality(S \ {v}) = Cardinality(S) - 1
           /\ S # {} => Cardinality(S) >= 1
<1>1. N \in Nat
    BY GraphFacts
<1>2. IsFiniteSet(Vertices) /\ Cardinality(Vertices) = N
    BY <1>1, FS_Interval DEF Vertices
<1>3. \A T \in SUBSET Vertices : IsFiniteSet(T) /\ Cardinality(T) \in 0..N
    <2> SUFFICES ASSUME NEW T \in SUBSET Vertices
                 PROVE  IsFiniteSet(T) /\ Cardinality(T) \in 0..N
        OBVIOUS
    <2>1. IsFiniteSet(T) /\ Cardinality(T) <= Cardinality(Vertices)
        BY <1>2, FS_Subset
    <2>2. Cardinality(T) \in Nat
        BY <2>1, FS_CardinalityType
    <2> QED
        BY <1>1, <1>2, <2>1, <2>2
<1>4. ASSUME NEW v \in Vertices \ S
      PROVE  Cardinality(S \cup {v}) = Cardinality(S) + 1 /\ Cardinality(S) < N
    <2>1. Cardinality(S \cup {v}) = Cardinality(S) + 1
        BY <1>3, FS_AddElement
    <2>2. Cardinality(S \cup {v}) \in 0..N /\ Cardinality(S) \in 0..N
        BY <1>3
    <2> QED
        BY <1>1, <2>1, <2>2
<1>5. ASSUME NEW v \in S PROVE Cardinality(S \ {v}) = Cardinality(S) - 1
    BY <1>3, FS_RemoveElement
<1>6. S # {} => Cardinality(S) >= 1
    BY <1>1, <1>3, FS_EmptySet
<1> QED
    BY <1>3, <1>4, <1>5, <1>6
-----------------------------------------------------------------------------
THEOREM InitInv == Init => IInv
<1> SUFFICES ASSUME Init PROVE IInv
    OBVIOUS
<1>1. IsGraph(graph)
    BY GraphsAssumption DEF Init
<1>2. N \in Nat \ {0} /\ M \in Nat \ {0}
    BY <1>1, GraphFacts
<1>3. TypeOK
    <2>1. unused \in Seq(0..(N - 1)) /\ Len(unused) = N
        BY <1>2 DEF Init, AllUnused
    <2> QED
        BY <1>1, <1>2, <2>1 DEF Init, TypeOK, EdgeIds, Vertices, Phases
<1>4. ListsInv
    BY <1>1, <1>2, TouchedFacts DEF Init, ListsInv, EdgeIds
<1>5. ControlInv /\ CurrentInv /\ RecordInv
    BY DEF Init, ControlInv, CurrentInv, RecordInv
<1>6. FrontierExact
    BY DEF Init, FrontierExact
<1>7. /\ Len(unused) = N
      /\ \A x \in 1..N : unused[x] = N - x
      /\ Cardinality(current_vs) = 0
    BY <1>2, FS_EmptySet DEF Init, AllUnused
<1>8. SlotsDistinct /\ SlotsAccounted
    BY <1>2, <1>7 DEF Init, SlotsDistinct, SlotsAccounted
<1>9. StackInv
    BY <1>2, <1>7 DEF Init, StackInv, HighWater
<1> QED
    BY <1>3, <1>4, <1>5, <1>6, <1>8, <1>9 DEF IInv

\* The lists of entering vertices: nothing but them changes.
LEMMA ComputeEnteringStep ==
    ASSUME IInv, ComputeEntering
    PROVE  IInv'
<1>1. TypeOK /\ ListsInv /\ ControlInv /\ IsGraph(graph)
    BY DEF IInv, TypeOK
<1>2. N \in Nat \ {0} /\ M \in Nat \ {0} /\ i \in 1..M
    BY <1>1, GraphFacts DEF TypeOK, EdgeIds
<1>3. IsListing(NewEnds(graph.edges[i], seen), EntersAt(i))
    <2>1. seen = Touched(1, i - 1)
        BY <1>1 DEF ComputeEntering, ListsInv
    <2>2. graph.edges[i] \in Vertices \X Vertices
        BY <1>1, <1>2, GraphFacts DEF EdgeIds
    <2>3. EntersAt(i) = {graph.edges[i][1], graph.edges[i][2]} \ seen
        BY <1>1, <1>2, <2>1, TouchedFacts DEF EntersAt, Incident, EdgeIds
    <2> QED
        BY <2>2, <2>3, NewEndsListing
<1>4. NewEnds(graph.edges[i], seen) \in Seq(Vertices)
    <2>1. EntersAt(i) \subseteq Vertices
        BY DEF EntersAt, Touched
    <2> QED
        BY <1>3, <2>1 DEF IsListing
<1>5. Incident(graph, i) \subseteq Vertices
    BY <1>1, <1>2, GraphFacts DEF EdgeIds
<1>6. TypeOK'
    <2>1. i' \in EdgeIds /\ seen' \subseteq Vertices /\ phase' \in Phases
        <3>1. CASE i < M
            BY <1>1, <1>2, <1>5, <3>1 DEF ComputeEntering, SeenWithEnds, TypeOK, EdgeIds
        <3>2. CASE ~(i < M)
            BY <1>1, <3>2 DEF ComputeEntering, TypeOK, Phases
        <3> QED
            BY <3>1, <3>2
    <2>2. entering_vss' \in [EdgeIds -> Seq(Vertices)]
        BY <1>1, <1>4 DEF ComputeEntering, TypeOK
    <2>3. graph' = graph
        BY DEF ComputeEntering
    <2> QED
        BY <1>1, <2>1, <2>2, <2>3, SameGraph DEF ComputeEntering, TypeOK
<1>7. ListsInv'
    <2>1. phase' = "entering" => seen' = Touched(1, i - 1)'
        <3> SUFFICES ASSUME i < M PROVE seen' = Touched(1, i - 1)'
            BY DEF ComputeEntering
        <3>1. Touched(1, i - 1)' = Touched(1, i)
            BY <1>2 DEF ComputeEntering, Touched, N, Vertices
        <3>2. Touched(1, i) = Touched(1, i - 1) \cup Incident(graph, i)
            BY <1>1, <1>2, TouchedFacts DEF EdgeIds
        <3> QED
            BY <1>1, <3>1, <3>2 DEF ComputeEntering, SeenWithEnds, ListsInv
    <2>2. phase' = "leaving" => seen' = Touched(i + 1, M)'
        BY <1>1, <1>2, TouchedFacts DEF ComputeEntering, Touched, N, M, Vertices
    <2>3. ASSUME NEW a \in EdgeIds', (phase = "entering" => a < i)'
          PROVE  IsListing(entering_vss[a], EntersAt(a))'
        <3>1. EntersAt(a)' = EntersAt(a)
            BY DEF ComputeEntering, EntersAt, Touched, N, Vertices
        <3>2. a \in EdgeIds /\ (a < i \/ a = i)
            BY <1>2, <2>3 DEF ComputeEntering, EdgeIds, M
        <3>3. entering_vss'[a] = IF a = i THEN NewEnds(graph.edges[i], seen)
                                 ELSE entering_vss[a]
            BY <1>1, <3>2 DEF ComputeEntering, TypeOK
        <3>4. IsListing(entering_vss'[a], EntersAt(a))
            BY <1>1, <1>3, <3>2, <3>3 DEF ComputeEntering, ListsInv
        <3> QED
            BY <3>1, <3>4 DEF IsListing, SeqSet
    <2>4. ASSUME NEW a \in EdgeIds',
                 (phase # "entering" /\ (phase = "leaving" => a > i))'
          PROVE  FALSE
        BY <1>2, <2>4 DEF ComputeEntering, EdgeIds, M
    <2> QED
        BY <2>1, <2>2, <2>3, <2>4 DEF ListsInv
<1>8. ControlInv' /\ CurrentInv' /\ RecordInv'
    BY DEF ComputeEntering, IInv, ControlInv, CurrentInv, RecordInv
<1>9. FrontierExact' /\ SlotsDistinct' /\ SlotsAccounted' /\ StackInv'
    BY DEF ComputeEntering, IInv, RecordInv, FrontierExact, SlotsDistinct,
           SlotsAccounted, StackInv, HighWater, N, M, Vertices
<1> QED
    BY <1>6, <1>7, <1>8, <1>9 DEF IInv

\* The lists of leaving vertices; after the last one the frontier is empty.
LEMMA ComputeLeavingStep ==
    ASSUME IInv, ComputeLeaving
    PROVE  IInv'
<1>1. TypeOK /\ ListsInv /\ ControlInv /\ CurrentInv /\ RecordInv /\ IsGraph(graph)
    BY DEF IInv, TypeOK
<1>2. N \in Nat \ {0} /\ M \in Nat \ {0} /\ i \in 1..M
    BY <1>1, GraphFacts DEF TypeOK, EdgeIds
<1>3. IsListing(NewEnds(graph.edges[i], seen), LeavesAt(i))
    <2>1. seen = Touched(i + 1, M)
        BY <1>1 DEF ComputeLeaving, ListsInv
    <2>2. graph.edges[i] \in Vertices \X Vertices
        BY <1>1, <1>2, GraphFacts DEF EdgeIds
    <2>3. LeavesAt(i) = {graph.edges[i][1], graph.edges[i][2]} \ seen
        BY <1>1, <1>2, <2>1, TouchedFacts DEF LeavesAt, Incident, EdgeIds
    <2> QED
        BY <2>2, <2>3, NewEndsListing
<1>4. NewEnds(graph.edges[i], seen) \in Seq(Vertices)
    <2>1. LeavesAt(i) \subseteq Vertices
        BY DEF LeavesAt, Touched
    <2> QED
        BY <1>3, <2>1 DEF IsListing
<1>5. Incident(graph, i) \subseteq Vertices
    BY <1>1, <1>2, GraphFacts DEF EdgeIds
<1>6. TypeOK'
    <2>1. i' \in EdgeIds /\ seen' \subseteq Vertices /\ phase' \in Phases
        <3>1. CASE i > 1
            BY <1>1, <1>2, <1>5, <3>1 DEF ComputeLeaving, SeenWithEnds, TypeOK, EdgeIds
        <3>2. CASE ~(i > 1)
            BY <1>1, <3>2 DEF ComputeLeaving, TypeOK, Phases
        <3> QED
            BY <3>1, <3>2
    <2>2. leaving_vss' \in [EdgeIds -> Seq(Vertices)]
        BY <1>1, <1>4 DEF ComputeLeaving, TypeOK
    <2>3. graph' = graph
        BY DEF ComputeLeaving
    <2> QED
        BY <1>1, <2>1, <2>2, <2>3, SameGraph DEF ComputeLeaving, TypeOK
<1>7. ListsInv'
    <2>1. phase' = "leaving" => seen' = Touched(i + 1, M)'
        <3> SUFFICES ASSUME i > 1 PROVE seen' = Touched(i + 1, M)'
            BY DEF ComputeLeaving
        <3>1. Touched(i + 1, M)' = Touched(i, M)
            BY <1>2 DEF ComputeLeaving, Touched, N, M, Vertices
        <3>2. Touched(i, M) = Touched(i + 1, M) \cup Incident(graph, i)
            BY <1>1, <1>2, TouchedFacts DEF EdgeIds
        <3> QED
            BY <1>1, <3>1, <3>2 DEF ComputeLeaving, SeenWithEnds, ListsInv
    <2>2. ASSUME NEW a \in EdgeIds'
          PROVE  IsListing(entering_vss[a], EntersAt(a))'
        <3>1. EntersAt(a)' = EntersAt(a)
            BY DEF ComputeLeaving, EntersAt, Touched, N, Vertices
        <3>2. IsListing(entering_vss'[a], EntersAt(a))
            BY <1>1 DEF ComputeLeaving, ListsInv, EdgeIds, M
        <3> QED
            BY <3>1, <3>2 DEF IsListing, SeqSet
    <2>3. ASSUME NEW a \in EdgeIds', (phase = "leaving" => a > i)'
          PROVE  IsListing(leaving_vss[a], LeavesAt(a))'
        <3>1. LeavesAt(a)' = LeavesAt(a)
            BY DEF ComputeLeaving, LeavesAt, Touched, N, M, Vertices
        <3>2. a \in EdgeIds /\ (a > i \/ a = i)
            BY <1>2, <2>3 DEF ComputeLeaving, EdgeIds, M
        <3>3. leaving_vss'[a] = IF a = i THEN NewEnds(graph.edges[i], seen)
                                ELSE leaving_vss[a]
            BY <1>1, <3>2 DEF ComputeLeaving, TypeOK
        <3>4. IsListing(leaving_vss'[a], LeavesAt(a))
            BY <1>1, <1>3, <3>2, <3>3 DEF ComputeLeaving, ListsInv
        <3> QED
            BY <3>1, <3>4 DEF IsListing, SeqSet
    <2> QED
        BY <2>1, <2>2, <2>3 DEF ComputeLeaving, ListsInv
<1>8. ControlInv' /\ CurrentInv' /\ RecordInv'
    <2>1. CASE i > 1
        BY <1>1, <2>1 DEF ComputeLeaving, ControlInv, CurrentInv, RecordInv
    <2>2. CASE ~(i > 1)
        <3>1. i = 1 /\ i' = 1 /\ j' = 1 /\ phase' = "enter"
            BY <1>1, <1>2, <2>2 DEF ComputeLeaving, ControlInv
        <3>2. Touched(1, i - 1)' = {}
            BY <3>1 DEF ComputeLeaving, Touched
        <3>3. Before(entering_vss[i], j)' = {}
            BY <3>1 DEF Before
        <3>4. Len(entering_vss[i])' \in Nat
            BY <1>1, <1>2, <3>1 DEF ComputeLeaving, TypeOK, EdgeIds
        <3> QED
            BY <1>1, <3>1, <3>2, <3>3, <3>4
               DEF ComputeLeaving, ControlInv, CurrentInv, RecordInv
    <2> QED
        BY <2>1, <2>2
<1>9. FrontierExact' /\ SlotsDistinct' /\ SlotsAccounted' /\ StackInv'
    BY DEF ComputeLeaving, IInv, RecordInv, FrontierExact, SlotsDistinct,
           SlotsAccounted, StackInv, HighWater, N, M, Vertices
<1> QED
    BY <1>6, <1>7, <1>8, <1>9 DEF IInv

\* The lists are complete once the second loop is left.
LEMMA ListsKept ==
    ASSUME ListsInv, phase \notin {"entering", "leaving"},
           phase' \notin {"entering", "leaving"},
           UNCHANGED <<graph, entering_vss, leaving_vss>>
    PROVE  ListsInv'
<1>1. EdgeIds' = EdgeIds /\ M' = M
    BY SameGraph
<1>2. ASSUME NEW a \in EdgeIds
      PROVE  IsListing(entering_vss[a], EntersAt(a))' /\ IsListing(leaving_vss[a], LeavesAt(a))'
    <2>1. EntersAt(a)' = EntersAt(a) /\ LeavesAt(a)' = LeavesAt(a)
        BY DEF EntersAt, LeavesAt, Touched, N, M, Vertices
    <2>2. IsListing(entering_vss[a], EntersAt(a)) /\ IsListing(leaving_vss[a], LeavesAt(a))
        BY DEF ListsInv
    <2> QED
        BY <2>1, <2>2 DEF IsListing, SeqSet
<1> QED
    BY <1>1, <1>2 DEF ListsInv

\* A vertex enters: the slot it gets is free, and is a fresh one only when
\* every slot given out before is in use.
LEMMA EnterStep ==
    ASSUME IInv, Enter
    PROVE  IInv'
<1> DEFINE v == entering_vss[i][j]
           top == Len(unused)
           u == unused[top]
<1>1. TypeOK /\ ListsInv /\ IsGraph(graph) /\ SlotsDistinct /\ SlotsAccounted /\ StackInv
    BY DEF IInv, TypeOK
<1>2. /\ N \in Nat \ {0} /\ M \in Nat \ {0} /\ i \in 1..M /\ j \in 1..3
      /\ max_frontier_size \in 0..N
    BY <1>1, GraphFacts DEF TypeOK, EdgeIds
<1>3. N' = N /\ M' = M /\ Vertices' = Vertices /\ EdgeIds' = EdgeIds /\ IsGraph(graph)'
    BY <1>1, SameGraph DEF Enter
<1>4. IsListing(entering_vss[i], EntersAt(i)) /\ j \in 1..Len(entering_vss[i])
    BY <1>1, <1>2 DEF Enter, ListsInv, EdgeIds, IsListing
<1>5. /\ v \in EntersAt(i) /\ v \notin Before(entering_vss[i], j)
      /\ Before(entering_vss[i], j + 1) = Before(entering_vss[i], j) \cup {v}
    BY <1>4, BeforeListing
<1>6. v \in Vertices /\ v \notin current_vs
    BY <1>5 DEF Enter, IInv, CurrentInv, EntersAt, Touched
<1>7. /\ current_vs' = current_vs \cup {v}
      /\ Cardinality(current_vs) \in 0..N /\ Cardinality(current_vs) < N
      /\ Cardinality(current_vs') = Cardinality(current_vs) + 1
    BY <1>1, <1>6, VertexSets DEF Enter, TypeOK
<1>8. /\ top \in Nat \ {0} /\ top = N - Cardinality(current_vs)
      /\ u \in 0..(N - 1)
      /\ \A x \in 1..top : unused[x] \in 0..(N - 1)
    <2>1. unused \in Seq(0..(N - 1)) /\ top + Cardinality(current_vs) = N
        BY <1>1 DEF TypeOK, SlotsAccounted
    <2>2. top \in Nat /\ \A x \in 1..top : unused[x] \in 0..(N - 1)
        BY <2>1, StackFacts
    <2>3. top \in Nat \ {0} /\ top = N - Cardinality(current_vs)
        BY <1>2, <1>7, <2>1, <2>2
    <2> QED
        BY <2>2, <2>3
<1>9. /\ unused' \in Seq(0..(N - 1))
      /\ Len(unused') = top - 1
      /\ \A x \in 1..(top - 1) : unused'[x] = unused[x]
    BY <1>1, <1>8, SMTT(40) DEF Enter, TypeOK
<1>10. \A w \in Vertices : vertex_to_pos'[w] = IF w = v THEN u ELSE vertex_to_pos[w]
    BY <1>1, <1>6 DEF Enter, TypeOK
<1>11. TypeOK'
    <2>1. vertex_to_pos' \in [Vertices -> 0..(N - 1)]
        BY <1>1, <1>8 DEF Enter, TypeOK
    <2>2. pos_to_vertex' \in [EdgeIds -> [0..N -> 0..N]]
        <3>1. v \in 0..N /\ u \in 0..N
            BY <1>2, <1>6, <1>8 DEF Vertices
        <3> QED
            BY <1>1, <3>1 DEF Enter, TypeOK
    <2>3. current_vs' \subseteq Vertices
        BY <1>1, <1>6, <1>7 DEF TypeOK
    <2>4. j' \in 1..3
        BY <1>2, <1>4 DEF Enter, IsListing
    <2> QED
        BY <1>1, <1>3, <1>9, <2>1, <2>2, <2>3, <2>4 DEF Enter, TypeOK
<1>12. ListsInv'
    BY <1>1, ListsKept DEF Enter
<1>13. ControlInv' /\ RecordInv'
    BY <1>2, <1>4 DEF Enter, IInv, ControlInv, RecordInv
<1>14. CurrentInv'
    <2>1. Before(entering_vss[i], j)' = Before(entering_vss[i], j + 1)
        BY DEF Enter, Before
    <2>2. Touched(1, i - 1)' = Touched(1, i - 1) /\ Touched(i, M)' = Touched(i, M)
        BY DEF Enter, Touched, N, M, Vertices
    <2> QED
        BY <1>5, <1>7, <2>1, <2>2 DEF Enter, IInv, CurrentInv
<1>15. FrontierExact'
    BY DEF Enter, IInv, FrontierExact, M, N, Vertices
<1>16. SlotsDistinct'
    <2>1. \A w \in current_vs : w \in Vertices /\ w # v /\ vertex_to_pos[w] # u
        BY <1>1, <1>6, <1>8 DEF TypeOK, SlotsDistinct, SeqSet
    <2>2. \A x, y \in 1..(top - 1) : unused[x] = unused[y] => x = y
        BY <1>1, <1>8 DEF SlotsDistinct
    <2>3. \A x \in 1..(top - 1) : unused[x] # u
        BY <1>1, <1>8 DEF SlotsDistinct
    <2>4. \A w \in current_vs, x \in 1..(top - 1) : vertex_to_pos[w] # unused[x]
        BY <1>1, <1>8 DEF SlotsDistinct, SeqSet
    <2>5. \A w, z \in current_vs' : vertex_to_pos'[w] = vertex_to_pos'[z] => w = z
        BY <1>1, <1>6, <1>7, <1>10, <2>1 DEF SlotsDistinct
    <2>6. \A w \in current_vs', x \in 1..(top - 1) : vertex_to_pos'[w] # unused'[x]
        BY <1>6, <1>7, <1>9, <1>10, <2>1, <2>3, <2>4
    <2>7. \A w \in current_vs' : vertex_to_pos'[w] \notin SeqSet(unused')
        BY <1>9, <2>6 DEF SeqSet
    <2>8. \A x, y \in 1..Len(unused') : unused'[x] = unused'[y] => x = y
        BY <1>9, <2>2
    <2> QED
        BY <2>5, <2>7, <2>8 DEF SlotsDistinct
<1>17. SlotsAccounted'
    BY <1>2, <1>3, <1>7, <1>8, <1>9 DEF SlotsAccounted
<1>18. StackInv'
    <2>1. /\ HighWater \in 0..N
          /\ HighWater' = IF Cardinality(current_vs) + 1 > HighWater
                          THEN Cardinality(current_vs) + 1 ELSE HighWater
        BY <1>2, <1>7 DEF Enter, HighWater
    <2>2. HighWater' \in Nat /\ HighWater' >= HighWater
        BY <1>2, <1>7, <2>1
    <2>3. u < HighWater'
        <3>1. CASE top > N - HighWater
            BY <1>1, <1>2, <1>8, <2>1, <2>2, <3>1 DEF StackInv
        <3>2. CASE top <= N - HighWater
            <4>1. u = N - top
                BY <1>1, <1>8, <3>2 DEF StackInv
            <4> QED
                BY <1>2, <1>7, <1>8, <2>1, <4>1
        <3> QED
            BY <1>2, <1>8, <2>1, <3>1, <3>2
    <2>4. \A x \in 1..(N - HighWater') : unused'[x] = N - x
        <3> SUFFICES ASSUME NEW x \in 1..(N - HighWater') PROVE unused'[x] = N - x
            OBVIOUS
        <3>1. x \in 1..(N - HighWater) /\ x \in 1..(top - 1)
            BY <1>2, <1>7, <1>8, <2>1, <2>2
        <3> QED
            BY <1>1, <1>9, <3>1 DEF StackInv
    <2>5. \A x \in 1..Len(unused') : x > N - HighWater' => unused'[x] < HighWater'
        <3> SUFFICES ASSUME NEW x \in 1..(top - 1), x > N - HighWater'
                     PROVE  unused[x] < HighWater'
            BY <1>9
        <3>1. CASE x > N - HighWater
            <4>1. x \in 1..top /\ unused[x] < HighWater
                BY <1>1, <1>8, <3>1 DEF StackInv
            <4> QED
                BY <1>2, <1>8, <2>1, <2>2, <4>1
        <3>2. CASE x <= N - HighWater
            <4>1. unused[x] = N - x
                BY <1>1, <1>8, <3>2 DEF StackInv
            <4> QED
                BY <1>2, <2>1, <2>2, <4>1
        <3> QED
            BY <1>2, <1>8, <2>1, <3>1, <3>2
    <2>6. \A w \in Vertices : vertex_to_pos'[w] = 0 \/ vertex_to_pos'[w] < HighWater'
        <3> SUFFICES ASSUME NEW w \in Vertices
                     PROVE  vertex_to_pos'[w] = 0 \/ vertex_to_pos'[w] < HighWater'
            OBVIOUS
        <3>1. vertex_to_pos[w] \in 0..(N - 1)
            BY <1>1 DEF TypeOK
        <3>2. vertex_to_pos[w] = 0 \/ vertex_to_pos[w] < HighWater
            BY <1>1 DEF StackInv
        <3> QED
            BY <1>2, <1>10, <2>1, <2>2, <2>3, <3>1, <3>2
    <2> QED
        BY <1>3, <2>4, <2>5, <2>6 DEF Enter, StackInv
<1> QED
    BY <1>11, <1>12, <1>13, <1>14, <1>15, <1>16, <1>17, <1>18 DEF IInv

\* All vertices of the edge have entered: what is recorded is the frontier.
LEMMA RecordStep ==
    ASSUME IInv, Record
    PROVE  IInv'
<1>1. TypeOK /\ ListsInv /\ IsGraph(graph) /\ RecordInv
    BY DEF IInv, TypeOK
<1>2. /\ N \in Nat \ {0} /\ M \in Nat \ {0} /\ i \in 1..M /\ j \in 1..3
      /\ max_frontier_size \in 0..N
    BY <1>1, GraphFacts DEF TypeOK, EdgeIds
<1>3. N' = N /\ M' = M /\ Vertices' = Vertices /\ EdgeIds' = EdgeIds /\ IsGraph(graph)'
    BY <1>1, SameGraph DEF Record
<1>4. /\ IsListing(entering_vss[i], EntersAt(i)) /\ j = Len(entering_vss[i]) + 1
      /\ IsListing(leaving_vss[i], LeavesAt(i))
    BY <1>1, <1>2 DEF Record, ListsInv, EdgeIds, IsListing, IInv, ControlInv
<1>5. current_vs = Touched(1, i) \cap Touched(i, M)
    <2>1. Before(entering_vss[i], j) = EntersAt(i)
        <3>1. j \in 1..(Len(entering_vss[i]) + 1)
            BY <1>2, <1>4
        <3> QED
            BY <1>4, <3>1, BeforeListing
    <2>2. current_vs = (Touched(1, i - 1) \cap Touched(i, M)) \cup EntersAt(i)
        BY <2>1 DEF Record, IInv, CurrentInv
    <2> QED
        BY <1>1, <1>2, <2>2, TouchedFacts DEF EntersAt, EdgeIds
<1>6. current_vs # {} /\ current_vs \subseteq Vertices
    <2>1. graph.edges[i][1] \in Incident(graph, i)
        BY <1>1, <1>2, GraphFacts DEF EdgeIds
    <2> QED
        BY <1>1, <1>2, <1>5, <2>1, TouchedFacts DEF EdgeIds, TypeOK
<1>7. Cardinality(current_vs) \in 1..N
    BY <1>1, <1>2, <1>6, VertexSets
<1>8. current_vs \ SeqSet(leaving_vss[i]) =
        {w \in current_vs : \E b \in (i + 1)..M : w \in Incident(graph, b)}
    <2>1. SeqSet(leaving_vss[i]) = LeavesAt(i)
        BY <1>4 DEF IsListing
    <2>2. current_vs \cap LeavesAt(i) = current_vs \ Touched(i + 1, M)
        BY <1>1, <1>2, <1>5, TouchedFacts DEF LeavesAt, EdgeIds
    <2> QED
        BY <1>6, <2>1, <2>2 DEF Touched
<1>9. /\ frontier_vss' \in Seq(SUBSET Vertices) /\ remaining_vss' \in Seq(SUBSET Vertices)
      /\ Len(frontier_vss) = i - 1 /\ Len(remaining_vss) = i - 1
      /\ Len(frontier_vss') = i /\ Len(remaining_vss') = i
      /\ frontier_vss'[i] = current_vs
      /\ remaining_vss'[i] = current_vs \ SeqSet(leaving_vss[i])
      /\ \A a \in 1..(i - 1) : /\ frontier_vss'[a] = frontier_vss[a]
                              /\ remaining_vss'[a] = remaining_vss[a]
    <2>1. /\ frontier_vss \in Seq(SUBSET Vertices) /\ remaining_vss \in Seq(SUBSET Vertices)
          /\ Len(frontier_vss) = i - 1 /\ Len(remaining_vss) = i - 1
        BY <1>1 DEF Record, TypeOK, RecordInv
    <2>2. current_vs \in SUBSET Vertices /\ current_vs \ SeqSet(leaving_vss[i]) \in SUBSET Vertices
        BY <1>6
    <2>3. /\ frontier_vss' = Append(frontier_vss, current_vs)
          /\ remaining_vss' = Append(remaining_vss, current_vs \ SeqSet(leaving_vss[i]))
        BY DEF Record, Remaining
    <2>4. i - 1 + 1 = i
        BY <1>2
    <2> HIDE DEF SeqSet
    <2> QED
        BY <2>1, <2>2, <2>3, <2>4, StackFacts
<1>10. TypeOK'
    <2>1. max_frontier_size' \in 0..N
        BY <1>2, <1>7 DEF Record
    <2> QED
        BY <1>1, <1>3, <1>9, <2>1 DEF Record, TypeOK, Phases
<1>11. ListsInv'
    BY <1>1, ListsKept DEF Record
<1>12. ControlInv' /\ RecordInv'
    <2>1. Len(leaving_vss[i])' \in Nat
        BY <1>1, <1>2 DEF Record, TypeOK, EdgeIds
    <2> QED
        BY <1>9, <2>1 DEF Record, ControlInv, RecordInv
<1>13. CurrentInv'
    <2>1. Before(leaving_vss[i], j)' = {}
        BY DEF Record, Before
    <2>2. Touched(1, i)' = Touched(1, i) /\ Touched(i, M)' = Touched(i, M)
        BY DEF Record, Touched, N, M, Vertices
    <2> QED
        BY <1>5, <2>1, <2>2 DEF Record, CurrentInv
<1>14. FrontierExact'
    <2> SUFFICES ASSUME NEW a \in 1..i
                 PROVE  /\ frontier_vss'[a] = {w \in Vertices :
                                /\ \E b \in 1..a : w \in Incident(graph, b)
                                /\ \E b \in a..M : w \in Incident(graph, b)}
                        /\ remaining_vss'[a] = {w \in frontier_vss'[a] :
                                \E b \in (a + 1)..M : w \in Incident(graph, b)}
        BY <1>3, <1>9 DEF Record, FrontierExact, Incident
    <2>1. CASE a = i
        BY <1>5, <1>8, <1>9, <2>1 DEF Touched
    <2>2. CASE a # i
        <3>1. a \in 1..(i - 1)
            BY <1>2, <2>2
        <3> QED
            BY <1>9, <3>1 DEF IInv, FrontierExact
    <2> QED
        BY <2>1, <2>2
<1>15. SlotsDistinct' /\ SlotsAccounted'
    BY DEF Record, IInv, SlotsDistinct, SlotsAccounted, SeqSet, N
<1>16. StackInv'
    <2>1. HighWater' = HighWater
        BY <1>2, <1>7 DEF Record, HighWater
    <2>2. max_frontier_size' >= 1 /\ Cardinality(current_vs') <= max_frontier_size'
        BY <1>2, <1>7 DEF Record
    <2> QED
        BY <1>3, <2>1, <2>2 DEF Record, IInv, StackInv
<1> QED
    BY <1>10, <1>11, <1>12, <1>13, <1>14, <1>15, <1>16 DEF IInv

\* A vertex leaves: its slot goes to the top of the stack.
LEMMA LeaveStep ==
    ASSUME IInv, Leave
    PROVE  IInv'
<1> DEFINE v == leaving_vss[i][j]
           top == Len(unused)
           u == vertex_to_pos[v]
<1>1. TypeOK /\ ListsInv /\ IsGraph(graph) /\ SlotsDistinct /\ SlotsAccounted /\ StackInv
    BY DEF IInv, TypeOK
<1>2. /\ N \in Nat \ {0} /\ M \in Nat \ {0} /\ i \in 1..M /\ j \in 1..3
      /\ max_frontier_size \in 0..N
    BY <1>1, GraphFacts DEF TypeOK, EdgeIds
<1>3. N' = N /\ M' = M /\ Vertices' = Vertices /\ EdgeIds' = EdgeIds /\ IsGraph(graph)'
    BY <1>1, SameGraph DEF Leave
<1>4. IsListing(leaving_vss[i], LeavesAt(i)) /\ j \in 1..Len(leaving_vss[i])
    BY <1>1, <1>2 DEF Leave, ListsInv, EdgeIds, IsListing
<1>5. /\ v \in LeavesAt(i) /\ v \notin Before(leaving_vss[i], j)
      /\ Before(leaving_vss[i], j + 1) = Before(leaving_vss[i], j) \cup {v}
    BY <1>4, BeforeListing
<1>6. v \in current_vs /\ v \in Vertices
    <2>1. v \in Touched(1, i) \cap Touched(i, M)
        BY <1>1, <1>2, <1>5, TouchedFacts DEF LeavesAt, EdgeIds
    <2> QED
        BY <1>5, <2>1 DEF Leave, IInv, CurrentInv, Touched
<1>7. /\ current_vs' = current_vs \ {v}
      /\ Cardinality(current_vs) \in 0..N
      /\ Cardinality(current_vs') = Cardinality(current_vs) - 1
    BY <1>1, <1>6, VertexSets DEF Leave, Without, TypeOK
<1>8. /\ top \in Nat /\ top = N - Cardinality(current_vs)
      /\ u \in 0..(N - 1)
      /\ \A w \in Vertices : vertex_to_pos[w] \in 0..(N - 1)
    <2>1. unused \in Seq(0..(N - 1)) /\ top + Cardinality(current_vs) = N
        BY <1>1 DEF TypeOK, SlotsAccounted
    <2>2. top \in Nat
        BY <2>1, StackFacts
    <2>3. \A w \in Vertices : vertex_to_pos[w] \in 0..(N - 1)
        BY <1>1 DEF TypeOK
    <2> QED
        BY <1>2, <1>6, <1>7, <2>1, <2>2, <2>3
<1>9. /\ unused' \in Seq(0..(N - 1))
      /\ Len(unused') = top + 1
      /\ unused'[top + 1] = u
      /\ \A x \in 1..top : unused'[x] = unused[x]
    <2>1. unused \in Seq(0..(N - 1)) /\ unused' = Append(unused, u)
        BY <1>1 DEF Leave, Freed, TypeOK
    <2> QED
        BY <1>8, <2>1, StackFacts
<1>10. TypeOK'
    <2>1. j' \in 1..3
        BY <1>2, <1>4 DEF Leave, IsListing
    <2>2. current_vs' \subseteq Vertices
        BY <1>1, <1>7 DEF TypeOK
    <2> QED
        BY <1>1, <1>3, <1>9, <2>1, <2>2 DEF Leave, TypeOK
<1>11. ListsInv'
    BY <1>1, ListsKept DEF Leave
<1>12. ControlInv' /\ RecordInv'
    BY <1>2, <1>4 DEF Leave, IInv, ControlInv, RecordInv
<1>13. CurrentInv'
    <2>1. Before(leaving_vss[i], j)' = Before(leaving_vss[i], j + 1)
        BY DEF Leave, Before
    <2>2. Touched(1, i)' = Touched(1, i) /\ Touched(i, M)' = Touched(i, M)
        BY DEF Leave, Touched, N, M, Vertices
    <2> QED
        BY <1>5, <1>7, <2>1, <2>2 DEF Leave, IInv, CurrentInv
<1>14. FrontierExact'
    BY DEF Leave, IInv, FrontierExact, M, N, Vertices
<1>15. SlotsDistinct'
    <2>1. \A w \in current_vs' : w \in current_vs /\ vertex_to_pos[w] # u
        BY <1>1, <1>6, <1>7 DEF SlotsDistinct
    <2>2. \A x \in 1..top : unused[x] # u
        BY <1>1, <1>6 DEF SlotsDistinct, SeqSet
    <2>3. \A w \in current_vs, x \in 1..top : vertex_to_pos[w] # unused[x]
        BY <1>1 DEF SlotsDistinct, SeqSet
    <2>4. \A w, z \in current_vs' : vertex_to_pos'[w] = vertex_to_pos'[z] => w = z
        BY <1>1, <2>1 DEF Leave, SlotsDistinct
    <2>5. \A w \in current_vs', x \in 1..(top + 1) : vertex_to_pos'[w] # unused'[x]
        <3> SUFFICES ASSUME NEW w \in current_vs', NEW x \in 1..(top + 1)
                     PROVE  vertex_to_pos[w] # unused'[x]
            BY DEF Leave
        <3>1. x = top + 1 \/ x \in 1..top
            BY <1>8
        <3> QED
            BY <1>9, <2>1, <2>3, <3>1
    <2>6. \A w \in current_vs' : vertex_to_pos'[w] \notin SeqSet(unused')
        BY <1>9, <2>5 DEF SeqSet
    <2>7. \A x, y \in 1..(top + 1) : unused'[x] = unused'[y] => x = y
        <3> SUFFICES ASSUME NEW x \in 1..(top + 1), NEW y \in 1..(top + 1),
                            unused'[x] = unused'[y]
                     PROVE  x = y
            OBVIOUS
        <3>1. (x = top + 1 \/ x \in 1..top) /\ (y = top + 1 \/ y \in 1..top)
            BY <1>8
        <3> QED
            BY <1>1, <1>9, <2>2, <3>1 DEF SlotsDistinct
    <2> QED
        BY <1>9, <2>4, <2>6, <2>7 DEF SlotsDistinct
<1>16. SlotsAccounted'
    BY <1>2, <1>3, <1>7, <1>8, <1>9 DEF SlotsAccounted
<1>17. StackInv'
    <2>1. /\ max_frontier_size >= 1 /\ Cardinality(current_vs) <= max_frontier_size
          /\ max_frontier_size' = max_frontier_size
        BY <1>1 DEF Leave, StackInv
    <2>2. /\ HighWater = max_frontier_size /\ HighWater' = HighWater
        BY <1>2, <1>7, <2>1 DEF HighWater
    <2>3. u < HighWater
        BY <1>1, <1>2, <1>6, <2>1, <2>2 DEF StackInv
    <2>4. \A x \in 1..(N - HighWater) : unused'[x] = N - x
        <3> SUFFICES ASSUME NEW x \in 1..(N - HighWater) PROVE unused'[x] = N - x
            OBVIOUS
        <3>1. x \in 1..top
            BY <1>2, <1>7, <1>8, <2>1, <2>2
        <3> QED
            BY <1>1, <1>9, <3>1 DEF StackInv
    <2>5. \A x \in 1..Len(unused') : x > N - HighWater => unused'[x] < HighWater
        <3> SUFFICES ASSUME NEW x \in 1..(top + 1), x > N - HighWater
                     PROVE  unused'[x] < HighWater
            BY <1>9
        <3>1. x = top + 1 \/ x \in 1..top
            BY <1>8
        <3> QED
            BY <1>1, <1>9, <2>3, <3>1 DEF StackInv
    <2>6. \A w \in Vertices : vertex_to_pos'[w] = 0 \/ vertex_to_pos'[w] < HighWater
        BY <1>1 DEF Leave, StackInv
    <2>7. Cardinality(current_vs') <= max_frontier_size'
        BY <1>2, <1>7, <2>1
    <2> QED
        BY <1>3, <2>1, <2>2, <2>4, <2>5, <2>6, <2>7 DEF StackInv
<1> QED
    BY <1>10, <1>11, <1>12, <1>13, <1>14, <1>15, <1>16, <1>17 DEF IInv

\* The next edge: what stays on the frontier has an edge on either side.
LEMMA NextEdgeStep ==
    ASSUME IInv, NextEdge
    PROVE  IInv'
<1>1. TypeOK /\ ListsInv /\ IsGraph(graph) /\ RecordInv /\ ControlInv
    BY DEF IInv, TypeOK
<1>2. /\ N \in Nat \ {0} /\ M \in Nat \ {0} /\ i \in 1..M /\ j \in 1..3
    BY <1>1, GraphFacts DEF TypeOK, EdgeIds
<1>3. N' = N /\ M' = M /\ Vertices' = Vertices /\ EdgeIds' = EdgeIds /\ IsGraph(graph)'
    BY <1>1, SameGraph DEF NextEdge
<1>4. current_vs = Touched(1, i) \cap Touched(i + 1, M)
    <2>1. IsListing(leaving_vss[i], LeavesAt(i)) /\ j = Len(leaving_vss[i]) + 1
        BY <1>1, <1>2 DEF NextEdge, ListsInv, EdgeIds, IsListing, ControlInv
    <2>2. j \in 1..(Len(leaving_vss[i]) + 1)
        BY <1>2, <2>1
    <2>3. Before(leaving_vss[i], j) = LeavesAt(i)
        BY <2>1, <2>2, BeforeListing
    <2>4. current_vs = (Touched(1, i) \cap Touched(i, M)) \ LeavesAt(i)
        BY <2>3 DEF NextEdge, IInv, CurrentInv
    <2> QED
        BY <1>1, <1>2, <2>4, TouchedFacts DEF LeavesAt, EdgeIds
<1>5. TypeOK'
    <2>1. i' \in EdgeIds /\ phase' \in Phases
        BY <1>2 DEF NextEdge, IsLastEdge, EdgeIds, Phases
    <2>2. pos_to_vertex' \in [EdgeIds -> [0..N -> 0..N]]
        <3>1. pos_to_vertex[i] \in [0..N -> 0..N]
            BY <1>1 DEF TypeOK
        <3> QED
            BY <1>1, <3>1 DEF NextEdge, RowCopied, TypeOK
    <2> QED
        BY <1>1, <1>3, <2>1, <2>2 DEF NextEdge, TypeOK
<1>6. ListsInv'
    BY <1>1, ListsKept DEF NextEdge
<1>7. ControlInv' /\ RecordInv'
    <2>1. CASE i < M
        <3>1. i + 1 \in EdgeIds
            BY <1>2, <2>1 DEF EdgeIds
        <3>2. Len(entering_vss[i + 1]) \in Nat
            BY <1>1, <3>1 DEF TypeOK
        <3> QED
            BY <1>1, <1>2, <2>1, <3>2 DEF NextEdge, IsLastEdge, ControlInv, RecordInv
    <2>2. CASE ~(i < M)
        BY <1>1, <1>2, <1>3, <2>2 DEF NextEdge, ControlInv, RecordInv
    <2> QED
        BY <2>1, <2>2
<1>8. CurrentInv'
    <2>1. CASE i < M
        <3>1. i' = i + 1 /\ j' = 1 /\ phase' = "enter" /\ i' - 1 = i
            BY <1>2, <2>1 DEF NextEdge, IsLastEdge
        <3>2. Before(entering_vss[i], j)' = {}
            BY <3>1 DEF Before
        <3>3. Touched(1, i - 1)' = Touched(1, i) /\ Touched(i, M)' = Touched(i + 1, M)
            BY <1>3, <3>1 DEF NextEdge, Touched
        <3> QED
            BY <1>4, <3>1, <3>2, <3>3 DEF NextEdge, CurrentInv
    <2>2. CASE ~(i < M)
        <3>1. i = M
            BY <1>2, <2>2
        <3> QED
            BY <1>1, <1>4, <2>2, <3>1, TouchedFacts DEF NextEdge, IsLastEdge, CurrentInv
    <2> QED
        BY <2>1, <2>2
<1>9. FrontierExact'
    BY DEF NextEdge, IInv, FrontierExact, M, N, Vertices
<1>10. SlotsDistinct' /\ SlotsAccounted'
    BY DEF NextEdge, IInv, SlotsDistinct, SlotsAccounted, SeqSet, N
<1>11. StackInv'
    <2>1. HighWater' = HighWater
        BY DEF NextEdge, HighWater
    <2> QED
        BY <1>3, <2>1 DEF NextEdge, IInv, StackInv
<1> QED
    BY <1>5, <1>6, <1>7, <1>8, <1>9, <1>10, <1>11 DEF IInv

LEMMA StutterStep ==
    ASSUME IInv, UNCHANGED fmVars
    PROVE  IInv'
<1>1. N' = N /\ M' = M /\ Vertices' = Vertices /\ EdgeIds' = EdgeIds /\ IsGraph(graph)'
    BY SameGraph DEF IInv, TypeOK, fmVars
<1>2. TypeOK'
    BY <1>1 DEF fmVars, IInv, TypeOK
<1>3. ListsInv'
    <2>1. ASSUME NEW a \in EdgeIds
          PROVE  /\ IsListing(entering_vss[a], EntersAt(a))' <=>
                        IsListing(entering_vss[a], EntersAt(a))
                 /\ IsListing(leaving_vss[a], LeavesAt(a))' <=>
                        IsListing(leaving_vss[a], LeavesAt(a))
        <3>1. EntersAt(a)' = EntersAt(a) /\ LeavesAt(a)' = LeavesAt(a)
            BY <1>1 DEF fmVars, EntersAt, LeavesAt, Touched
        <3> QED
            BY <3>1 DEF fmVars, IsListing, SeqSet
    <2>2. Touched(1, i - 1)' = Touched(1, i - 1) /\ Touched(i + 1, M)' = Touched(i + 1, M)
        BY <1>1 DEF fmVars, Touched
    <2> QED
        BY <1>1, <2>1, <2>2 DEF fmVars, IInv, ListsInv
<1>4. ControlInv' /\ RecordInv'
    BY <1>1 DEF fmVars, IInv, ControlInv, RecordInv
<1>5. CurrentInv'
    <2>1. Touched(1, i)' = Touched(1, i) /\ Touched(i, M)' = Touched(i, M)
          /\ Touched(1, i - 1)' = Touched(1, i - 1)
        BY <1>1 DEF fmVars, Touched
    <2>2. /\ Before(entering_vss[i], j)' = Before(entering_vss[i], j)
          /\ Before(leaving_vss[i], j)' = Before(leaving_vss[i], j)
        BY DEF fmVars, Before
    <2> QED
        BY <2>1, <2>2 DEF fmVars, IInv, CurrentInv
<1>6. FrontierExact'
    BY <1>1 DEF fmVars, IInv, FrontierExact
<1>7. SlotsDistinct' /\ SlotsAccounted'
    BY <1>1 DEF fmVars, IInv, SlotsDistinct, SlotsAccounted, SeqSet
<1>8. StackInv'
    BY <1>1 DEF fmVars, IInv, StackInv, HighWater
<1> QED
    BY <1>2, <1>3, <1>4, <1>5, <1>6, <1>7, <1>8 DEF IInv

\* The inductive invariant holds throughout the constructor.
THEOREM Invariance == Spec => []IInv
<1>1. Init => IInv
    BY InitInv
<1>2. IInv /\ [Construct]_fmVars => IInv'
    <2> SUFFICES ASSUME IInv, [Construct]_fmVars PROVE IInv'
        OBVIOUS
    <2>1. CASE ComputeEntering
        BY <2>1, ComputeEnteringStep
    <2>2. CASE ComputeLeaving
        BY <2>2, ComputeLeavingStep
    <2>3. CASE Enter
        BY <2>3, EnterStep
    <2>4. CASE Record
        BY <2>4, RecordStep
    <2>5. CASE Leave
        BY <2>5, LeaveStep
    <2>6. CASE NextEdge
        BY <2>6, NextEdgeStep
    <2>7. CASE UNCHANGED fmVars
        BY <2>7, StutterStep
    <2> QED
        BY <2>1, <2>2, <2>3, <2>4, <2>5, <2>6, <2>7 DEF Construct
<1> QED
    BY <1>1, <1>2, PTL DEF Spec

(***************************************************************************)
(* FrontierManager is type correct for every digraph; unused.back() in     *)
(* particular is never read from an empty stack.                           *)
(***************************************************************************)
THEOREM TypeCorrect == Spec => []TypeOK
<1>1. IInv => TypeOK
    BY DEF IInv
<1> QED
    BY <1>1, Invariance, PTL

(***************************************************************************)
(* For every digraph, vertices on the frontier together have distinct      *)
(* slots, and no slot is lost or freed twice.                              *)
(***************************************************************************)
THEOREM SlotsCorrect == Spec => [](SlotsDistinct /\ SlotsAccounted)
<1>1. IInv => SlotsDistinct /\ SlotsAccounted
    BY DEF IInv
<1> QED
    BY <1>1, Invariance, PTL

(***************************************************************************)
(* For every digraph, the data of every vertex lie within the array of     *)
(* getMaxFrontierSize() elements that the searches allocate.               *)
(***************************************************************************)
THEOREM SlotsFit == Spec => []SlotsBounded
<1>1. IInv => SlotsBounded
    <2> SUFFICES ASSUME IInv, phase \in {"leave", "done"}, NEW v \in Vertices
                 PROVE  vertex_to_pos[v] < max_frontier_size
        BY DEF SlotsBounded
    <2>1. /\ max_frontier_size >= 1 /\ Cardinality(current_vs) <= max_frontier_size
          /\ vertex_to_pos[v] = 0 \/ vertex_to_pos[v] < HighWater
        BY DEF IInv, StackInv
    <2>2. max_frontier_size \in Nat /\ Cardinality(current_vs) \in Nat
        BY GraphFacts, VertexSets DEF IInv, TypeOK
    <2> QED
        BY <2>1, <2>2 DEF HighWater
<1> QED
    BY <1>1, Invariance, PTL

(***************************************************************************)
(* For every digraph, the recorded frontier of an edge is the set of its   *)
(* ends and of the vertices with an edge on either side of it.             *)
(***************************************************************************)
THEOREM FrontierCorrect == Spec => []FrontierExact
<1>1. IInv => FrontierExact
    BY DEF IInv
<1> QED
    BY <1>1, Invariance, PTL

\* A vertex that enters an edge is on the frontier of no earlier one, so the
\* slot it gets disturbs no earlier row; the row of its own edge has the slot
\* free.
LEMMA TablesStep ==
    ASSUME IInv, TablesInv, [Construct]_fmVars
    PROVE  TablesInv'
<1>1. TypeOK /\ ListsInv /\ IsGraph(graph) /\ SlotsDistinct /\ RecordInv
    BY DEF IInv, TypeOK
<1>2. /\ N \in Nat \ {0} /\ M \in Nat \ {0} /\ i \in 1..M /\ j \in 1..3
      /\ i \in EdgeIds
    BY <1>1, GraphFacts DEF TypeOK, EdgeIds
<1>3. CASE ComputeEntering
    BY <1>3 DEF ComputeEntering, IInv, CurrentInv, RecordInv, TablesInv
<1>4. CASE ComputeLeaving
    BY <1>4 DEF ComputeLeaving, IInv, CurrentInv, RecordInv, TablesInv
<1>5. CASE Enter
    <2> DEFINE v == entering_vss[i][j]
               u == unused[Len(unused)]
    <2>1. IsListing(entering_vss[i], EntersAt(i)) /\ j \in 1..Len(entering_vss[i])
        BY <1>1, <1>2, <1>5 DEF Enter, ListsInv, IsListing
    <2>2. v \in EntersAt(i) /\ v \notin Before(entering_vss[i], j)
        BY <2>1, BeforeListing
    <2>3. v \in Vertices /\ v \notin current_vs
        BY <2>2, <1>5 DEF Enter, IInv, CurrentInv, EntersAt, Touched
    <2>4. Len(unused) \in Nat \ {0} /\ u \in 0..(N - 1)
        <3>1. /\ unused \in Seq(0..(N - 1)) /\ Cardinality(current_vs) < N
              /\ Cardinality(current_vs) \in 0..N
              /\ Len(unused) + Cardinality(current_vs) = N
            BY <1>1, <2>3, VertexSets DEF IInv, TypeOK, SlotsAccounted
        <3>2. Len(unused) \in Nat /\ \A x \in 1..Len(unused) : unused[x] \in 0..(N - 1)
            BY <3>1, StackFacts
        <3>3. Len(unused) # 0
            BY <1>2, <3>1, <3>2
        <3> QED
            BY <3>2, <3>3
    <2>5. \A w \in Vertices : vertex_to_pos'[w] = IF w = v THEN u ELSE vertex_to_pos[w]
        BY <1>1, <1>5, <2>3 DEF Enter, TypeOK
    <2>6. /\ \A p \in 0..N : pos_to_vertex'[i][p] = IF p = u THEN v ELSE pos_to_vertex[i][p]
          /\ \A a \in EdgeIds : a # i => pos_to_vertex'[a] = pos_to_vertex[a]
        BY <1>1, <1>2, <1>5, <2>4 DEF Enter, TypeOK
    <2>7. \A w \in current_vs : /\ w \in Vertices /\ w # v /\ vertex_to_pos[w] # u
                               /\ vertex_to_pos[w] \in 0..N
        <3> SUFFICES ASSUME NEW w \in current_vs
                     PROVE  /\ w \in Vertices /\ w # v /\ vertex_to_pos[w] # u
                            /\ vertex_to_pos[w] \in 0..N
            OBVIOUS
        <3>1. w \in Vertices /\ w # v
            BY <1>1, <2>3 DEF TypeOK
        <3>2. vertex_to_pos[w] # u
            BY <1>1, <2>4 DEF SlotsDistinct, SeqSet
        <3>3. vertex_to_pos[w] \in 0..(N - 1)
            BY <1>1, <3>1 DEF TypeOK
        <3> QED
            BY <1>2, <3>1, <3>2, <3>3
    <2>8. current_vs' = current_vs \cup {v} /\ i' = i /\ frontier_vss' = frontier_vss
        BY <1>5 DEF Enter
    <2>9. \A w \in current_vs' : pos_to_vertex'[i][vertex_to_pos'[w]] = w
        <3> SUFFICES ASSUME NEW w \in current_vs'
                     PROVE  pos_to_vertex'[i][vertex_to_pos'[w]] = w
            OBVIOUS
        <3>1. CASE w = v
            <4>1. vertex_to_pos'[w] = u /\ u \in 0..N
                BY <1>2, <2>3, <2>4, <2>5, <3>1
            <4> QED
                BY <2>6, <3>1, <4>1
        <3>2. CASE w \in current_vs
            BY <1>5, <2>5, <2>6, <2>7, <3>2 DEF Enter, TablesInv
        <3> QED
            BY <2>8, <3>1, <3>2
    <2>10. ASSUME NEW a \in 1..Len(frontier_vss), NEW w \in frontier_vss[a]
           PROVE  pos_to_vertex'[a][vertex_to_pos'[w]] = w
        <3>1. a \in 1..(i - 1) /\ a \in EdgeIds /\ a # i
            BY <1>1, <1>2, <1>5 DEF Enter, RecordInv, EdgeIds
        <3>2. w \in Vertices /\ \E b \in 1..a : w \in Incident(graph, b)
            BY DEF IInv, FrontierExact
        <3>3. w \in Touched(1, i - 1)
            BY <1>2, <3>1, <3>2 DEF Touched
        <3>4. w # v
            BY <2>2, <3>3 DEF EntersAt
        <3> QED
            BY <2>5, <2>6, <3>1, <3>2, <3>4 DEF TablesInv
    <2> QED
        BY <2>8, <2>9, <2>10 DEF TablesInv
<1>6. CASE Record
    <2>1. /\ \A a \in 1..(i - 1) : frontier_vss'[a] = frontier_vss[a]
          /\ frontier_vss'[i] = current_vs
          /\ Len(frontier_vss') = i /\ Len(frontier_vss) = i - 1
        <3>1. frontier_vss \in Seq(SUBSET Vertices) /\ Len(frontier_vss) = i - 1
            BY <1>1, <1>6 DEF Record, TypeOK, RecordInv
        <3>2. frontier_vss' = Append(frontier_vss, current_vs) /\ current_vs \in SUBSET Vertices
            BY <1>1, <1>6 DEF Record, TypeOK
        <3>3. i - 1 + 1 = i
            BY <1>2
        <3> QED
            BY <3>1, <3>2, <3>3, StackFacts
    <2>2. ASSUME NEW a \in 1..i, NEW w \in frontier_vss'[a]
          PROVE  pos_to_vertex[a][vertex_to_pos[w]] = w
        <3>1. a = i \/ a \in 1..(i - 1)
            BY <1>2
        <3> QED
            BY <1>6, <2>1, <2>2, <3>1 DEF Record, TablesInv
    <2> QED
        BY <1>6, <2>1, <2>2 DEF Record, TablesInv
<1>7. CASE Leave
    BY <1>7 DEF Leave, Without, TablesInv
<1>8. CASE NextEdge
    <2>1. CASE i < M
        <3>1. pos_to_vertex' = [pos_to_vertex EXCEPT ![i + 1] = pos_to_vertex[i]]
              /\ i' = i + 1 /\ i + 1 \in EdgeIds
            BY <1>2, <1>8, <2>1 DEF NextEdge, RowCopied, IsLastEdge, EdgeIds
        <3>2. /\ pos_to_vertex'[i + 1] = pos_to_vertex[i]
              /\ \A a \in EdgeIds : a # i + 1 => pos_to_vertex'[a] = pos_to_vertex[a]
            BY <1>1, <3>1 DEF TypeOK
        <3>3. \A a \in 1..Len(frontier_vss) : a \in EdgeIds /\ a # i + 1
            BY <1>1, <1>2, <1>8 DEF NextEdge, RecordInv, EdgeIds
        <3> QED
            BY <1>8, <3>1, <3>2, <3>3 DEF NextEdge, TablesInv
    <2>2. CASE ~(i < M)
        BY <1>2, <1>8, <2>2 DEF NextEdge, IsLastEdge, TablesInv
    <2> QED
        BY <2>1, <2>2
<1>9. CASE UNCHANGED fmVars
    BY <1>9 DEF fmVars, TablesInv
<1> QED
    BY <1>3, <1>4, <1>5, <1>6, <1>7, <1>8, <1>9 DEF Construct

(***************************************************************************)
(* For every digraph, posToVertex gives back each vertex of the frontier   *)
(* of an edge from its slot.                                               *)
(***************************************************************************)
THEOREM TablesCorrect == Spec => []SlotTablesAgree
<1>1. Init => TablesInv
    BY DEF Init, TablesInv
<1>2. IInv /\ TablesInv /\ [Construct]_fmVars => TablesInv'
    BY TablesStep
<1>3. IInv /\ TablesInv => SlotTablesAgree
    BY DEF IInv, ControlInv, RecordInv, TablesInv, SlotTablesAgree, EdgeIds
<1> QED
    BY <1>1, <1>2, <1>3, Invariance, PTL DEF Spec
-----------------------------------------------------------------------------
\* A listing has as many elements as the set it lists.
LEMMA ListingCount ==
    ASSUME NEW S, NEW sq, IsListing(sq, S)
    PROVE  Cardinality(SeqSet(sq)) = Len(sq)
<1>1. Len(sq) = 0 \/ Len(sq) = 1 \/ Len(sq) = 2
    <2>1. sq \in Seq(S) /\ Len(sq) <= 2
        BY DEF IsListing
    <2>2. Len(sq) \in Nat
        BY <2>1
    <2>3. \A n \in Nat : n <= 2 => n = 0 \/ n = 1 \/ n = 2
        OBVIOUS
    <2> QED
        BY <2>1, <2>2, <2>3, Zenon
<1>2. CASE Len(sq) = 0
    BY <1>2, FS_EmptySet DEF SeqSet
<1>3. CASE Len(sq) = 1
    <2>1. SeqSet(sq) = {sq[1]}
        BY <1>3 DEF SeqSet
    <2> QED
        BY <1>3, <2>1, FS_Singleton
<1>4. CASE Len(sq) = 2
    <2>1. SeqSet(sq) = {sq[1]} \cup {sq[2]}
        BY <1>4 DEF SeqSet
    <2>2. sq[2] \notin {sq[1]}
        BY <1>4 DEF IsListing
    <2>3. IsFiniteSet({sq[1]}) /\ Cardinality({sq[1]}) = 1
        BY FS_Singleton
    <2>4. Cardinality({sq[1]} \cup {sq[2]}) = Cardinality({sq[1]}) + 1
        BY <2>2, <2>3, FS_AddElement
    <2> QED
        BY <1>4, <2>1, <2>3, <2>4
<1> QED
    BY <1>1, <1>2, <1>3, <1>4

\* A vertex is among those that enter at exactly one edge, its first.
LEMMA EntersOnce ==
    ASSUME IsGraph(graph), NEW v \in Vertices
    PROVE  \E a \in EdgeIds : {b \in EdgeIds : v \in EntersAt(b)} = {a}
<1> DEFINE Edges == {b \in EdgeIds : v \in Incident(graph, b)}
<1>1. M \in Nat
    BY GraphFacts
<1>2. \A b \in Edges : b \in Nat
    BY <1>1 DEF EdgeIds
<1>3. Edges # {}
    BY EveryVertexTouched DEF Touched, EdgeIds
<1>4. PICK a \in Edges : \A b \in Edges : a <= b
    BY <1>2, <1>3, LeastElement, Zenon
<1>5. \A b \in EdgeIds : v \in EntersAt(b) <=> b \in Edges /\ \A c \in 1..(b - 1) : c \notin Edges
    <2> SUFFICES ASSUME NEW b \in EdgeIds
                 PROVE  v \in EntersAt(b) <=> b \in Edges /\ \A c \in 1..(b - 1) : c \notin Edges
        OBVIOUS
    <2>1. v \in Touched(b, b) <=> b \in Edges
        BY TouchedFacts
    <2>2. v \in Touched(1, b - 1) <=> \E c \in 1..(b - 1) : c \in Edges
        BY <1>1 DEF Touched, EdgeIds
    <2> QED
        BY <2>1, <2>2 DEF EntersAt
<1>6. ASSUME NEW b \in EdgeIds
      PROVE  v \in EntersAt(b) <=> b = a
    <2>1. a \in 1..M /\ b \in 1..M
        BY DEF EdgeIds
    <2>2. \A c \in 1..(a - 1) : c \notin Edges
        BY <1>1, <1>2, <1>4, <2>1
    <2>3. b \in Edges /\ b # a => a \in 1..(b - 1)
        BY <1>1, <1>4, <2>1
    <2> QED
        BY <1>5, <2>2, <2>3
<1> QED
    BY <1>6

\* And among those that leave at exactly one, its last.
LEMMA LeavesOnce ==
    ASSUME IsGraph(graph), NEW v \in Vertices
    PROVE  \E a \in EdgeIds : {b \in EdgeIds : v \in LeavesAt(b)} = {a}
<1> DEFINE Edges == {b \in EdgeIds : v \in Incident(graph, b)}
<1>1. M \in Nat
    BY GraphFacts
<1>2. \A b \in Edges : b \in 0..M
    BY <1>1 DEF EdgeIds
<1>3. Edges # {}
    BY EveryVertexTouched DEF Touched, EdgeIds
<1>4. PICK a \in Edges : \A b \in Edges : b <= a
    BY <1>1, <1>2, <1>3, GreatestElement, Zenon
<1>5. \A b \in EdgeIds : v \in LeavesAt(b) <=> b \in Edges /\ \A c \in (b + 1)..M : c \notin Edges
    <2> SUFFICES ASSUME NEW b \in EdgeIds
                 PROVE  v \in LeavesAt(b) <=> b \in Edges /\ \A c \in (b + 1)..M : c \notin Edges
        OBVIOUS
    <2>1. v \in Touched(b, b) <=> b \in Edges
        BY TouchedFacts
    <2>2. v \in Touched(b + 1, M) <=> \E c \in (b + 1)..M : c \in Edges
        BY <1>1 DEF Touched, EdgeIds
    <2> QED
        BY <2>1, <2>2 DEF LeavesAt
<1>6. ASSUME NEW b \in EdgeIds
      PROVE  v \in LeavesAt(b) <=> b = a
    <2>1. a \in 1..M /\ b \in 1..M
        BY DEF EdgeIds
    <2>2. \A c \in (a + 1)..M : c \notin Edges
        BY <1>1, <1>2, <1>4, <2>1
    <2>3. b \in Edges /\ b # a => a \in (b + 1)..M
        BY <1>1, <1>4, <2>1
    <2> QED
        BY <1>5, <2>2, <2>3
<1> QED
    BY <1>6

(***************************************************************************)
(* For every digraph, constructEnteringAndLeavingVss() lists each vertex   *)
(* once in entering_vss_ and once in leaving_vss_, and no vertex leaves    *)
(* before it has entered.                                                  *)
(***************************************************************************)
THEOREM VerticesEnterAndLeaveOnce == Spec => []EnterLeaveOnce
<1>1. IInv => EnterLeaveOnce
    <2> SUFFICES ASSUME IInv, phase = "done" PROVE
                 /\ OnceEach(entering_vss)
                 /\ OnceEach(leaving_vss)
                 /\ \A v \in Vertices : \A a, b \in EdgeIds :
                     v \in SeqSet(entering_vss[a]) /\ v \in SeqSet(leaving_vss[b]) => a <= b
        BY DEF EnterLeaveOnce
    <2>1. IsGraph(graph) /\ M \in Nat
        BY GraphFacts DEF IInv, TypeOK
    <2>2. \A a \in EdgeIds : /\ IsListing(entering_vss[a], EntersAt(a))
                             /\ IsListing(leaving_vss[a], LeavesAt(a))
        BY DEF IInv, ListsInv
    <2>3. \A a \in EdgeIds : /\ SeqSet(entering_vss[a]) = EntersAt(a)
                             /\ SeqSet(leaving_vss[a]) = LeavesAt(a)
        BY <2>2 DEF IsListing
    <2>4. OnceEach(entering_vss)
        <3>1. ASSUME NEW v \in Vertices
              PROVE  Cardinality({a \in EdgeIds : v \in SeqSet(entering_vss[a])}) = 1
            <4>1. {a \in EdgeIds : v \in SeqSet(entering_vss[a])} = {a \in EdgeIds : v \in EntersAt(a)}
                BY <2>3
            <4>2. PICK a \in EdgeIds : {b \in EdgeIds : v \in EntersAt(b)} = {a}
                BY <2>1, EntersOnce
            <4> QED
                BY <4>1, <4>2, FS_Singleton
        <3> QED
            BY <2>2, <3>1, ListingCount DEF OnceEach
    <2>5. OnceEach(leaving_vss)
        <3>1. ASSUME NEW v \in Vertices
              PROVE  Cardinality({a \in EdgeIds : v \in SeqSet(leaving_vss[a])}) = 1
            <4>1. {a \in EdgeIds : v \in SeqSet(leaving_vss[a])} = {a \in EdgeIds : v \in LeavesAt(a)}
                BY <2>3
            <4>2. PICK a \in EdgeIds : {b \in EdgeIds : v \in LeavesAt(b)} = {a}
                BY <2>1, LeavesOnce
            <4> QED
                BY <4>1, <4>2, FS_Singleton
        <3> QED
            BY <2>2, <3>1, ListingCount DEF OnceEach
    <2>6. ASSUME NEW v \in Vertices, NEW a \in EdgeIds, NEW b \in EdgeIds,
                 v \in SeqSet(entering_vss[a]), v \in SeqSet(leaving_vss[b])
          PROVE  a <= b
        <3>1. v \notin Touched(1, a - 1) /\ v \in Incident(graph, b)
            BY <2>1, <2>3, <2>6, TouchedFacts DEF EntersAt, LeavesAt
        <3>2. b \notin 1..(a - 1)
            BY <3>1 DEF Touched
        <3> QED
            BY <2>1, <3>2 DEF EdgeIds
    <2> QED
        BY <2>4, <2>5, <2>6
<1> QED
    BY <1>1, Invariance, PTL

-----------------------------------------------------------------------------
(***************************************************************************)
(* The searches                                                            *)
(***************************************************************************)
\* The vertices on both sides of the cut behind edge b, and those at edge a.
Kept(b) == Touched(1, b) \cap Touched(b + 1, M)
Across(a) == Touched(1, a) \cap Touched(a, M)

\* S holds both ends of every edge of F that has an end in S.
Closed(F, S) ==
    S \in SUBSET Vertices /\ \A a \in F : Incident(graph, a) \cap S # {} => Incident(graph, a) \subseteq S

Tail1(a) == graph.edges[a][1]
Head1(a) == graph.edges[a][2]

\* What an end v of an edge adds to the degree of w, and the new number of c.
One(w, v) == IF w = v THEN 1 ELSE 0
Renumbered(c, lo, hi) == IF c = lo THEN hi ELSE c
-----------------------------------------------------------------------------
(***************************************************************************)
(* Linked vertices.                                                        *)
(***************************************************************************)
LEMMA LinkedClosed ==
    ASSUME NEW F, NEW u, NEW v
    PROVE  Linked(F, u, v) <=> \A S : Closed(F, S) /\ u \in S => v \in S
BY DEF Linked, Closed

LEMMA LinkedEquivalence ==
    ASSUME IsGraph(graph), NEW F \in SUBSET EdgeIds
    PROVE  /\ \A u : Linked(F, u, u)
           /\ \A u, v \in Vertices : Linked(F, u, v) => Linked(F, v, u)
           /\ \A u, v, w : Linked(F, u, v) /\ Linked(F, v, w) => Linked(F, u, w)
           /\ \A a \in F : \A u, v \in Incident(graph, a) : Linked(F, u, v)
<1>1. \A u : Linked(F, u, u)
    BY LinkedClosed
<1>2. \A u, v, w : Linked(F, u, v) /\ Linked(F, v, w) => Linked(F, u, w)
    BY LinkedClosed
<1>3. ASSUME NEW u \in Vertices, NEW v \in Vertices, Linked(F, u, v)
      PROVE  Linked(F, v, u)
    <2> SUFFICES ASSUME NEW S, Closed(F, S), v \in S, u \notin S
                 PROVE  FALSE
        BY LinkedClosed
    <2>1. Closed(F, Vertices \ S)
        BY GraphFacts DEF Closed
    <2> QED
        BY <1>3, <2>1, LinkedClosed DEF Closed
<1>4. ASSUME NEW a \in F, NEW u \in Incident(graph, a), NEW v \in Incident(graph, a)
      PROVE  Linked(F, u, v)
    BY LinkedClosed DEF Closed
<1> QED
    BY <1>1, <1>2, <1>3, <1>4

LEMMA LinkedMore ==
    ASSUME NEW F, NEW G, F \subseteq G, NEW u, NEW v, Linked(F, u, v)
    PROVE  Linked(G, u, v)
BY LinkedClosed DEF Closed

\* One more edge joins what is linked to its ends.
LEMMA LinkedAdd ==
    ASSUME IsGraph(graph), NEW F \in SUBSET EdgeIds, NEW a \in EdgeIds,
           NEW u \in Vertices, NEW v \in Vertices
    PROVE  Linked(F \cup {a}, u, v) <=>
              \/ Linked(F, u, v)
              \/ Linked(F, u, Tail1(a)) /\ Linked(F, Head1(a), v)
              \/ Linked(F, u, Head1(a)) /\ Linked(F, Tail1(a), v)
<1> DEFINE x == Tail1(a)
           y == Head1(a)
           Joint(w) == \/ Linked(F, u, w)
                       \/ Linked(F, u, x) /\ Linked(F, y, w)
                       \/ Linked(F, u, y) /\ Linked(F, x, w)
<1>1. Incident(graph, a) = {x, y} /\ x \in Vertices /\ y \in Vertices
    BY GraphFacts DEF Incident, Tail1, Head1
<1> HIDE DEF x, y
<1>2. ASSUME Joint(v) PROVE Linked(F \cup {a}, u, v)
    <2>1. Linked(F \cup {a}, x, y) /\ Linked(F \cup {a}, y, x)
        BY <1>1, LinkedEquivalence
    <2>2. \A w, z : Linked(F, w, z) => Linked(F \cup {a}, w, z)
        BY LinkedMore
    <2>3. \A p, q, r : Linked(F \cup {a}, p, q) /\ Linked(F \cup {a}, q, r) => Linked(F \cup {a}, p, r)
        BY LinkedEquivalence
    <2> QED
        BY <1>2, <2>1, <2>2, <2>3
<1>3. ASSUME Linked(F \cup {a}, u, v) PROVE Joint(v)
    <2> DEFINE S == {w \in Vertices : Joint(w)}
    <2>1. u \in S /\ \A w \in S : w \in Vertices /\ Joint(w)
        BY LinkedEquivalence
    <2>2. ASSUME NEW b \in F, NEW w \in Incident(graph, b), w \in S, NEW z \in Incident(graph, b)
          PROVE  z \in S
        <3>1. Linked(F, w, z) /\ z \in Vertices
            BY LinkedEquivalence, GraphFacts
        <3> QED
            BY <2>2, <3>1, LinkedEquivalence
    <2>3. ASSUME NEW w \in {x, y}, w \in S
          PROVE  x \in S /\ y \in S
        <3>1. \A p : Linked(F, p, p)
            BY LinkedEquivalence
        <3>2. \A p, q, r : Linked(F, p, q) /\ Linked(F, q, r) => Linked(F, p, r)
            BY LinkedEquivalence
        <3>3. \A p, q \in Vertices : Linked(F, p, q) => Linked(F, q, p)
            BY LinkedEquivalence
        <3> QED
            BY <1>1, <2>3, <3>1, <3>2, <3>3
    <2>4. Closed(F \cup {a}, S)
        <3> HIDE DEF S
        <3> SUFFICES ASSUME NEW b \in F \cup {a}, NEW w \in Incident(graph, b), w \in S,
                            NEW z \in Incident(graph, b)
                     PROVE  z \in S
            BY <2>1 DEF Closed
        <3> QED
            BY <1>1, <2>2, <2>3
    <2> HIDE DEF S
    <2> QED
        BY <1>3, <2>1, <2>4, LinkedClosed
<1> QED
    BY <1>2, <1>3 DEF x, y

\* A vertex without an edge in F is linked to itself alone.
LEMMA LinkedAlone ==
    ASSUME NEW F, NEW u \in Vertices, NEW v, \A a \in F : u \notin Incident(graph, a), Linked(F, u, v)
    PROVE  v = u
<1>1. Closed(F, {u})
    BY DEF Closed
<1> QED
    BY <1>1, LinkedClosed
-----------------------------------------------------------------------------
(***************************************************************************)
(* What the constructor of FrontierManager leaves for the searches.        *)
(***************************************************************************)
FrontierDone ==
    /\ IsGraph(graph)
    /\ max_frontier_size \in 0..N
    /\ vertex_to_pos \in [Vertices -> Slots]
    /\ \A a \in EdgeIds :
        /\ frontier_vss[a] = Across(a)
        /\ remaining_vss[a] = Kept(a)
        /\ IsListing(entering_vss[a], EntersAt(a))
        /\ IsListing(leaving_vss[a], LeavesAt(a))
        /\ \A v, w \in Across(a) : vertex_to_pos[v] = vertex_to_pos[w] => v = w

LEMMA ConstructorDone ==
    ASSUME IInv, SlotsBounded, SlotTablesAgree, phase = "done"
    PROVE  FrontierDone
<1>1. /\ IsGraph(graph) /\ max_frontier_size \in 0..N /\ i = M
      /\ vertex_to_pos \in [Vertices -> 0..(N - 1)]
      /\ N \in Nat \ {0} /\ M \in Nat \ {0}
    BY GraphFacts DEF IInv, TypeOK, ControlInv
<1>2. vertex_to_pos \in [Vertices -> Slots]
    <2>1. ASSUME NEW v \in Vertices PROVE vertex_to_pos[v] \in Slots
        <3>1. v \in Touched(1, M)
            BY <1>1, EveryVertexTouched
        <3>2. vertex_to_pos[v] < max_frontier_size
            BY <1>1, <3>1 DEF SlotsBounded, Touched
        <3> QED
            BY <1>1, <3>2 DEF Slots
    <2> QED
        BY <1>1, <2>1
<1>3. Len(frontier_vss) = M /\ Len(remaining_vss) = M
    BY <1>1 DEF IInv, RecordInv
<1>4. ASSUME NEW a \in EdgeIds
      PROVE  frontier_vss[a] = Across(a) /\ remaining_vss[a] = Kept(a)
    <2>1. /\ frontier_vss[a] = {v \in Vertices : /\ \E b \in 1..a : v \in Incident(graph, b)
                                                 /\ \E b \in a..M : v \in Incident(graph, b)}
          /\ remaining_vss[a] = {v \in frontier_vss[a] : \E b \in (a + 1)..M : v \in Incident(graph, b)}
        BY <1>3 DEF IInv, FrontierExact, EdgeIds
    <2>2. Touched(a + 1, M) \subseteq Touched(a, M)
        BY <1>1, TouchedFacts
    <2>3. frontier_vss[a] = Across(a)
        BY <2>1 DEF Across, Touched
    <2>4. remaining_vss[a] = Across(a) \cap Touched(a + 1, M)
        BY <2>1, <2>3 DEF Touched, Across
    <2> QED
        BY <2>2, <2>3, <2>4 DEF Across, Kept
<1>5. ASSUME NEW a \in EdgeIds
      PROVE  IsListing(entering_vss[a], EntersAt(a)) /\ IsListing(leaving_vss[a], LeavesAt(a))
    BY DEF IInv, ListsInv
<1>6. ASSUME NEW a \in EdgeIds, NEW v \in Across(a), NEW w \in Across(a),
             vertex_to_pos[v] = vertex_to_pos[w]
      PROVE  v = w
    BY <1>4, <1>6 DEF SlotTablesAgree
<1> QED
    BY <1>1, <1>2, <1>4, <1>5, <1>6 DEF FrontierDone

\* How the frontier changes at an edge.
LEMMA FrontierMoves ==
    ASSUME IsGraph(graph), NEW a \in EdgeIds
    PROVE  /\ Across(a) = Kept(a - 1) \cup EntersAt(a)
           /\ Kept(a - 1) \cap EntersAt(a) = {}
           /\ Kept(a) = Across(a) \ LeavesAt(a)
           /\ LeavesAt(a) \subseteq Across(a)
           /\ Incident(graph, a) \subseteq Across(a)
           /\ Tail1(a) \in Across(a) /\ Head1(a) \in Across(a)
           /\ Incident(graph, a) = {Tail1(a), Head1(a)}
           /\ Across(a) \subseteq Vertices /\ Across(a) \subseteq Touched(1, a)
           /\ EntersAt(a) \cap Touched(1, a - 1) = {}
<1>1. /\ Touched(a, a) = Incident(graph, a)
      /\ Touched(1, a) = Touched(1, a - 1) \cup Incident(graph, a)
      /\ Touched(a, M) = Touched(a + 1, M) \cup Incident(graph, a)
    BY TouchedFacts
<1>2. /\ Incident(graph, a) \subseteq Vertices /\ Incident(graph, a) = {Tail1(a), Head1(a)}
      /\ (a - 1) + 1 = a
    BY GraphFacts DEF Incident, Tail1, Head1, EdgeIds
<1>3. Touched(1, a) \subseteq Vertices
    BY DEF Touched
<1> QED
    BY <1>1, <1>2, <1>3 DEF Across, Kept, EntersAt, LeavesAt
-----------------------------------------------------------------------------
(***************************************************************************)
(* The parts of getChild, on the vertices of the frontier.                 *)
(***************************************************************************)
SlotType == [indeg : Int, outdeg : Int, comp : Int]
DataArrays == [Slots -> SlotType]

LEMMA LevelFacts ==
    ASSUME IsGraph(graph), NEW l \in 1..M
    PROVE  /\ EdgeOf(l) \in EdgeIds /\ EdgeOf(l) - 1 = M - l
           /\ TailOf(l) = Tail1(EdgeOf(l)) /\ HeadOf(l) = Head1(EdgeOf(l))
BY GraphFacts DEF EdgeOf, TailOf, HeadOf, Tail1, Head1, EdgeIds

LEMMA FrontierSlots ==
    ASSUME FrontierDone, NEW a \in EdgeIds
    PROVE  /\ \A v \in Across(a) : v \in Vertices /\ vertex_to_pos[v] \in Slots
           /\ \A v, w \in Across(a) : vertex_to_pos[v] = vertex_to_pos[w] => v = w
BY FrontierMoves DEF FrontierDone

\* Vertices that enter start afresh, those that were there keep their data.
LEMMA EnteredFacts ==
    ASSUME FrontierDone, NEW l \in 1..M, NEW d \in DataArrays
    PROVE  /\ Entered(d, l) \in DataArrays
           /\ \A v \in EntersAt(EdgeOf(l)) :
                At(Entered(d, l), v) = [indeg |-> 0, outdeg |-> 0, comp |-> v]
           /\ \A v \in Kept(EdgeOf(l) - 1) : At(Entered(d, l), v) = At(d, v)
<1> DEFINE a == EdgeOf(l)
           New(p) == InSlot(EntersAt(a), p)
           First(p) == CHOOSE v \in New(p) : TRUE
<1>1. /\ a \in EdgeIds /\ IsGraph(graph) /\ SeqSet(Entering(l)) = EntersAt(a)
      /\ EntersAt(a) \subseteq Across(a) /\ Kept(a - 1) \subseteq Across(a)
      /\ Kept(a - 1) \cap EntersAt(a) = {}
    BY LevelFacts, FrontierMoves DEF FrontierDone, IsListing, Entering
<1>2. /\ \A v \in Across(a) : v \in Vertices /\ vertex_to_pos[v] \in Slots
      /\ \A v, w \in Across(a) : vertex_to_pos[v] = vertex_to_pos[w] => v = w
    BY <1>1, FrontierSlots
<1>3. /\ DOMAIN d = Slots /\ \A p \in Slots : d[p] \in SlotType
      /\ Entered(d, l) = [p \in Slots |-> IF New(p) = {} THEN d[p]
                                          ELSE [indeg |-> 0, outdeg |-> 0, comp |-> First(p)]]
    BY <1>1 DEF DataArrays, Entered
<1>4. \A p : New(p) # {} => First(p) \in New(p)
    OBVIOUS
<1>5. \A v \in EntersAt(a) : New(vertex_to_pos[v]) = {v}
    BY <1>1, <1>2 DEF InSlot
<1>6. \A v \in EntersAt(a) : First(vertex_to_pos[v]) = v
    BY <1>5
<1>7. \A v \in Kept(a - 1) : New(vertex_to_pos[v]) = {}
    BY <1>1, <1>2 DEF InSlot
<1>8. \A p : New(p) \subseteq Int
    BY <1>1, <1>2 DEF InSlot, Vertices
<1> HIDE DEF First, New, a
<1>9. \A p \in Slots : Entered(d, l)[p] \in SlotType
    BY <1>3, <1>4, <1>8 DEF SlotType
<1>10. Entered(d, l) \in DataArrays
    BY <1>3, <1>9 DEF DataArrays
<1>11. ASSUME NEW v \in EntersAt(a)
       PROVE  At(Entered(d, l), v) = [indeg |-> 0, outdeg |-> 0, comp |-> v]
    BY <1>1, <1>2, <1>3, <1>5, <1>6 DEF At
<1>12. ASSUME NEW v \in Kept(a - 1) PROVE At(Entered(d, l), v) = At(d, v)
    BY <1>1, <1>2, <1>3, <1>7 DEF At
<1> QED
    BY <1>10, <1>11, <1>12 DEF a

\* The degrees of the ends of a taken edge go up, nothing else changes.
LEMMA CountEdgeFacts ==
    ASSUME FrontierDone, NEW l \in 1..M, NEW d \in DataArrays
    PROVE  /\ CountEdge(d, l) \in DataArrays
           /\ \A v \in Across(EdgeOf(l)) :
                /\ Indeg(CountEdge(d, l), v) = Indeg(d, v) + One(v, HeadOf(l))
                /\ Outdeg(CountEdge(d, l), v) = Outdeg(d, v) + One(v, TailOf(l))
                /\ Comp(CountEdge(d, l), v) = Comp(d, v)
<1> DEFINE a == EdgeOf(l)
           h == vertex_to_pos[HeadOf(l)]
           t == vertex_to_pos[TailOf(l)]
           c == CountEdge(d, l)
<1>1. a \in EdgeIds /\ HeadOf(l) \in Across(a) /\ TailOf(l) \in Across(a)
    BY LevelFacts, FrontierMoves DEF FrontierDone
<1>2. /\ \A v \in Across(a) : v \in Vertices /\ vertex_to_pos[v] \in Slots
      /\ \A v, w \in Across(a) : vertex_to_pos[v] = vertex_to_pos[w] => v = w
    BY <1>1, FrontierSlots
<1>3. DOMAIN d = Slots /\ h \in Slots /\ t \in Slots /\ \A p \in Slots : d[p] \in SlotType
    BY <1>1, <1>2 DEF DataArrays
<1>4. c = [d EXCEPT ![h].indeg = @ + 1, ![t].outdeg = @ + 1]
    BY DEF CountEdge
<1> HIDE DEF h, t, c
<1>5. /\ DOMAIN c = Slots
      /\ \A p \in Slots : /\ c[p] \in SlotType /\ c[p].comp = d[p].comp
                          /\ c[p].indeg = d[p].indeg + One(p, h)
                          /\ c[p].outdeg = d[p].outdeg + One(p, t)
    BY <1>3, <1>4 DEF SlotType, One
<1>6. c \in DataArrays
    BY <1>3, <1>4, <1>5 DEF DataArrays
<1>7. ASSUME NEW v \in Across(a)
      PROVE  /\ Indeg(c, v) = Indeg(d, v) + One(v, HeadOf(l))
             /\ Outdeg(c, v) = Outdeg(d, v) + One(v, TailOf(l))
             /\ Comp(c, v) = Comp(d, v)
    <2>1. /\ vertex_to_pos[v] \in Slots
          /\ v = HeadOf(l) <=> vertex_to_pos[v] = h
          /\ v = TailOf(l) <=> vertex_to_pos[v] = t
        BY <1>1, <1>2 DEF h, t
    <2> QED
        BY <1>5, <2>1 DEF Indeg, Outdeg, Comp, At, One
<1> QED
    BY <1>6, <1>7 DEF a, c

\* Joining gives the numbers of the two ends the larger one of them.
LEMMA JoinedFacts ==
    ASSUME FrontierDone, NEW l \in 1..M, NEW d \in DataArrays
    PROVE  /\ Joined(d, l) \in DataArrays
           /\ \E lo, hi : /\ {lo, hi} = {Comp(d, TailOf(l)), Comp(d, HeadOf(l))}
                          /\ \A v \in Across(EdgeOf(l)) :
                                /\ Indeg(Joined(d, l), v) = Indeg(d, v)
                                /\ Outdeg(Joined(d, l), v) = Outdeg(d, v)
                                /\ Comp(Joined(d, l), v) = Renumbered(Comp(d, v), lo, hi)
<1> DEFINE a == EdgeOf(l)
           c1 == Comp(d, TailOf(l))
           c2 == Comp(d, HeadOf(l))
           lo == IF c1 < c2 THEN c1 ELSE c2
           hi == IF c1 < c2 THEN c2 ELSE c1
           e == Joined(d, l)
<1>1. a \in EdgeIds /\ HeadOf(l) \in Across(a) /\ TailOf(l) \in Across(a) /\ Frontier(l) = Across(a)
    BY LevelFacts, FrontierMoves DEF FrontierDone, Frontier
<1>2. \A v \in Across(a) : v \in Vertices /\ vertex_to_pos[v] \in Slots
    BY <1>1, FrontierSlots
<1>3. DOMAIN d = Slots /\ \A p \in Slots : d[p] \in SlotType
    BY DEF DataArrays
<1>4. lo \in Int /\ hi \in Int /\ {lo, hi} = {c1, c2}
    BY <1>1, <1>2, <1>3 DEF Comp, At, SlotType
<1>5. e = [p \in DOMAIN d |-> IF InSlot(Frontier(l), p) # {} /\ d[p].comp = lo
                              THEN [d[p] EXCEPT !.comp = hi] ELSE d[p]]
    BY DEF Joined
<1> HIDE DEF lo, hi, e, a
<1>6. \A p \in Slots : e[p] \in SlotType
    BY <1>3, <1>4, <1>5 DEF SlotType
<1>7. e \in DataArrays
    BY <1>3, <1>5, <1>6 DEF DataArrays
<1>8. ASSUME NEW v \in Across(a)
      PROVE  /\ Indeg(e, v) = Indeg(d, v)
             /\ Outdeg(e, v) = Outdeg(d, v)
             /\ Comp(e, v) = Renumbered(Comp(d, v), lo, hi)
    <2>1. InSlot(Frontier(l), vertex_to_pos[v]) # {} /\ vertex_to_pos[v] \in Slots
        BY <1>1, <1>2 DEF InSlot
    <2> QED
        BY <1>3, <1>4, <1>5, <2>1 DEF Indeg, Outdeg, Comp, At, SlotType, Renumbered
<1> QED
    BY <1>4, <1>7, <1>8 DEF a, e

\* Erasing the data of those that left leaves the data of the others alone.
LEMMA WithLeftFacts ==
    ASSUME FrontierDone, NEW l \in 1..M, NEW d \in DataArrays, NEW erased \in SlotType,
           NEW k, 1..k \subseteq 1..Len(Leaving(l))
    PROVE  /\ WithLeft(d, l, k, erased) \in DataArrays
           /\ \A v \in Across(EdgeOf(l)) \ FirstLeaving(l, k) :
                At(WithLeft(d, l, k, erased), v) = At(d, v)
<1> DEFINE a == EdgeOf(l)
           e == WithLeft(d, l, k, erased)
<1>1. a \in EdgeIds /\ IsListing(Leaving(l), LeavesAt(a)) /\ LeavesAt(a) \subseteq Across(a)
    BY LevelFacts, FrontierMoves DEF FrontierDone, Leaving
<1>2. FirstLeaving(l, k) \subseteq Across(a)
    BY <1>1 DEF FirstLeaving, IsListing
<1>3. /\ \A v \in Across(a) : v \in Vertices /\ vertex_to_pos[v] \in Slots
      /\ \A v, w \in Across(a) : vertex_to_pos[v] = vertex_to_pos[w] => v = w
    BY <1>1, FrontierSlots
<1>4. /\ DOMAIN d = Slots /\ \A p \in Slots : d[p] \in SlotType
      /\ e = [p \in Slots |-> IF InSlot(FirstLeaving(l, k), p) = {} THEN d[p] ELSE erased]
    BY DEF DataArrays, WithLeft
<1> HIDE DEF a, e
<1>5. e \in DataArrays
    BY <1>4 DEF DataArrays
<1>6. ASSUME NEW v \in Across(a) \ FirstLeaving(l, k)
      PROVE  At(e, v) = At(d, v)
    <2>1. InSlot(FirstLeaving(l, k), vertex_to_pos[v]) = {}
        BY <1>2, <1>3 DEF InSlot
    <2> QED
        BY <1>3, <1>4, <2>1 DEF At
<1> QED
    BY <1>5, <1>6 DEF a, e

\* The loop over the leaving vertices ends at the first terminal, if any.
LEMMA LeaveAllFacts ==
    ASSUME FrontierDone, NEW l \in 1..M, NEW d, NEW judged, NEW erased,
           DOMAIN judged = 1..Len(Leaving(l))
    PROVE  LET all == LeaveAll(d, l, judged, erased)
           IN  \/ /\ all.ret = "go"
                  /\ all.data = WithLeft(d, l, Len(Leaving(l)), erased)
                  /\ \A k \in DOMAIN judged : judged[k] = "go"
               \/ \E k \in DOMAIN judged :
                    /\ all.ret = judged[k] /\ judged[k] # "go"
                    /\ all.data = WithLeft(d, l, k - 1, erased)
                    /\ \A x \in 1..(k - 1) : judged[x] = "go"
<1> DEFINE Stop(k) == judged[k] # "go" /\ \A x \in 1..(k - 1) : judged[x] = "go"
           all == LeaveAll(d, l, judged, erased)
<1>1. Len(Leaving(l)) \in Nat /\ Len(Leaving(l)) <= 2
    BY LevelFacts DEF FrontierDone, Leaving, IsListing
<1>2. CASE \A k \in DOMAIN judged : judged[k] = "go"
    BY <1>2 DEF LeaveAll
<1>3. CASE ~\A k \in DOMAIN judged : judged[k] = "go"
    <2>1. \E k \in DOMAIN judged : Stop(k)
        <3>1. CASE 1 \in DOMAIN judged /\ judged[1] # "go"
            BY <3>1
        <3>2. CASE ~(1 \in DOMAIN judged /\ judged[1] # "go")
            <4>1. 1 \in DOMAIN judged /\ 2 \in DOMAIN judged /\ judged[2] # "go" /\ judged[1] = "go"
                BY <1>1, <1>3, <3>2
            <4> QED
                BY <4>1
        <3> QED
            BY <3>1, <3>2
    <2> DEFINE q == CHOOSE k \in DOMAIN judged : Stop(k)
    <2>2. q \in DOMAIN judged /\ Stop(q)
        BY <2>1
    <2>3. all = [ret |-> judged[q], data |-> WithLeft(d, l, q - 1, erased)]
        BY <1>3 DEF LeaveAll
    <2> HIDE DEF q, all
    <2> QED
        BY <2>2, <2>3 DEF all
<1> QED
    BY <1>2, <1>3
-----------------------------------------------------------------------------
(***************************************************************************)
(* What the array says of a set of taken edges.                            *)
(***************************************************************************)
DegreesOf(d, F, Q) ==
    \A v \in Q : Indeg(d, v) = In(F, v) /\ Outdeg(d, v) = Out(F, v)
CompsOf(d, F, Q, W) ==
    /\ \A v \in Q : Comp(d, v) \in W
    /\ \A v, w \in Q : (Comp(d, v) = Comp(d, w)) <=> Linked(F, v, w)

LEMMA DegreeFacts ==
    ASSUME IsGraph(graph), NEW F \in SUBSET EdgeIds
    PROVE  /\ IsFiniteSet(F)
           /\ \A v : In(F, v) \in Nat /\ Out(F, v) \in Nat
           /\ \A v : (\A a \in F : v \notin Incident(graph, a)) => In(F, v) = 0 /\ Out(F, v) = 0
           /\ \A v : In(F, v) = 0 /\ Out(F, v) = 0 => \A a \in F : v \notin Incident(graph, a)
           /\ \A a \in EdgeIds \ F : \A v :
                /\ In(F \cup {a}, v) = In(F, v) + One(v, Head1(a))
                /\ Out(F \cup {a}, v) = Out(F, v) + One(v, Tail1(a))
<1>1. IsFiniteSet(EdgeIds)
    BY GraphFacts, FS_Interval DEF EdgeIds
<1>2. IsFiniteSet(F)
    BY <1>1, FS_Subset
<1>3. \A v : InEdges(F, v) \subseteq F /\ OutEdges(F, v) \subseteq F
    BY DEF InEdges, OutEdges
<1>4. \A v : IsFiniteSet(InEdges(F, v)) /\ IsFiniteSet(OutEdges(F, v))
    BY <1>2, <1>3, FS_Subset
<1>5. \A v : In(F, v) \in Nat /\ Out(F, v) \in Nat
    BY <1>4, FS_CardinalityType DEF In, Out
<1>6. ASSUME NEW v
      PROVE  In(F, v) = 0 /\ Out(F, v) = 0 <=> \A a \in F : v \notin Incident(graph, a)
    <2>1. /\ In(F, v) = 0 <=> InEdges(F, v) = {}
          /\ Out(F, v) = 0 <=> OutEdges(F, v) = {}
        BY <1>4, FS_EmptySet DEF In, Out
    <2> QED
        BY <2>1 DEF InEdges, OutEdges, Incident
<1>7. ASSUME NEW a \in EdgeIds \ F, NEW v
      PROVE  /\ In(F \cup {a}, v) = In(F, v) + One(v, Head1(a))
             /\ Out(F \cup {a}, v) = Out(F, v) + One(v, Tail1(a))
    <2>1. /\ InEdges(F \cup {a}, v) = IF v = Head1(a) THEN InEdges(F, v) \cup {a} ELSE InEdges(F, v)
          /\ OutEdges(F \cup {a}, v) = IF v = Tail1(a) THEN OutEdges(F, v) \cup {a} ELSE OutEdges(F, v)
        BY DEF InEdges, OutEdges, Head1, Tail1
    <2>2. a \notin InEdges(F, v) /\ a \notin OutEdges(F, v)
        BY DEF InEdges, OutEdges
    <2>3. /\ Cardinality(InEdges(F, v) \cup {a}) = Cardinality(InEdges(F, v)) + 1
          /\ Cardinality(OutEdges(F, v) \cup {a}) = Cardinality(OutEdges(F, v)) + 1
        BY <1>4, <2>2, FS_AddElement
    <2> QED
        BY <1>5, <2>1, <2>3 DEF In, Out, One
<1> QED
    BY <1>2, <1>5, <1>6, <1>7

\* The edges before a, and the vertices they touch.
LEMMA EarlierEdges ==
    ASSUME IsGraph(graph), NEW a \in EdgeIds, NEW F \in SUBSET (1..(a - 1))
    PROVE  /\ F \in SUBSET EdgeIds /\ a \notin F /\ F \cup {a} \in SUBSET (1..a)
           /\ F \in SUBSET (1..a) /\ F \cup {a} \in SUBSET EdgeIds
           /\ \A v \in EntersAt(a) : \A b \in F : v \notin Incident(graph, b)
BY GraphFacts DEF EdgeIds, EntersAt, Touched

LEMMA EnteredKeeps ==
    ASSUME FrontierDone, NEW l \in 1..M, NEW a, a = EdgeOf(l), NEW d \in DataArrays,
           NEW F \in SUBSET (1..(a - 1)), DegreesOf(d, F, Kept(a - 1))
    PROVE  /\ DegreesOf(Entered(d, l), F, Across(a))
           /\ CompsOf(d, F, Kept(a - 1), Touched(1, a - 1))
                => CompsOf(Entered(d, l), F, Across(a), Touched(1, a))
<1> DEFINE e == Entered(d, l)
<1>1. a \in EdgeIds /\ IsGraph(graph)
    BY LevelFacts DEF FrontierDone
<1>2. /\ \A v \in EntersAt(a) : Indeg(e, v) = 0 /\ Outdeg(e, v) = 0 /\ Comp(e, v) = v
      /\ \A v \in Kept(a - 1) : /\ Indeg(e, v) = Indeg(d, v) /\ Outdeg(e, v) = Outdeg(d, v)
                                /\ Comp(e, v) = Comp(d, v)
    BY EnteredFacts DEF Indeg, Outdeg, Comp
<1> HIDE DEF e
<1>3. /\ Across(a) = Kept(a - 1) \cup EntersAt(a)
      /\ EntersAt(a) \cap Touched(1, a - 1) = {}
      /\ Across(a) \subseteq Vertices /\ Across(a) \subseteq Touched(1, a)
      /\ Touched(1, a - 1) \subseteq Touched(1, a)
    BY <1>1, FrontierMoves, TouchedFacts
<1>4. /\ F \in SUBSET EdgeIds
      /\ \A v \in EntersAt(a) : \A b \in F : v \notin Incident(graph, b)
    BY <1>1, EarlierEdges
<1>5. DegreesOf(e, F, Across(a))
    <2>1. \A v \in EntersAt(a) : In(F, v) = 0 /\ Out(F, v) = 0
        BY <1>1, <1>4, DegreeFacts
    <2> QED
        BY <1>2, <1>3, <2>1 DEF DegreesOf
<1>6. ASSUME CompsOf(d, F, Kept(a - 1), Touched(1, a - 1))
      PROVE  CompsOf(e, F, Across(a), Touched(1, a))
    <2>1. \A v \in Across(a) : Comp(e, v) \in Touched(1, a)
        BY <1>2, <1>3, <1>6 DEF CompsOf
    <2>2. ASSUME NEW v \in EntersAt(a), NEW w \in Across(a)
          PROVE  /\ (Comp(e, v) = Comp(e, w)) <=> v = w
                 /\ Linked(F, v, w) <=> v = w
                 /\ Linked(F, w, v) <=> v = w
        <3>1. (Comp(e, v) = Comp(e, w)) <=> v = w
            BY <1>2, <1>3, <1>6 DEF CompsOf
        <3>2. Linked(F, v, w) <=> v = w
            <4>1. v \in Vertices /\ \A b \in F : v \notin Incident(graph, b)
                BY <1>3, <1>4
            <4>2. Linked(F, v, w) => w = v
                BY <4>1, LinkedAlone
            <4> QED
                BY <1>1, <1>4, <4>2, LinkedEquivalence
        <3>3. Linked(F, w, v) <=> Linked(F, v, w)
            BY <1>1, <1>3, <1>4, LinkedEquivalence
        <3> QED
            BY <3>1, <3>2, <3>3
    <2>3. ASSUME NEW v \in Kept(a - 1), NEW w \in Kept(a - 1)
          PROVE  (Comp(e, v) = Comp(e, w)) <=> Linked(F, v, w)
        BY <1>2, <1>6 DEF CompsOf
    <2>4. ASSUME NEW v \in Across(a), NEW w \in Across(a)
          PROVE  (Comp(e, v) = Comp(e, w)) <=> Linked(F, v, w)
        <3>1. CASE v \in EntersAt(a)
            BY <2>2, <3>1
        <3>2. CASE w \in EntersAt(a)
            BY <2>2, <3>2
        <3>3. CASE v \in Kept(a - 1) /\ w \in Kept(a - 1)
            BY <2>3, <3>3
        <3> QED
            BY <1>3, <3>1, <3>2, <3>3
    <2> QED
        BY <2>1, <2>4 DEF CompsOf
<1> QED
    BY <1>5, <1>6 DEF e

LEMMA CountEdgeKeeps ==
    ASSUME FrontierDone, NEW l \in 1..M, NEW a, a = EdgeOf(l), NEW d \in DataArrays,
           NEW F \in SUBSET (1..(a - 1)), DegreesOf(d, F, Across(a))
    PROVE  /\ DegreesOf(CountEdge(d, l), F \cup {a}, Across(a))
           /\ CompsOf(d, F, Across(a), Touched(1, a))
                => CompsOf(CountEdge(d, l), F, Across(a), Touched(1, a))
<1>1. a \in EdgeIds /\ IsGraph(graph) /\ TailOf(l) = Tail1(a) /\ HeadOf(l) = Head1(a)
    BY LevelFacts DEF FrontierDone
<1>2. F \in SUBSET EdgeIds /\ a \in EdgeIds \ F
    BY <1>1, EarlierEdges
<1>3. \A v : /\ In(F \cup {a}, v) = In(F, v) + One(v, HeadOf(l))
             /\ Out(F \cup {a}, v) = Out(F, v) + One(v, TailOf(l))
    BY <1>1, <1>2, DegreeFacts
<1>4. \A v \in Across(a) :
        /\ Indeg(CountEdge(d, l), v) = Indeg(d, v) + One(v, HeadOf(l))
        /\ Outdeg(CountEdge(d, l), v) = Outdeg(d, v) + One(v, TailOf(l))
        /\ Comp(CountEdge(d, l), v) = Comp(d, v)
    BY CountEdgeFacts
<1> QED
    BY <1>3, <1>4 DEF DegreesOf, CompsOf

LEMMA JoinedKeeps ==
    ASSUME FrontierDone, NEW l \in 1..M, NEW a, a = EdgeOf(l), NEW d \in DataArrays,
           NEW F \in SUBSET (1..(a - 1)), NEW G,
           DegreesOf(d, G, Across(a)), CompsOf(d, F, Across(a), Touched(1, a))
    PROVE  /\ DegreesOf(Joined(d, l), G, Across(a))
           /\ CompsOf(Joined(d, l), F \cup {a}, Across(a), Touched(1, a))
<1> DEFINE e == Joined(d, l)
           x == Tail1(a)
           y == Head1(a)
<1>1. /\ a \in EdgeIds /\ IsGraph(graph) /\ TailOf(l) = x /\ HeadOf(l) = y
      /\ x \in Across(a) /\ y \in Across(a) /\ Across(a) \subseteq Vertices
    BY LevelFacts, FrontierMoves DEF FrontierDone
<1>2. F \in SUBSET EdgeIds
    BY <1>1, EarlierEdges
<1>9. \E lo, hi : /\ {lo, hi} = {Comp(d, TailOf(l)), Comp(d, HeadOf(l))}
                  /\ \A v \in Across(EdgeOf(l)) :
                        /\ Indeg(e, v) = Indeg(d, v) /\ Outdeg(e, v) = Outdeg(d, v)
                        /\ Comp(e, v) = Renumbered(Comp(d, v), lo, hi)
    BY JoinedFacts
<1>3. PICK lo, hi : /\ {lo, hi} = {Comp(d, x), Comp(d, y)}
                    /\ \A v \in Across(a) :
                        /\ Indeg(e, v) = Indeg(d, v) /\ Outdeg(e, v) = Outdeg(d, v)
                        /\ Comp(e, v) = Renumbered(Comp(d, v), lo, hi)
    BY <1>1, <1>9
<1> HIDE DEF e, x, y
<1>4. ASSUME NEW v \in Across(a), NEW w \in Across(a)
      PROVE  (Comp(e, v) = Comp(e, w)) <=>
                \/ Comp(d, v) = Comp(d, w)
                \/ Comp(d, v) = Comp(d, x) /\ Comp(d, y) = Comp(d, w)
                \/ Comp(d, v) = Comp(d, y) /\ Comp(d, x) = Comp(d, w)
    BY <1>3 DEF Renumbered
<1>5. ASSUME NEW v \in Across(a), NEW w \in Across(a)
      PROVE  (Comp(e, v) = Comp(e, w)) <=> Linked(F \cup {a}, v, w)
    <2>1. Linked(F \cup {a}, v, w) <=> \/ Linked(F, v, w)
                                       \/ Linked(F, v, x) /\ Linked(F, y, w)
                                       \/ Linked(F, v, y) /\ Linked(F, x, w)
        BY <1>1, <1>2, LinkedAdd DEF x, y
    <2>2. \A p, q \in Across(a) : (Comp(d, p) = Comp(d, q)) <=> Linked(F, p, q)
        BY DEF CompsOf
    <2> QED
        BY <1>1, <1>4, <2>1, <2>2
<1>6. \A v \in Across(a) : Comp(e, v) \in Touched(1, a)
    BY <1>1, <1>3 DEF CompsOf, Renumbered
<1> QED
    BY <1>3, <1>5, <1>6 DEF e, DegreesOf, CompsOf

LEMMA LeaveKeeps ==
    ASSUME FrontierDone, NEW l \in 1..M, NEW a, a = EdgeOf(l), NEW d \in DataArrays,
           NEW erased \in SlotType
    PROVE  LET e == WithLeft(d, l, Len(Leaving(l)), erased)
           IN  /\ e \in DataArrays
               /\ \A v \in Kept(a) : At(e, v) = At(d, v)
               /\ \A F : DegreesOf(d, F, Across(a)) => DegreesOf(e, F, Kept(a))
               /\ \A F, W : CompsOf(d, F, Across(a), W) => CompsOf(e, F, Kept(a), W)
<1> DEFINE n == Len(Leaving(l))
           e == WithLeft(d, l, n, erased)
<1>1. a \in EdgeIds /\ IsListing(Leaving(l), LeavesAt(a)) /\ Kept(a) = Across(a) \ LeavesAt(a)
    BY LevelFacts, FrontierMoves DEF FrontierDone, Leaving
<1>2. FirstLeaving(l, n) = LeavesAt(a)
    BY <1>1 DEF FirstLeaving, IsListing, SeqSet
<1>3. e \in DataArrays /\ \A v \in Kept(a) : At(e, v) = At(d, v)
    BY <1>1, <1>2, WithLeftFacts
<1> HIDE DEF e
<1> QED
    BY <1>1, <1>3 DEF e, DegreesOf, CompsOf, Indeg, Outdeg, Comp
-----------------------------------------------------------------------------
(***************************************************************************)
(* The searches.  Each has a copy of FrontierSearch, the same for all.     *)
(***************************************************************************)
\* The array when the edge of the level is taken or not, before vertices leave.
Made(d, l, value) ==
    IF value = 1 THEN Joined(CountEdge(Entered(d, l), l), l) ELSE Entered(d, l)

CyclesJudged(d, l) == [k \in DOMAIN Leaving(l) |-> Cycles!Judge(WithLeft(d, l, k - 1, Erased), l, k)]

LEMMA CyclesChild ==
    ASSUME NEW value, Cycles!Child(value)
    PROVE  LET d == Made(data, level, value)
           IN  /\ verdict = "go"
               /\ Follow(LeaveAll(d, level, CyclesJudged(d, level), Erased), value, "zero")
<1>1. /\ \A d, l : Cycles!Entered(d, l) = Entered(d, l)
      /\ \A d, l : Cycles!CountEdge(d, l) = CountEdge(d, l)
      /\ \A d, l : Cycles!Joined(d, l) = Joined(d, l)
      /\ \A l : Cycles!Leaving(l) = Leaving(l)
      /\ \A d, l, k, e : Cycles!WithLeft(d, l, k, e) = WithLeft(d, l, k, e)
    BY DEF Cycles!Entered, Cycles!Entering, Cycles!InSlot, Cycles!SeqSet, Cycles!EdgeOf,
           Cycles!M, Entered, Entering, InSlot, SeqSet, EdgeOf, M,
           Cycles!Joined, Cycles!Comp, Cycles!At, Cycles!TailOf, Cycles!HeadOf, Cycles!Frontier,
           Joined, Comp, At, TailOf, HeadOf, Frontier, Cycles!CountEdge, CountEdge,
           Cycles!WithLeft, WithLeft, Cycles!FirstLeaving, FirstLeaving, Cycles!Leaving, Leaving
<1>2. \A d, l, judged, e : Cycles!LeaveAll(d, l, judged, e) = LeaveAll(d, l, judged, e)
    BY <1>1 DEF Cycles!LeaveAll, LeaveAll
<1>3. \A c, b : Cycles!Follow(c, value, b) <=> Follow(c, value, b)
    BY DEF Cycles!Follow, Follow, Cycles!EdgeOf, EdgeOf, Cycles!M, M
<1>4. Cycles!Erased = Erased
    BY DEF Cycles!Erased, Erased
<1> QED
    BY <1>1, <1>2, <1>3, <1>4 DEF Cycles!Child, Cycles!GetChild, Cycles!CheckLeaving, CyclesJudged, Made
HamiltonianJudged(d, l) ==
    [k \in DOMAIN Leaving(l) |-> HamiltonianCycles!Judge(WithLeft(d, l, k - 1, Erased), l, k)]

LEMMA HamiltonianCyclesChild ==
    ASSUME NEW value, HamiltonianCycles!Child(value)
    PROVE  LET d == Made(data, level, value)
           IN  /\ verdict = "go"
               /\ Follow(LeaveAll(d, level, HamiltonianJudged(d, level), Erased), value, "zero")
<1>1. /\ \A d, l : HamiltonianCycles!Entered(d, l) = Entered(d, l)
      /\ \A d, l : HamiltonianCycles!CountEdge(d, l) = CountEdge(d, l)
      /\ \A d, l : HamiltonianCycles!Joined(d, l) = Joined(d, l)
      /\ \A l : HamiltonianCycles!Leaving(l) = Leaving(l)
      /\ \A d, l, k, e : HamiltonianCycles!WithLeft(d, l, k, e) = WithLeft(d, l, k, e)
    BY DEF HamiltonianCycles!Entered, Entered, HamiltonianCycles!Entering,
           Entering, HamiltonianCycles!InSlot, InSlot,
           HamiltonianCycles!SeqSet, SeqSet, HamiltonianCycles!EdgeOf, EdgeOf,
           HamiltonianCycles!M, M, HamiltonianCycles!CountEdge, CountEdge,
           HamiltonianCycles!Joined, Joined, HamiltonianCycles!Comp, Comp,
           HamiltonianCycles!At, At, HamiltonianCycles!TailOf, TailOf,
           HamiltonianCycles!HeadOf, HeadOf, HamiltonianCycles!Frontier,
           Frontier, HamiltonianCycles!WithLeft, WithLeft,
           HamiltonianCycles!FirstLeaving, FirstLeaving,
           HamiltonianCycles!Leaving, Leaving
<1>2. \A d, l, judged, e : HamiltonianCycles!LeaveAll(d, l, judged, e) = LeaveAll(d, l, judged, e)
    BY <1>1 DEF HamiltonianCycles!LeaveAll, LeaveAll
<1>3. \A c, b : HamiltonianCycles!Follow(c, value, b) <=> Follow(c, value, b)
    BY DEF HamiltonianCycles!Follow, Follow, HamiltonianCycles!EdgeOf, EdgeOf, HamiltonianCycles!M, M
<1>4. HamiltonianCycles!Erased = Erased
    BY DEF HamiltonianCycles!Erased, Erased
<1> QED
    BY <1>1, <1>2, <1>3, <1>4
       DEF HamiltonianCycles!Child, HamiltonianCycles!GetChild, HamiltonianCycles!CheckLeaving, HamiltonianJudged, Made

PathsJudged(d, l) ==
    [k \in DOMAIN Leaving(l) |-> Paths!Judge(WithLeft(d, l, k - 1, Erased), l, k)]

LEMMA PathsChild ==
    ASSUME NEW value, Paths!Child(value)
    PROVE  LET d == Made(data, level, value)
           IN  /\ verdict = "go"
               /\ Follow(LeaveAll(d, level, PathsJudged(d, level), Erased), value, "zero")
<1>1. /\ \A d, l : Paths!Entered(d, l) = Entered(d, l)
      /\ \A d, l : Paths!CountEdge(d, l) = CountEdge(d, l)
      /\ \A d, l : Paths!Joined(d, l) = Joined(d, l)
      /\ \A l : Paths!Leaving(l) = Leaving(l)
      /\ \A d, l, k, e : Paths!WithLeft(d, l, k, e) = WithLeft(d, l, k, e)
    BY DEF Paths!Entered, Entered, Paths!Entering, Entering, Paths!InSlot,
           InSlot, Paths!SeqSet, SeqSet, Paths!EdgeOf, EdgeOf, Paths!M, M,
           Paths!CountEdge, CountEdge, Paths!Joined, Joined, Paths!Comp, Comp,
           Paths!At, At, Paths!TailOf, TailOf, Paths!HeadOf, HeadOf,
           Paths!Frontier, Frontier, Paths!WithLeft, WithLeft,
           Paths!FirstLeaving, FirstLeaving, Paths!Leaving, Leaving
<1>2. \A d, l, judged, e : Paths!LeaveAll(d, l, judged, e) = LeaveAll(d, l, judged, e)
    BY <1>1 DEF Paths!LeaveAll, LeaveAll
<1>3. \A c, b : Paths!Follow(c, value, b) <=> Follow(c, value, b)
    BY DEF Paths!Follow, Follow, Paths!EdgeOf, EdgeOf, Paths!M, M
<1>4. Paths!Erased = Erased
    BY DEF Paths!Erased, Erased
<1> QED
    BY <1>1, <1>2, <1>3, <1>4
       DEF Paths!Child, Paths!GetChild, Paths!CheckLeaving, PathsJudged, Made
ForestsJudged(d, l) ==
    [k \in DOMAIN Leaving(l) |-> Forests!Judge(WithLeft(d, l, k - 1, Blank), l, k)]

LEMMA ForestsChild ==
    ASSUME NEW value \in {0, 1}, Forests!Child(value)
    PROVE  LET d == Made(data, level, value)
               b == CountEdge(Entered(data, level), level)
               cycle == Comp(b, TailOf(level)) = Comp(b, HeadOf(level))
           IN  /\ verdict = "go"
               /\ \/ /\ ~(value = 1 /\ cycle)
                     /\ Follow(LeaveAll(d, level, ForestsJudged(d, level), Blank), value, "one")
                  \/ /\ value = 1 /\ cycle
                     /\ Follow([ret |-> "zero", data |-> b], value, "one")
<1>1. /\ \A d, l : Forests!Entered(d, l) = Entered(d, l)
      /\ \A d, l : Forests!CountEdge(d, l) = CountEdge(d, l)
      /\ \A d, l : Forests!Joined(d, l) = Joined(d, l)
      /\ \A d, v : Forests!Comp(d, v) = Comp(d, v)
      /\ \A l : /\ Forests!Leaving(l) = Leaving(l)
                /\ Forests!TailOf(l) = TailOf(l) /\ Forests!HeadOf(l) = HeadOf(l)
      /\ \A d, l, k, e : Forests!WithLeft(d, l, k, e) = WithLeft(d, l, k, e)
    BY DEF Forests!Entered, Entered, Forests!Entering, Entering,
           Forests!InSlot, InSlot, Forests!SeqSet, SeqSet, Forests!EdgeOf,
           EdgeOf, Forests!M, M, Forests!CountEdge, CountEdge, Forests!Joined,
           Joined, Forests!Comp, Comp, Forests!At, At, Forests!TailOf, TailOf,
           Forests!HeadOf, HeadOf, Forests!Frontier, Frontier,
           Forests!WithLeft, WithLeft, Forests!FirstLeaving, FirstLeaving,
           Forests!Leaving, Leaving
<1>2. \A d, l, judged, e : Forests!LeaveAll(d, l, judged, e) = LeaveAll(d, l, judged, e)
    BY <1>1 DEF Forests!LeaveAll, LeaveAll
<1>3. \A c, b : Forests!Follow(c, value, b) <=> Follow(c, value, b)
    BY DEF Forests!Follow, Follow, Forests!EdgeOf, EdgeOf, Forests!M, M
<1>4. Forests!Blank = Blank
    BY DEF Forests!Blank, Blank
<1> QED
    BY <1>1, <1>2, <1>3, <1>4
       DEF Forests!Child, Forests!GetChild, Forests!CheckLeaving, ForestsJudged, Made

TreesJudged(d, l) ==
    [k \in DOMAIN Leaving(l) |-> Trees!Judge(WithLeft(d, l, k - 1, Blank), l, k)]

LEMMA TreesChild ==
    ASSUME NEW value \in {0, 1}, Trees!Child(value)
    PROVE  LET d == Made(data, level, value)
               b == Entered(data, level)
               cycle == Comp(b, TailOf(level)) = Comp(b, HeadOf(level))
           IN  /\ verdict = "go"
               /\ \/ /\ ~(value = 1 /\ cycle)
                     /\ Follow(LeaveAll(d, level, TreesJudged(d, level), Blank), value, "one")
                  \/ /\ value = 1 /\ cycle
                     /\ Follow([ret |-> "zero", data |-> b], value, "one")
<1>1. /\ \A d, l : Trees!Entered(d, l) = Entered(d, l)
      /\ \A d, l : Trees!CountEdge(d, l) = CountEdge(d, l)
      /\ \A d, l : Trees!Joined(d, l) = Joined(d, l)
      /\ \A d, v : Trees!Comp(d, v) = Comp(d, v)
      /\ \A l : /\ Trees!Leaving(l) = Leaving(l)
                /\ Trees!TailOf(l) = TailOf(l) /\ Trees!HeadOf(l) = HeadOf(l)
      /\ \A d, l, k, e : Trees!WithLeft(d, l, k, e) = WithLeft(d, l, k, e)
    BY DEF Trees!Entered, Entered, Trees!Entering, Entering, Trees!InSlot,
           InSlot, Trees!SeqSet, SeqSet, Trees!EdgeOf, EdgeOf, Trees!M, M,
           Trees!CountEdge, CountEdge, Trees!Joined, Joined, Trees!Comp, Comp,
           Trees!At, At, Trees!TailOf, TailOf, Trees!HeadOf, HeadOf,
           Trees!Frontier, Frontier, Trees!WithLeft, WithLeft,
           Trees!FirstLeaving, FirstLeaving, Trees!Leaving, Leaving
<1>2. \A d, l, judged, e : Trees!LeaveAll(d, l, judged, e) = LeaveAll(d, l, judged, e)
    BY <1>1 DEF Trees!LeaveAll, LeaveAll
<1>3. \A c, b : Trees!Follow(c, value, b) <=> Follow(c, value, b)
    BY DEF Trees!Follow, Follow, Trees!EdgeOf, EdgeOf, Trees!M, M
<1>4. Trees!Blank = Blank
    BY DEF Trees!Blank, Blank
<1> QED
    BY <1>1, <1>2, <1>3, <1>4
       DEF Trees!Child, Trees!GetChild, Trees!CheckLeaving, TreesJudged, Made
\* The degree search, which keeps no components.
DegreesMade(d, l, value) ==
    IF value = 1 THEN CountEdge(Degrees!EnteredDegrees(d, l), l) ELSE Degrees!EnteredDegrees(d, l)

DegreesJudged(d, l) ==
    [k \in DOMAIN Leaving(l) |-> Degrees!Judge(WithLeft(d, l, k - 1, Blank), l, k)]

LEMMA DegreesChild ==
    ASSUME NEW value \in {0, 1}, Degrees!Child(value)
    PROVE  LET d == DegreesMade(data, level, value)
               b == Degrees!EnteredDegrees(data, level)
           IN  /\ verdict = "go"
               /\ \/ Follow(LeaveAll(d, level, DegreesJudged(d, level), Blank), value, "one")
                  \/ /\ value = 1 /\ ~Degrees!MayTake(b, level)
                     /\ Follow([ret |-> "zero", data |-> b], value, "one")
<1>1. /\ \A d, l : Degrees!CountEdge(d, l) = CountEdge(d, l)
      /\ \A l : Degrees!Leaving(l) = Leaving(l)
      /\ \A d, l, k, e : Degrees!WithLeft(d, l, k, e) = WithLeft(d, l, k, e)
    BY DEF Degrees!InSlot, InSlot, Degrees!EdgeOf, EdgeOf, Degrees!M, M, Degrees!CountEdge,
           CountEdge, Degrees!TailOf, TailOf, Degrees!HeadOf, HeadOf, Degrees!WithLeft, WithLeft,
           Degrees!FirstLeaving, FirstLeaving, Degrees!Leaving, Leaving
<1>2. \A d, l, judged, e : Degrees!LeaveAll(d, l, judged, e) = LeaveAll(d, l, judged, e)
    BY <1>1 DEF Degrees!LeaveAll, LeaveAll
<1>3. \A c, b : Degrees!Follow(c, value, b) <=> Follow(c, value, b)
    BY DEF Degrees!Follow, Follow, Degrees!EdgeOf, EdgeOf, Degrees!M, M
<1>4. Degrees!Blank = Blank
    BY DEF Degrees!Blank, Blank
<1> QED
    BY <1>1, <1>2, <1>3, <1>4
       DEF Degrees!Child, Degrees!GetChild, Degrees!CheckLeaving, DegreesJudged, DegreesMade

\* Vertices enter the degree search as they enter the others, unnumbered.
LEMMA EnteredDegreesFacts ==
    ASSUME FrontierDone, NEW l \in 1..M, NEW d \in DataArrays
    PROVE  LET e == Degrees!EnteredDegrees(d, l)
           IN  /\ e \in DataArrays
               /\ \A v \in EntersAt(EdgeOf(l)) : Indeg(e, v) = 0 /\ Outdeg(e, v) = 0
               /\ \A v \in Kept(EdgeOf(l) - 1) : At(e, v) = At(d, v)
<1> DEFINE a == EdgeOf(l)
           e == Degrees!EnteredDegrees(d, l)
<1>1. /\ a \in EdgeIds /\ IsGraph(graph) /\ SeqSet(Entering(l)) = EntersAt(a)
      /\ EntersAt(a) \subseteq Across(a) /\ Kept(a - 1) \subseteq Across(a)
      /\ Kept(a - 1) \cap EntersAt(a) = {}
    BY LevelFacts, FrontierMoves DEF FrontierDone, IsListing, Entering
<1>2. /\ \A v \in Across(a) : v \in Vertices /\ vertex_to_pos[v] \in Slots
      /\ \A v, w \in Across(a) : vertex_to_pos[v] = vertex_to_pos[w] => v = w
    BY <1>1, FrontierSlots
<1>3. /\ DOMAIN d = Slots /\ \A p \in Slots : d[p] \in SlotType
      /\ Blank \in SlotType /\ Blank.indeg = 0 /\ Blank.outdeg = 0
    BY DEF DataArrays, Blank, SlotType
<1>4. e = [p \in Slots |-> IF InSlot(EntersAt(a), p) = {} THEN d[p] ELSE Blank]
    <2>1. e = [p \in DOMAIN d |-> IF InSlot(SeqSet(Entering(l)), p) = {} THEN d[p] ELSE Blank]
        BY DEF Degrees!EnteredDegrees, Degrees!InSlot, InSlot, Degrees!SeqSet, SeqSet,
               Degrees!Entering, Entering, Degrees!EdgeOf, EdgeOf, Degrees!M, M,
               Degrees!Blank, Blank
    <2> QED
        BY <1>1, <1>3, <2>1
<1> HIDE DEF e, a
<1>5. e \in DataArrays
    BY <1>3, <1>4 DEF DataArrays
<1>6. ASSUME NEW v \in EntersAt(a) PROVE Indeg(e, v) = 0 /\ Outdeg(e, v) = 0
    <2>1. InSlot(EntersAt(a), vertex_to_pos[v]) # {} /\ vertex_to_pos[v] \in Slots
        BY <1>1, <1>2 DEF InSlot
    <2> QED
        BY <1>3, <1>4, <2>1 DEF Indeg, Outdeg, At
<1>7. ASSUME NEW v \in Kept(a - 1) PROVE At(e, v) = At(d, v)
    <2>1. InSlot(EntersAt(a), vertex_to_pos[v]) = {} /\ vertex_to_pos[v] \in Slots
        BY <1>1, <1>2 DEF InSlot
    <2> QED
        BY <1>4, <2>1 DEF At
<1> QED
    BY <1>5, <1>6, <1>7 DEF a, e
-----------------------------------------------------------------------------
(***************************************************************************)
(* The array while a search goes on.                                       *)
(***************************************************************************)
\* What the array d says at level l of search s when the edges of F are taken.
ArrayOf(d, l, F, s) ==
    /\ d \in DataArrays
    /\ F \in SUBSET (1..(M - l))
    /\ DegreesOf(d, F, Kept(M - l))
    /\ s # "degrees" => CompsOf(d, F, Kept(M - l), Touched(1, M - l))

ArrayInv ==
    /\ verdict # "none" => phase = "done"
    /\ verdict = "go" => level \in 1..M /\ ArrayOf(data, level, taken, search)

\* A search changes nothing of the frontier.
LEMMA SameFrontier ==
    ASSUME UNCHANGED fmVars
    PROVE  /\ graph' = graph /\ vertex_to_pos' = vertex_to_pos
           /\ DataArrays' = DataArrays /\ M' = M /\ N' = N /\ phase' = phase
           /\ Vertices' = Vertices /\ EdgeIds' = EdgeIds
           /\ \A a : Incident(graph, a)' = Incident(graph, a)
           /\ \A b, c : Touched(b, c)' = Touched(b, c)
           /\ \A F, v : In(F, v)' = In(F, v) /\ Out(F, v)' = Out(F, v)
           /\ \A F, v, w : Linked(F, v, w)' <=> Linked(F, v, w)
<1>1. graph' = graph /\ vertex_to_pos' = vertex_to_pos /\ max_frontier_size' = max_frontier_size
    BY DEF fmVars
<1>2. /\ DataArrays' = DataArrays /\ M' = M /\ Vertices' = Vertices /\ N' = N
      /\ EdgeIds' = EdgeIds /\ phase' = phase
      /\ \A a : Incident(graph, a)' = Incident(graph, a)
    BY <1>1 DEF fmVars, DataArrays, Slots, SlotType, M, Vertices, N, EdgeIds, Incident
<1>3. \A b, c : Touched(b, c)' = Touched(b, c)
    BY <1>1, <1>2 DEF Touched
<1>4. \A F, v : InEdges(F, v)' = InEdges(F, v) /\ OutEdges(F, v)' = OutEdges(F, v)
    BY <1>1 DEF InEdges, OutEdges
<1>5. \A F, v : In(F, v)' = In(F, v) /\ Out(F, v)' = Out(F, v)
    BY <1>4 DEF In, Out
<1>6. \A F, v, w : Linked(F, v, w)' <=> Linked(F, v, w)
    BY <1>2 DEF Linked
<1> QED
    BY <1>1, <1>2, <1>3, <1>5, <1>6

LEMMA SameArrays ==
    ASSUME UNCHANGED fmVars, ArrayOf(data', level', taken', search')
    PROVE  ArrayOf(data, level, taken, search)'
<1>1. \A b : Kept(b)' = Kept(b)
    BY SameFrontier DEF Kept
<1>2. \A d, v : At(d, v)' = At(d, v)
    BY SameFrontier DEF At
<1>3. /\ \A d, F, Q : DegreesOf(d, F, Q)' <=> DegreesOf(d, F, Q)
      /\ \A d, F, Q, W : CompsOf(d, F, Q, W)' <=> CompsOf(d, F, Q, W)
    BY <1>2, SameFrontier DEF DegreesOf, CompsOf, Indeg, Outdeg, Comp
<1> QED
    BY <1>1, <1>3, SameFrontier DEF ArrayOf

LEMMA MadeArray ==
    ASSUME FrontierDone, NEW l \in 1..M, NEW d, NEW F, NEW s, ArrayOf(d, l, F, s), s # "degrees",
           NEW value \in {0, 1}, NEW G, G = IF value = 1 THEN F \cup {EdgeOf(l)} ELSE F
    PROVE  /\ Made(d, l, value) \in DataArrays
           /\ G \in SUBSET (1..EdgeOf(l))
           /\ DegreesOf(Made(d, l, value), G, Across(EdgeOf(l)))
           /\ CompsOf(Made(d, l, value), G, Across(EdgeOf(l)), Touched(1, EdgeOf(l)))
<1> DEFINE a == EdgeOf(l)
           d0 == Entered(d, l)
           d1 == CountEdge(d0, l)
           d2 == Joined(d1, l)
<1>1. a \in EdgeIds /\ a - 1 = M - l /\ IsGraph(graph)
    BY LevelFacts DEF FrontierDone
<1>2. /\ d \in DataArrays /\ F \in SUBSET (1..(a - 1)) /\ DegreesOf(d, F, Kept(a - 1))
      /\ CompsOf(d, F, Kept(a - 1), Touched(1, a - 1))
    BY <1>1 DEF ArrayOf
<1>3. F \in SUBSET (1..a) /\ F \cup {a} \in SUBSET (1..a)
    BY <1>1, <1>2, EarlierEdges
<1>4. d0 \in DataArrays /\ DegreesOf(d0, F, Across(a)) /\ CompsOf(d0, F, Across(a), Touched(1, a))
    BY <1>2, EnteredFacts, EnteredKeeps
<1> HIDE DEF a, d0
<1>5. /\ d1 \in DataArrays /\ DegreesOf(d1, F \cup {a}, Across(a))
      /\ CompsOf(d1, F, Across(a), Touched(1, a))
    BY <1>2, <1>4, CountEdgeFacts, CountEdgeKeeps DEF a
<1> HIDE DEF d1
<1>6. /\ d2 \in DataArrays /\ DegreesOf(d2, F \cup {a}, Across(a))
      /\ CompsOf(d2, F \cup {a}, Across(a), Touched(1, a))
    BY <1>2, <1>5, JoinedFacts, JoinedKeeps DEF a
<1> HIDE DEF d2
<1>7. CASE value = 1
    BY <1>3, <1>6, <1>7 DEF Made, d0, d1, d2, a
<1>8. CASE value = 0
    BY <1>3, <1>4, <1>8 DEF Made, d0, a
<1> QED
    BY <1>7, <1>8

LEMMA DegreesMadeArray ==
    ASSUME FrontierDone, NEW l \in 1..M, NEW d, NEW F, ArrayOf(d, l, F, "degrees"),
           NEW value \in {0, 1}, NEW G, G = IF value = 1 THEN F \cup {EdgeOf(l)} ELSE F
    PROVE  /\ DegreesMade(d, l, value) \in DataArrays
           /\ G \in SUBSET (1..EdgeOf(l))
           /\ DegreesOf(Degrees!EnteredDegrees(d, l), F, Across(EdgeOf(l)))
           /\ DegreesOf(DegreesMade(d, l, value), G, Across(EdgeOf(l)))
<1> DEFINE a == EdgeOf(l)
           d0 == Degrees!EnteredDegrees(d, l)
           d1 == CountEdge(d0, l)
<1>1. a \in EdgeIds /\ a - 1 = M - l /\ IsGraph(graph)
    BY LevelFacts DEF FrontierDone
<1>2. d \in DataArrays /\ F \in SUBSET (1..(a - 1)) /\ DegreesOf(d, F, Kept(a - 1))
    BY <1>1 DEF ArrayOf
<1>3. /\ F \in SUBSET (1..a) /\ F \cup {a} \in SUBSET (1..a) /\ F \in SUBSET EdgeIds
      /\ \A v \in EntersAt(a) : \A b \in F : v \notin Incident(graph, b)
    BY <1>1, <1>2, EarlierEdges
<1>4. d0 \in DataArrays /\ DegreesOf(d0, F, Across(a))
    <2>1. /\ d0 \in DataArrays
          /\ \A v \in EntersAt(a) : Indeg(d0, v) = 0 /\ Outdeg(d0, v) = 0
          /\ \A v \in Kept(a - 1) : At(d0, v) = At(d, v)
        BY <1>2, EnteredDegreesFacts
    <2>2. \A v \in EntersAt(a) : In(F, v) = 0 /\ Out(F, v) = 0
        BY <1>1, <1>3, DegreeFacts
    <2>3. Across(a) = Kept(a - 1) \cup EntersAt(a)
        BY <1>1, FrontierMoves
    <2> HIDE DEF d0, a
    <2> QED
        BY <1>2, <2>1, <2>2, <2>3 DEF DegreesOf, Indeg, Outdeg
<1> HIDE DEF a, d0
<1>5. d1 \in DataArrays /\ DegreesOf(d1, F \cup {a}, Across(a))
    BY <1>2, <1>4, CountEdgeFacts, CountEdgeKeeps DEF a
<1> HIDE DEF d1
<1>6. CASE value = 1
    BY <1>3, <1>4, <1>5, <1>6 DEF DegreesMade, d0, d1, a
<1>7. CASE value = 0
    BY <1>3, <1>4, <1>7 DEF DegreesMade, d0, a
<1> QED
    BY <1>6, <1>7

\* The taken edges after getChild.
Taken1(value) == IF value = 1 THEN taken \cup {EdgeOf(level)} ELSE taken

\* Vertices leave, and the search goes on.
LEMMA FollowArray ==
    ASSUME FrontierDone, level \in 1..M, NEW value,
           NEW d \in DataArrays, NEW judged, NEW erased \in SlotType, NEW bottom, bottom # "go",
           DOMAIN judged = DOMAIN Leaving(level),
           Taken1(value) \in SUBSET (1..EdgeOf(level)),
           DegreesOf(d, Taken1(value), Across(EdgeOf(level))),
           search # "degrees" =>
                CompsOf(d, Taken1(value), Across(EdgeOf(level)), Touched(1, EdgeOf(level))),
           Follow(LeaveAll(d, level, judged, erased), value, bottom), verdict' = "go"
    PROVE  level' \in 1..M /\ ArrayOf(data', level', taken', search)
<1> DEFINE a == EdgeOf(level)
           n == Len(Leaving(level))
           all == LeaveAll(d, level, judged, erased)
<1>1. a \in EdgeIds /\ IsGraph(graph) /\ M \in Nat /\ a - 1 = M - level
    BY LevelFacts, GraphFacts DEF FrontierDone
<1>2. /\ all.ret = "go" /\ level # 1 /\ data' = all.data /\ level' = level - 1
      /\ taken' = Taken1(value)
    BY DEF Follow, Taken1
<1>3. DOMAIN judged = 1..n
    BY <1>1 DEF FrontierDone, IsListing, Leaving
<1>4. data' = WithLeft(d, level, n, erased)
    BY <1>2, <1>3, LeaveAllFacts
<1>5. level' \in 1..M /\ M - level' = a
    <2>1. level \in Int /\ level >= 1 /\ level <= M /\ a \in Int
        BY <1>1 DEF EdgeIds
    <2> HIDE DEF a
    <2> QED
        BY <1>1, <1>2, <2>1
<1>6. /\ data' \in DataArrays
      /\ DegreesOf(data', Taken1(value), Kept(a))
      /\ search # "degrees" => CompsOf(data', Taken1(value), Kept(a), Touched(1, a))
    BY <1>4, LeaveKeeps
<1> QED
    BY <1>2, <1>5, <1>6 DEF ArrayOf

LEMMA ErasedTypes ==
    /\ Blank \in SlotType /\ Erased \in SlotType
    /\ Blank.indeg = 0 /\ Blank.outdeg = 0
BY DEF Blank, Erased, SlotType

LEMMA JudgedDomains ==
    ASSUME NEW d, NEW l
    PROVE  /\ DOMAIN CyclesJudged(d, l) = DOMAIN Leaving(l)
           /\ DOMAIN HamiltonianJudged(d, l) = DOMAIN Leaving(l)
           /\ DOMAIN PathsJudged(d, l) = DOMAIN Leaving(l)
           /\ DOMAIN ForestsJudged(d, l) = DOMAIN Leaving(l)
           /\ DOMAIN TreesJudged(d, l) = DOMAIN Leaving(l)
           /\ DOMAIN DegreesJudged(d, l) = DOMAIN Leaving(l)
BY DEF CyclesJudged, HamiltonianJudged, PathsJudged, ForestsJudged, TreesJudged, DegreesJudged

LEMMA FollowZero ==
    ASSUME NEW b, NEW value, NEW bottom, Follow([ret |-> "zero", data |-> b], value, bottom)
    PROVE  verdict' = "zero" /\ data' = b /\ level' = level - 1 /\ taken' = Taken1(value)
BY DEF Follow, Taken1

LEMMA ChildArray ==
    ASSUME FrontierDone, ArrayInv, NEW value \in {0, 1}, GetChild(value)
    PROVE  ArrayInv'
<1>1. UNCHANGED fmVars /\ search' = search
    BY DEF GetChild
<1>2. verdict = "go"
    BY CyclesChild, HamiltonianCyclesChild, PathsChild, ForestsChild, TreesChild, DegreesChild
       DEF GetChild
<1>3. /\ level \in 1..M /\ ArrayOf(data, level, taken, search) /\ phase = "done"
      /\ taken \in SUBSET (1..(M - level))
    BY <1>2 DEF ArrayInv, ArrayOf
<1>4. phase' = "done" /\ M' = M
    BY <1>1, <1>3 DEF fmVars, M
<1>5. SUFFICES ASSUME verdict' = "go"
               PROVE  level' \in 1..M /\ ArrayOf(data', level', taken', search)
    BY <1>1, <1>4, SameArrays DEF ArrayInv
<1>6. CASE search # "degrees"
    <2> DEFINE d == Made(data, level, value)
    <2>1. /\ d \in DataArrays /\ Taken1(value) \in SUBSET (1..EdgeOf(level))
          /\ DegreesOf(d, Taken1(value), Across(EdgeOf(level)))
          /\ CompsOf(d, Taken1(value), Across(EdgeOf(level)), Touched(1, EdgeOf(level)))
        BY <1>3, <1>6, MadeArray DEF Taken1
    <2>2. \E judged, erased, bottom :
            /\ Follow(LeaveAll(d, level, judged, erased), value, bottom)
            /\ DOMAIN judged = DOMAIN Leaving(level) /\ erased \in SlotType /\ bottom # "go"
        <3>1. CASE Cycles!Child(value)
            <4>1. Follow(LeaveAll(d, level, CyclesJudged(d, level), Erased), value, "zero")
                BY <3>1, CyclesChild
            <4>2. DOMAIN CyclesJudged(d, level) = DOMAIN Leaving(level)
                BY JudgedDomains
            <4> QED
                BY <4>1, <4>2, ErasedTypes
        <3>2. CASE HamiltonianCycles!Child(value)
            <4>1. Follow(LeaveAll(d, level, HamiltonianJudged(d, level), Erased), value, "zero")
                BY <3>2, HamiltonianCyclesChild
            <4>2. DOMAIN HamiltonianJudged(d, level) = DOMAIN Leaving(level)
                BY JudgedDomains
            <4> QED
                BY <4>1, <4>2, ErasedTypes
        <3>3. CASE Paths!Child(value)
            <4>1. Follow(LeaveAll(d, level, PathsJudged(d, level), Erased), value, "zero")
                BY <3>3, PathsChild
            <4>2. DOMAIN PathsJudged(d, level) = DOMAIN Leaving(level)
                BY JudgedDomains
            <4> QED
                BY <4>1, <4>2, ErasedTypes
        <3>4. CASE Forests!Child(value)
            <4>1. Follow(LeaveAll(d, level, ForestsJudged(d, level), Blank), value, "one")
                <5>1. \A b : ~Follow([ret |-> "zero", data |-> b], value, "one")
                    BY <1>5, FollowZero
                <5> QED
                    BY <3>4, <5>1, ForestsChild
            <4>2. DOMAIN ForestsJudged(d, level) = DOMAIN Leaving(level)
                BY JudgedDomains
            <4> QED
                BY <4>1, <4>2, ErasedTypes
        <3>5. CASE Trees!Child(value)
            <4>1. Follow(LeaveAll(d, level, TreesJudged(d, level), Blank), value, "one")
                <5>1. \A b : ~Follow([ret |-> "zero", data |-> b], value, "one")
                    BY <1>5, FollowZero
                <5> QED
                    BY <3>5, <5>1, TreesChild
            <4>2. DOMAIN TreesJudged(d, level) = DOMAIN Leaving(level)
                BY JudgedDomains
            <4> QED
                BY <4>1, <4>2, ErasedTypes
        <3> QED
            BY <1>6, <3>1, <3>2, <3>3, <3>4, <3>5 DEF GetChild
    <2> HIDE DEF d
    <2> QED
        BY <1>3, <1>5, <2>1, <2>2, FollowArray
<1>7. CASE search = "degrees"
    <2> DEFINE d == DegreesMade(data, level, value)
    <2>1. /\ d \in DataArrays /\ Taken1(value) \in SUBSET (1..EdgeOf(level))
          /\ DegreesOf(d, Taken1(value), Across(EdgeOf(level)))
        BY <1>3, <1>7, DegreesMadeArray DEF Taken1
    <2>2. Degrees!Child(value)
        BY <1>7 DEF GetChild
    <2>3. /\ Follow(LeaveAll(d, level, DegreesJudged(d, level), Blank), value, "one")
          /\ DOMAIN DegreesJudged(d, level) = DOMAIN Leaving(level)
        <3>1. \A b : ~Follow([ret |-> "zero", data |-> b], value, "one")
            BY <1>5, FollowZero
        <3> QED
            BY <2>2, <3>1, DegreesChild, JudgedDomains
    <2> HIDE DEF d
    <2> QED
        BY <1>3, <1>5, <1>7, <2>1, <2>3, ErasedTypes, FollowArray
<1> QED
    BY <1>6, <1>7

LEMMA RootArray ==
    ASSUME FrontierDone, GetRoot
    PROVE  ArrayInv'
<1>1. /\ UNCHANGED fmVars /\ phase = "done" /\ data' = [p \in Slots |-> Blank]
      /\ level' = M /\ taken' = {}
    BY DEF GetRoot, Root
<1>2. M \in Nat \ {0} /\ M' = M /\ phase' = "done" /\ M - M = 0
    BY <1>1, GraphFacts DEF FrontierDone, fmVars, M
<1>3. data' \in DataArrays
    BY <1>1, ErasedTypes DEF DataArrays
<1>4. Kept(0) = {}
    BY TouchedFacts DEF Kept, FrontierDone
<1>5. ArrayOf(data', level', taken', search')
    BY <1>1, <1>2, <1>3, <1>4 DEF ArrayOf, DegreesOf, CompsOf
<1> QED
    BY <1>1, <1>2, <1>5, SameArrays DEF ArrayInv

DoneInv == phase = "done" => FrontierDone
StartInv == phase # "done" => search = "none"

LEMMA ArrayStep ==
    ASSUME DoneInv, ArrayInv, [NextGraphSearch]_vars
    PROVE  ArrayInv'
<1>1. CASE ConstructFM /\ UNCHANGED <<search, args>>
    <2>1. phase # "done"
        BY <1>1 DEF ConstructFM, Construct, ComputeEntering, ComputeLeaving, Enter, Record,
                    Leave, NextEdge
    <2>2. verdict' = verdict
        BY <1>1 DEF ConstructFM, searchVars
    <2> QED
        BY <2>1, <2>2 DEF ArrayInv
<1>2. CASE GetRoot
    BY <1>2, RootArray DEF DoneInv, GetRoot
<1>3. ASSUME NEW value \in {0, 1}, GetChild(value)
      PROVE  ArrayInv'
    <2>1. verdict = "go"
        BY <1>3, CyclesChild, HamiltonianCyclesChild, PathsChild, ForestsChild, TreesChild,
           DegreesChild DEF GetChild
    <2> QED
        BY <1>3, <2>1, ChildArray DEF ArrayInv, DoneInv
<1>4. CASE UNCHANGED vars
    <2>1. /\ UNCHANGED fmVars /\ data' = data /\ level' = level /\ taken' = taken
          /\ verdict' = verdict /\ search' = search
        BY <1>4 DEF vars, searchVars
    <2>2. M' = M /\ phase' = phase
        BY <2>1 DEF fmVars, M
    <2> QED
        BY <2>1, <2>2, SameArrays DEF ArrayInv
<1> QED
    BY <1>1, <1>2, <1>3, <1>4 DEF NextGraphSearch, ZeroArc, OneArc

\* A search runs the constructor of FrontierManager and then leaves it alone.
LEMMA SearchConstructs == SpecGraphSearch => Spec
<1>1. InitGraphSearch => Init
    BY DEF InitGraphSearch
<1>2. [NextGraphSearch]_vars => [Construct]_fmVars
    BY DEF NextGraphSearch, vars, ConstructFM, GetRoot, ZeroArc, OneArc, GetChild
<1> QED
    BY <1>1, <1>2, PTL DEF SpecGraphSearch, Spec

\* No search begins before the constructor is done.
LEMMA StartStep ==
    ASSUME StartInv, [NextGraphSearch]_vars
    PROVE  StartInv'
<1>1. CASE ConstructFM /\ UNCHANGED <<search, args>>
    <2>1. phase # "done"
        BY <1>1 DEF ConstructFM, Construct, ComputeEntering, ComputeLeaving, Enter, Record,
                    Leave, NextEdge
    <2> QED
        BY <1>1, <2>1 DEF StartInv
<1>2. CASE GetRoot
    BY <1>2, SameFrontier DEF GetRoot, StartInv
<1>3. CASE GetChild(0) \/ GetChild(1)
    BY <1>3, SameFrontier DEF GetChild, StartInv
<1>4. CASE UNCHANGED vars
    BY <1>4 DEF vars, fmVars, StartInv
<1> QED
    BY <1>1, <1>2, <1>3, <1>4 DEF NextGraphSearch, ZeroArc, OneArc

LEMMA SearchInvariance == SpecGraphSearch => [](DoneInv /\ StartInv /\ ArrayInv)
<1>1. IInv /\ SlotsBounded /\ SlotTablesAgree => DoneInv
    BY ConstructorDone DEF DoneInv
<1>2. InitGraphSearch => ArrayInv
    BY DEF InitGraphSearch, InitSearch, ArrayInv
<1>3. DoneInv /\ ArrayInv /\ [NextGraphSearch]_vars => ArrayInv'
    BY ArrayStep
<1>5. InitGraphSearch => StartInv
    BY DEF InitGraphSearch, StartInv
<1>6. StartInv /\ [NextGraphSearch]_vars => StartInv'
    BY StartStep
<1>4. SpecGraphSearch => []DoneInv
    BY <1>1, SearchConstructs, Invariance, SlotsFit, TablesCorrect, PTL
<1> QED
    BY <1>2, <1>3, <1>4, <1>5, <1>6, PTL DEF SpecGraphSearch

\* The vertices whose data a search still needs.
LEMMA OnFrontierIs ==
    ASSUME FrontierDone, level \in 1..M
    PROVE  OnFrontier = Kept(M - level)
<1>1. M \in Nat \ {0} /\ IsGraph(graph)
    BY GraphFacts DEF FrontierDone
<1>2. CASE level = M
    <2>1. M - level = 0 /\ Kept(0) = {}
        BY <1>1, <1>2, TouchedFacts DEF Kept
    <2> QED
        BY <1>2, <2>1 DEF OnFrontier
<1>3. CASE level # M
    <2>1. M - level \in EdgeIds /\ EdgeOf(level + 1) = M - level
        BY <1>1, <1>3 DEF EdgeIds, EdgeOf
    <2> QED
        BY <1>3, <2>1 DEF OnFrontier, FrontierDone
<1> QED
    BY <1>2, <1>3

(***************************************************************************)
(* For every digraph, every search and all arguments: at each level the    *)
(* slot of each vertex on the frontier holds its degrees, and, but for the *)
(* degree search, a component number that two of them share exactly when   *)
(* taken edges link them.                                                  *)
(***************************************************************************)
THEOREM SearchDataCorrect == SpecGraphSearch => []DataRight
<1>1. DoneInv /\ ArrayInv => DataRight
    <2> SUFFICES ASSUME DoneInv, ArrayInv, verdict = "go"
                 PROVE  DegreesKept /\ (search # "degrees" => ComponentsKept)
        BY DEF DataRight
    <2>1. level \in 1..M /\ ArrayOf(data, level, taken, search) /\ FrontierDone
        BY DEF DoneInv, ArrayInv
    <2>2. OnFrontier = Kept(M - level)
        BY <2>1, OnFrontierIs
    <2> QED
        BY <2>1, <2>2 DEF ArrayOf, DegreesOf, CompsOf, DegreesKept, ComponentsKept
<1> QED
    BY <1>1, SearchInvariance, PTL
-----------------------------------------------------------------------------
(***************************************************************************)
(* Terminals.                                                              *)
(***************************************************************************)
\* The sets of edges that agree with T on the edges up to b.
Completing(b, T) == {T \cup G : G \in SUBSET (EdgeIds \ (1..b))}

\* The vertices all of whose edges are numbered up to b.
Settled(b) == Touched(1, b) \ Touched(b + 1, M)

LEMMA SettledFacts ==
    ASSUME IsGraph(graph), NEW a \in EdgeIds
    PROVE  /\ Settled(a) = Settled(a - 1) \cup LeavesAt(a)
           /\ Settled(0) = {} /\ Settled(M) = Vertices
           /\ \A v \in Settled(a - 1) : v \notin Incident(graph, a)
           /\ LeavesAt(a) \cap Touched(a + 1, M) = {}
<1>1. /\ Touched(a, a) = Incident(graph, a)
      /\ Touched(1, a) = Touched(1, a - 1) \cup Incident(graph, a)
      /\ Touched(a, M) = Touched(a + 1, M) \cup Incident(graph, a)
      /\ Touched(1, 0) = {} /\ Touched(M + 1, M) = {} /\ Touched(1, M) = Vertices
    BY TouchedFacts, EveryVertexTouched
<1>2. (a - 1) + 1 = a /\ 0 + 1 = 1
    BY DEF EdgeIds
<1> QED
    BY <1>1, <1>2 DEF Settled, LeavesAt

\* What later edges can change.
LEMMA CompletionDegrees ==
    ASSUME IsGraph(graph), NEW b \in 0..M, NEW T \in SUBSET (1..b), NEW F \in Completing(b, T)
    PROVE  /\ F \in SUBSET EdgeIds /\ T \subseteq F
           /\ \A a \in F : a \in 1..b => a \in T
           /\ \A v : /\ In(T, v) \in Nat /\ In(F, v) \in Nat /\ In(T, v) <= In(F, v)
                     /\ Out(T, v) \in Nat /\ Out(F, v) \in Nat /\ Out(T, v) <= Out(F, v)
           /\ \A v : v \notin Touched(b + 1, M) => In(F, v) = In(T, v) /\ Out(F, v) = Out(T, v)
<1>1. PICK G : G \subseteq EdgeIds \ (1..b) /\ F = T \cup G
    BY DEF Completing
<1>2. M \in Nat /\ T \in SUBSET EdgeIds /\ F \in SUBSET EdgeIds
    BY <1>1, GraphFacts DEF EdgeIds
<1>3. IsFiniteSet(F) /\ IsFiniteSet(T)
    BY <1>2, DegreeFacts
<1>4. ASSUME NEW v
      PROVE  /\ In(T, v) \in Nat /\ In(F, v) \in Nat /\ In(T, v) <= In(F, v)
             /\ Out(T, v) \in Nat /\ Out(F, v) \in Nat /\ Out(T, v) <= Out(F, v)
    <2>1. /\ InEdges(T, v) \subseteq InEdges(F, v) /\ InEdges(F, v) \subseteq F
          /\ OutEdges(T, v) \subseteq OutEdges(F, v) /\ OutEdges(F, v) \subseteq F
        BY <1>1 DEF InEdges, OutEdges
    <2>2. IsFiniteSet(InEdges(F, v)) /\ IsFiniteSet(OutEdges(F, v))
        BY <1>3, <2>1, FS_Subset
    <2>3. /\ Cardinality(InEdges(T, v)) <= Cardinality(InEdges(F, v))
          /\ Cardinality(OutEdges(T, v)) <= Cardinality(OutEdges(F, v))
        BY <2>1, <2>2, FS_Subset
    <2> QED
        BY <1>2, <2>3, DegreeFacts DEF In, Out
<1>5. ASSUME NEW v, v \notin Touched(b + 1, M)
      PROVE  In(F, v) = In(T, v) /\ Out(F, v) = Out(T, v)
    <2>1. \A a \in G : a \in (b + 1)..M /\ v \notin Incident(graph, a)
        <3> SUFFICES ASSUME NEW a \in G PROVE a \in (b + 1)..M /\ v \notin Incident(graph, a)
            OBVIOUS
        <3>1. a \in EdgeIds /\ a \in (b + 1)..M
            BY <1>1, <1>2 DEF EdgeIds
        <3> QED
            BY <1>5, <3>1, GraphFacts DEF Touched
    <2>2. InEdges(F, v) = InEdges(T, v) /\ OutEdges(F, v) = OutEdges(T, v)
        BY <1>1, <2>1 DEF InEdges, OutEdges, Incident
    <2> QED
        BY <2>2 DEF In, Out
<1> QED
    BY <1>1, <1>2, <1>4, <1>5

\* What the check of the k-th leaving vertex reads.
LEMMA LeaverFacts ==
    ASSUME FrontierDone, NEW l \in 1..M, NEW a, a = EdgeOf(l), NEW d \in DataArrays,
           NEW erased \in SlotType, NEW k \in DOMAIN Leaving(l)
    PROVE  LET v == Leaving(l)[k]
               e == WithLeft(d, l, k - 1, erased)
           IN  /\ v \in LeavesAt(a) /\ v \in Across(a) /\ v \in Vertices
               /\ At(e, v) = At(d, v)
               /\ \A w \in Others(l, k) : w \in Across(a) /\ w # v /\ At(e, w) = At(d, w)
               /\ Others(l, k) = Across(a) \ FirstLeaving(l, k)
               /\ FirstLeaving(l, k) \subseteq LeavesAt(a)
<1> DEFINE v == Leaving(l)[k]
           e == WithLeft(d, l, k - 1, erased)
           n == Len(Leaving(l))
<1>1. /\ a \in EdgeIds /\ IsListing(Leaving(l), LeavesAt(a)) /\ LeavesAt(a) \subseteq Across(a)
      /\ Across(a) \subseteq Vertices /\ Frontier(l) = Across(a)
    BY LevelFacts, FrontierMoves DEF FrontierDone, Leaving, Frontier
<1>2. /\ k \in 1..n /\ n \in Nat /\ 1..(k - 1) \subseteq 1..n /\ 1..k \subseteq 1..n
      /\ k \notin 1..(k - 1) /\ k \in 1..k /\ 1..(k - 1) \subseteq 1..k
    BY <1>1 DEF IsListing
<1>3. v \in LeavesAt(a) /\ \A x \in 1..n : Leaving(l)[x] \in LeavesAt(a)
    BY <1>1, <1>2 DEF IsListing
<1>4. v \notin FirstLeaving(l, k - 1)
    BY <1>1, <1>2 DEF FirstLeaving, IsListing
<1>5. \A w \in Across(a) \ FirstLeaving(l, k - 1) : At(e, w) = At(d, w)
    BY <1>2, WithLeftFacts
<1>6. Others(l, k) = Across(a) \ FirstLeaving(l, k)
    BY <1>1 DEF Others
<1>7. v \in FirstLeaving(l, k) /\ FirstLeaving(l, k - 1) \subseteq FirstLeaving(l, k)
    BY <1>2 DEF FirstLeaving
<1>8. FirstLeaving(l, k) \subseteq LeavesAt(a)
    BY <1>2, <1>3 DEF FirstLeaving
<1> HIDE DEF v, e
<1> QED
    BY <1>1, <1>3, <1>4, <1>5, <1>6, <1>7, <1>8 DEF v, e
-----------------------------------------------------------------------------
(***************************************************************************)
(* The degree search.                                                      *)
(***************************************************************************)
DegreesAsked(F) ==
    \A v \in Vertices : In(F, v) \in args.indeg[v] /\ Out(F, v) \in args.outdeg[v]

\* With a degree a range has every smaller one but 0.
Gapless(R) == \A n \in R : 1..n \subseteq R
GaplessRanges == \A R \in Ranges : Gapless(R)

DegreesInv ==
    search = "degrees" =>
        /\ args \in Args("degrees")
        /\ verdict = "go" => \A v \in Settled(M - level) :
                                /\ In(taken, v) \in args.indeg[v]
                                /\ Out(taken, v) \in args.outdeg[v]
        /\ verdict = "zero" /\ GaplessRanges =>
                \A F \in Completing(M - level, taken) : ~DegreesAsked(F)
        /\ verdict = "one" => level = 0 /\ taken \in SUBSET EdgeIds /\ DegreesAsked(taken)

LEMMA DegreesCopy ==
    /\ \A d, l : Degrees!MayTake(d, l) <=>
                    /\ Outdeg(d, TailOf(l)) + 1 \in args.outdeg[TailOf(l)]
                    /\ Indeg(d, HeadOf(l)) + 1 \in args.indeg[HeadOf(l)]
    /\ \A d, l, k : Degrees!Judge(d, l, k) =
                        IF /\ Indeg(d, Leaving(l)[k]) \in args.indeg[Leaving(l)[k]]
                           /\ Outdeg(d, Leaving(l)[k]) \in args.outdeg[Leaving(l)[k]]
                        THEN "go" ELSE "zero"
BY DEF Degrees!MayTake, Degrees!Judge, Degrees!Indeg, Degrees!Outdeg, Degrees!At, Degrees!TailOf,
       Degrees!HeadOf, Degrees!Leaving, Degrees!EdgeOf, Degrees!M, Indeg, Outdeg, At, TailOf,
       HeadOf, Leaving, EdgeOf, M

\* The ranges of the arguments.
LEMMA DegreesArgs ==
    ASSUME IsGraph(graph), GaplessRanges, args \in Args("degrees"), NEW v \in Vertices
    PROVE  Gapless(args.indeg[v]) /\ Gapless(args.outdeg[v])
<1>1. Gapless(AnyDegree)
    BY GraphFacts DEF Gapless, AnyDegree
<1>2. \A f \in Constraints \cup Unconstrained : Gapless(f[v])
    BY <1>1 DEF GaplessRanges, Constraints, Unconstrained
<1>3. /\ args.indeg \in Constraints \cup Unconstrained
      /\ args.outdeg \in Constraints \cup Unconstrained
    BY DEF Args
<1> QED
    BY <1>2, <1>3

\* A choice that is refused before the edge is taken.
LEMMA RefusalRight ==
    ASSUME FrontierDone, GaplessRanges, args \in Args("degrees"), NEW l \in 1..M,
           NEW d, NEW T \in SUBSET (1..(EdgeOf(l) - 1)), DegreesOf(d, T, Across(EdgeOf(l))),
           ~Degrees!MayTake(d, l),
           NEW F \in Completing(EdgeOf(l), T \cup {EdgeOf(l)})
    PROVE  ~DegreesAsked(F)
<1> DEFINE a == EdgeOf(l)
           t == TailOf(l)
           h == HeadOf(l)
<1>1. /\ a \in EdgeIds /\ a \in 0..M /\ IsGraph(graph) /\ t = Tail1(a) /\ h = Head1(a)
      /\ t \in Across(a) /\ h \in Across(a) /\ t \in Vertices /\ h \in Vertices
    BY LevelFacts, FrontierMoves, GraphFacts DEF FrontierDone, EdgeIds
<1>2. T \in SUBSET EdgeIds /\ a \in EdgeIds \ T /\ T \cup {a} \in SUBSET (1..a)
    BY <1>1, EarlierEdges
<1>3. /\ In(T \cup {a}, h) = In(T, h) + 1 /\ Out(T \cup {a}, t) = Out(T, t) + 1
      /\ In(T, h) \in Nat /\ Out(T, t) \in Nat
    <2>1. /\ In(T \cup {a}, h) = In(T, h) + One(h, Head1(a))
          /\ Out(T \cup {a}, t) = Out(T, t) + One(t, Tail1(a))
          /\ In(T, h) \in Nat /\ Out(T, t) \in Nat
        BY <1>1, <1>2, DegreeFacts
    <2> QED
        BY <1>1, <2>1 DEF One
<1>4. /\ In(F, h) \in Nat /\ In(T \cup {a}, h) <= In(F, h)
      /\ Out(F, t) \in Nat /\ Out(T \cup {a}, t) <= Out(F, t)
    BY <1>1, <1>2, CompletionDegrees
<1>5. Indeg(d, h) = In(T, h) /\ Outdeg(d, t) = Out(T, t)
    BY <1>1 DEF DegreesOf
<1>6. \/ Out(T, t) + 1 \notin args.outdeg[t]
      \/ In(T, h) + 1 \notin args.indeg[h]
    BY <1>5, DegreesCopy
<1> HIDE DEF t, h, a
<1>7. Gapless(args.indeg[h]) /\ Gapless(args.outdeg[t])
    BY <1>1, DegreesArgs
<1>8. Out(F, t) \in args.outdeg[t] => Out(T, t) + 1 \in args.outdeg[t]
    BY <1>3, <1>4, <1>7 DEF Gapless
<1>9. In(F, h) \in args.indeg[h] => In(T, h) + 1 \in args.indeg[h]
    BY <1>3, <1>4, <1>7 DEF Gapless
<1> QED
    BY <1>1, <1>6, <1>8, <1>9 DEF DegreesAsked

\* The check of a leaving vertex reads its degrees in every completion.
LEMMA DegreesJudge ==
    ASSUME FrontierDone, NEW l \in 1..M, NEW d \in DataArrays, NEW k \in DOMAIN Leaving(l),
           NEW T \in SUBSET (1..EdgeOf(l)), DegreesOf(d, T, Across(EdgeOf(l)))
    PROVE  LET v == Leaving(l)[k]
               ok == In(T, v) \in args.indeg[v] /\ Out(T, v) \in args.outdeg[v]
           IN  /\ DegreesJudged(d, l)[k] = IF ok THEN "go" ELSE "zero"
               /\ \A F \in Completing(EdgeOf(l), T) : DegreesAsked(F) => ok
<1> DEFINE a == EdgeOf(l)
           v == Leaving(l)[k]
           e == WithLeft(d, l, k - 1, Blank)
<1>1. a \in EdgeIds /\ a \in 0..M /\ IsGraph(graph)
    BY LevelFacts, GraphFacts DEF FrontierDone, EdgeIds
<1>2. v \in LeavesAt(a) /\ v \in Across(a) /\ v \in Vertices /\ At(e, v) = At(d, v)
    BY LeaverFacts, ErasedTypes
<1>3. Indeg(e, v) = In(T, v) /\ Outdeg(e, v) = Out(T, v)
    BY <1>2 DEF Indeg, Outdeg, DegreesOf
<1>4. DegreesJudged(d, l)[k] = Degrees!Judge(e, l, k)
    BY DEF DegreesJudged
<1>5. \A F \in Completing(a, T) : In(F, v) = In(T, v) /\ Out(F, v) = Out(T, v)
    <2>1. v \notin Touched(a + 1, M)
        BY <1>1, <1>2, SettledFacts
    <2> QED
        BY <1>1, <2>1, CompletionDegrees
<1> HIDE DEF e, a, v
<1>6. \A F \in Completing(a, T) : DegreesAsked(F) => /\ In(T, v) \in args.indeg[v]
                                                     /\ Out(T, v) \in args.outdeg[v]
    BY <1>2, <1>5 DEF DegreesAsked
<1> QED
    BY <1>3, <1>4, <1>6, DegreesCopy DEF e, a, v

\* Once all leaving vertices have passed, every settled vertex has.
LEMMA DegreesPassed ==
    ASSUME FrontierDone, NEW l \in 1..M, NEW d \in DataArrays,
           NEW T \in SUBSET (1..EdgeOf(l)), DegreesOf(d, T, Across(EdgeOf(l))),
           NEW S \in SUBSET T, T \ S \subseteq {EdgeOf(l)},
           \A v \in Settled(EdgeOf(l) - 1) : /\ In(S, v) \in args.indeg[v]
                                             /\ Out(S, v) \in args.outdeg[v],
           \A k \in DOMAIN DegreesJudged(d, l) : DegreesJudged(d, l)[k] = "go"
    PROVE  \A v \in Settled(EdgeOf(l)) : In(T, v) \in args.indeg[v] /\ Out(T, v) \in args.outdeg[v]
<1> DEFINE a == EdgeOf(l)
<1>1. a \in EdgeIds /\ IsGraph(graph) /\ IsListing(Leaving(l), LeavesAt(a))
    BY LevelFacts DEF FrontierDone, Leaving
<1>2. ASSUME NEW v \in Settled(a - 1)
      PROVE  In(T, v) = In(S, v) /\ Out(T, v) = Out(S, v)
    <2>1. v \notin Incident(graph, a)
        BY <1>1, <1>2, SettledFacts
    <2>2. InEdges(T, v) = InEdges(S, v) /\ OutEdges(T, v) = OutEdges(S, v)
        BY <2>1 DEF InEdges, OutEdges, Incident
    <2> QED
        BY <2>2 DEF In, Out
<1>3. ASSUME NEW v \in LeavesAt(a)
      PROVE  In(T, v) \in args.indeg[v] /\ Out(T, v) \in args.outdeg[v]
    <2>1. PICK k \in DOMAIN Leaving(l) : Leaving(l)[k] = v
        BY <1>1 DEF IsListing, SeqSet
    <2>2. DegreesJudged(d, l)[k] = "go"
        BY <2>1, JudgedDomains
    <2> QED
        BY <2>1, <2>2, DegreesJudge
<1>4. Settled(a) = Settled(a - 1) \cup LeavesAt(a)
    BY <1>1, SettledFacts
<1> QED
    BY <1>2, <1>3, <1>4

LEMMA SameDegrees ==
    ASSUME UNCHANGED fmVars, args' = args
    PROVE  /\ Args("degrees")' = Args("degrees")
           /\ \A F : DegreesAsked(F)' <=> DegreesAsked(F)
           /\ \A b : Settled(b)' = Settled(b)
           /\ \A b, T : Completing(b, T)' = Completing(b, T)
<1>1. Args("degrees")' = Args("degrees")
    BY SameFrontier DEF Args, Constraints, Unconstrained, AnyDegree
<1> QED
    BY <1>1, SameFrontier DEF DegreesAsked, Settled, Completing

LEMMA DegreesChildStep ==
    ASSUME FrontierDone, ArrayInv, DegreesInv, search = "degrees", NEW value \in {0, 1},
           GetChild(value)
    PROVE  DegreesInv'
<1> DEFINE l == level
           a == EdgeOf(l)
           b == Degrees!EnteredDegrees(data, l)
           d == DegreesMade(data, l, value)
           T == Taken1(value)
           J == DegreesJudged(d, l)
           n == Len(Leaving(l))
<1>1. /\ UNCHANGED fmVars /\ search' = search /\ args' = args /\ Degrees!Child(value)
      /\ verdict = "go"
    BY DegreesChild DEF GetChild
<1>2. /\ l \in 1..M /\ ArrayOf(data, l, taken, "degrees") /\ taken \in SUBSET (1..(a - 1))
      /\ a \in EdgeIds /\ a = M - (l - 1) /\ M \in Nat /\ IsGraph(graph) /\ l - 1 \in 0..M
    <2>1. l \in 1..M /\ ArrayOf(data, l, taken, "degrees") /\ IsGraph(graph)
        BY <1>1 DEF ArrayInv, FrontierDone
    <2>2. a \in EdgeIds /\ a - 1 = M - l /\ M \in Nat
        BY <2>1, LevelFacts, GraphFacts
    <2>3. a = M - (l - 1) /\ l - 1 \in 0..M
        BY <2>1, <2>2 DEF EdgeOf
    <2> QED
        BY <2>1, <2>2, <2>3 DEF ArrayOf
<1>3. /\ d \in DataArrays /\ T \in SUBSET (1..a)
      /\ DegreesOf(b, taken, Across(a)) /\ DegreesOf(d, T, Across(a))
    BY <1>2, DegreesMadeArray DEF Taken1
<1>4. /\ args \in Args("degrees")
      /\ \A v \in Settled(a - 1) : In(taken, v) \in args.indeg[v] /\ Out(taken, v) \in args.outdeg[v]
    BY <1>1, <1>2, LevelFacts DEF DegreesInv
<1>5. taken \in SUBSET T /\ T \ taken \subseteq {a}
    BY DEF Taken1
<1>6. \/ /\ value = 1 /\ ~Degrees!MayTake(b, l)
         /\ Follow([ret |-> "zero", data |-> b], value, "one")
      \/ Follow(LeaveAll(d, l, J, Blank), value, "one")
    BY <1>1, DegreesChild
<1>7. DOMAIN J = 1..n /\ DOMAIN J = DOMAIN Leaving(l)
    BY <1>2, JudgedDomains DEF FrontierDone, IsListing, Leaving
<1>8. /\ level' = l - 1 /\ taken' = T
    BY <1>6 DEF Follow, Taken1
<1>9. /\ Args("degrees")' = Args("degrees")
      /\ \A F : DegreesAsked(F)' <=> DegreesAsked(F)
      /\ \A c : Settled(c)' = Settled(c)
      /\ \A c, G : Completing(c, G)' = Completing(c, G)
      /\ \A F, v : In(F, v)' = In(F, v) /\ Out(F, v)' = Out(F, v)
      /\ EdgeIds' = EdgeIds /\ M' = M
    BY <1>1, SameDegrees, SameFrontier
<1> HIDE DEF a, b, d, T, J, n
<1>10. SUFFICES /\ verdict' = "go" => \A v \in Settled(a) : /\ In(T, v) \in args.indeg[v]
                                                            /\ Out(T, v) \in args.outdeg[v]
                /\ verdict' = "zero" /\ GaplessRanges =>
                        \A F \in Completing(a, T) : ~DegreesAsked(F)
                /\ verdict' = "one" => l = 1 /\ DegreesAsked(T)
    <2>1. T \in SUBSET EdgeIds
        BY <1>2, <1>3 DEF EdgeIds
    <2> QED
        BY <1>1, <1>2, <1>4, <1>8, <1>9, <2>1 DEF DegreesInv
<1>11. CASE /\ value = 1 /\ ~Degrees!MayTake(b, l)
            /\ Follow([ret |-> "zero", data |-> b], value, "one")
    <2>1. verdict' = "zero"
        BY <1>11, FollowZero
    <2>2. T = taken \cup {a}
        BY <1>11 DEF Taken1, T, a
    <2>3. ~Degrees!MayTake(b, l)
        BY <1>11
    <2>4. GaplessRanges => \A F \in Completing(a, T) : ~DegreesAsked(F)
        BY <1>2, <1>3, <1>4, <2>2, <2>3, RefusalRight DEF a
    <2> QED
        BY <2>1, <2>4
<1>12. CASE Follow(LeaveAll(d, l, J, Blank), value, "one")
    <2> DEFINE all == LeaveAll(d, l, J, Blank)
    <2>1. verdict' = IF all.ret = "go" /\ l = 1 THEN "one" ELSE all.ret
        BY <1>12 DEF Follow
    <2>2. \/ all.ret = "go" /\ \A k \in DOMAIN J : J[k] = "go"
          \/ \E k \in DOMAIN J : all.ret = J[k] /\ J[k] # "go"
        BY <1>2, <1>7, LeaveAllFacts DEF n
    <2> HIDE DEF all
    <2>3. CASE all.ret = "go" /\ \A k \in DOMAIN J : J[k] = "go"
        <3>1. \A v \in Settled(a) : In(T, v) \in args.indeg[v] /\ Out(T, v) \in args.outdeg[v]
            BY <1>2, <1>3, <1>4, <1>5, <2>3, DegreesPassed DEF J, a
        <3>2. l = 1 => DegreesAsked(T)
            <4>1. l = 1 => a = M
                BY <1>2
            <4> QED
                BY <1>2, <3>1, <4>1, SettledFacts DEF DegreesAsked
        <3> QED
            BY <2>1, <2>3, <3>1, <3>2
    <2>4. CASE \E k \in DOMAIN J : all.ret = J[k] /\ J[k] # "go"
        <3>1. PICK k \in DOMAIN J : all.ret = J[k] /\ J[k] # "go"
            BY <2>4
        <3>2. /\ J[k] = "zero"
              /\ \A F \in Completing(a, T) : ~DegreesAsked(F)
            BY <1>2, <1>3, <1>7, <3>1, DegreesJudge DEF J, a
        <3> QED
            BY <2>1, <3>1, <3>2
    <2> QED
        BY <2>2, <2>3, <2>4
<1> QED
    BY <1>6, <1>11, <1>12

LEMMA DegreesStep ==
    ASSUME DoneInv, StartInv, ArrayInv, DegreesInv, [NextGraphSearch]_vars
    PROVE  DegreesInv'
<1>1. CASE ConstructFM /\ UNCHANGED <<search, args>>
    <2>1. phase # "done"
        BY <1>1 DEF ConstructFM, Construct, ComputeEntering, ComputeLeaving, Enter, Record,
                    Leave, NextEdge
    <2>2. search = "none"
        BY <2>1 DEF StartInv
    <2> QED
        BY <1>1, <2>2 DEF DegreesInv
<1>2. CASE GetRoot
    <2>1. /\ UNCHANGED fmVars /\ args' \in Args(search') /\ verdict' = "go" /\ FrontierDone
          /\ level' = M /\ taken' = {}
        BY <1>2 DEF GetRoot, Root, DoneInv
    <2>2. Args("degrees")' = Args("degrees") /\ M' = M /\ \A c : Settled(c)' = Settled(c)
        <3>1. Args("degrees")' = Args("degrees")
            BY <2>1, SameFrontier DEF Args, Constraints, Unconstrained, AnyDegree
        <3> QED
            BY <2>1, <3>1, SameFrontier DEF Settled
    <2>3. Settled(0) = {} /\ M - M = 0
        BY <2>1, GraphFacts, TouchedFacts DEF Settled, FrontierDone
    <2> QED
        BY <2>1, <2>2, <2>3 DEF DegreesInv
<1>3. ASSUME NEW value \in {0, 1}, GetChild(value)
      PROVE  DegreesInv'
    <2>1. CASE search = "degrees"
        <3>1. verdict = "go"
            BY <1>3, <2>1, DegreesChild DEF GetChild
        <3> QED
            BY <1>3, <2>1, <3>1, DegreesChildStep DEF DoneInv, ArrayInv
    <2>2. CASE search # "degrees"
        BY <1>3, <2>2 DEF GetChild, DegreesInv
    <2> QED
        BY <2>1, <2>2
<1>4. CASE UNCHANGED vars
    <2>1. /\ UNCHANGED fmVars /\ level' = level /\ taken' = taken
          /\ verdict' = verdict /\ search' = search /\ args' = args
        BY <1>4 DEF vars, searchVars
    <2> QED
        BY <2>1, SameDegrees, SameFrontier DEF DegreesInv
<1> QED
    BY <1>1, <1>2, <1>3, <1>4 DEF NextGraphSearch, ZeroArc, OneArc

\* The property in the terms of the search module.
LEMMA DegreesVerdict ==
    ASSUME IsGraph(graph), DegreesInv, search = "degrees"
    PROVE  /\ GaplessRanges => Degrees!DegreeVerdictRight
           /\ verdict = "one" => Degrees!Completions(Degrees!DegreesInRange) = {taken}
<1>1. \A F : Degrees!DegreesInRange(F) <=> DegreesAsked(F)
    <2>1. \A S : Degrees!Cardinality(S) = Cardinality(S)
        BY DEF Degrees!Cardinality, Cardinality
    <2> QED
        BY <2>1 DEF Degrees!DegreesInRange, DegreesAsked, Degrees!In, Degrees!Out,
               Degrees!InEdges, Degrees!OutEdges, Degrees!Vertices, Degrees!N, In, Out,
               InEdges, OutEdges, Vertices, N
<1>2. Degrees!EdgeIds = EdgeIds /\ EdgeIds \ Degrees!Decided = EdgeIds \ (1..(M - level))
    BY DEF Degrees!EdgeIds, EdgeIds, Degrees!Decided, Degrees!M, M
<1>3. Degrees!Completions(Degrees!DegreesInRange) = {F \in Completing(M - level, taken) : DegreesAsked(F)}
    BY <1>1, <1>2 DEF Degrees!Completions, Completing
<1>4. ASSUME verdict = "zero", GaplessRanges
      PROVE  Degrees!Completions(Degrees!DegreesInRange) = {}
    BY <1>3, <1>4 DEF DegreesInv
<1>5. ASSUME verdict = "one" PROVE Degrees!Completions(Degrees!DegreesInRange) = {taken}
    <2>1. M - level = M /\ taken \in SUBSET EdgeIds /\ DegreesAsked(taken)
        BY <1>5, GraphFacts DEF DegreesInv
    <2>2. Completing(M, taken) = {taken}
        BY <2>1 DEF Completing, EdgeIds
    <2> QED
        BY <1>3, <2>1, <2>2
<1> QED
    BY <1>4, <1>5 DEF Degrees!DegreeVerdictRight, Degrees!VerdictRight

LEMMA DegreesInvariance == SpecGraphSearch => [](IsGraph(graph) /\ DegreesInv)
<1>1. InitGraphSearch => DegreesInv
    BY DEF InitGraphSearch, DegreesInv
<1>2. DoneInv /\ StartInv /\ ArrayInv /\ DegreesInv /\ [NextGraphSearch]_vars => DegreesInv'
    BY DegreesStep
<1>3. IInv => IsGraph(graph)
    BY DEF IInv, TypeOK
<1> QED
    BY <1>1, <1>2, <1>3, SearchInvariance, SearchConstructs, Invariance, PTL DEF SpecGraphSearch

(***************************************************************************)
(* For every digraph and all ranges that have with a degree every smaller  *)
(* one but 0, each terminal of the degree search is right: what is         *)
(* accepted has the degrees asked for, and no choice is refused that can   *)
(* still be completed to such a subgraph.  The range {2} of a vertex of    *)
(* degree two has a gap, and NoAdmissibleRefused fails with it.            *)
(***************************************************************************)
THEOREM DegreeSearchCorrect ==
    ASSUME GaplessRanges
    PROVE  SpecGraphSearch => []DegreesRight
<1>1. IsGraph(graph) /\ DegreesInv => DegreesRight
    BY DegreesVerdict DEF DegreesRight
<1> QED
    BY <1>1, DegreesInvariance, PTL

(***************************************************************************)
(* For every digraph and all ranges, with gaps or without: a subgraph that *)
(* the degree search accepts has the degrees asked for.                    *)
(***************************************************************************)
THEOREM DegreeSearchSound ==
    SpecGraphSearch =>
        [](search = "degrees" /\ verdict = "one" =>
                Degrees!Completions(Degrees!DegreesInRange) = {taken})
<1>1. IsGraph(graph) /\ DegreesInv =>
        (search = "degrees" /\ verdict = "one" =>
            Degrees!Completions(Degrees!DegreesInRange) = {taken})
    BY DegreesVerdict
<1> QED
    BY <1>1, DegreesInvariance, PTL
-----------------------------------------------------------------------------
(***************************************************************************)
(* The terminals of the searches that keep components, for every digraph.  *)
(***************************************************************************)
\* A vertex without an edge in F, one that F enters and leaves once, and one
\* that F only leaves, or only enters.
Alone(F, v) == In(F, v) = 0 /\ Out(F, v) = 0
Passed(F, v) == In(F, v) = 1 /\ Out(F, v) = 1
Begun(F, v) == In(F, v) = 0 /\ Out(F, v) = 1
Arrived(F, v) == In(F, v) = 1 /\ Out(F, v) = 0

\* F is in one piece, if it is not empty.
InOne(F) == \A a, b \in F : Linked(F, Tail1(a), Tail1(b))
Joint(F) == F # {} /\ InOne(F)

\* The directed cycles, and the directed paths from u to w, as the degrees and
\* the components of a set of edges.
Ring(F) == Joint(F) /\ \A v \in Vertices : Alone(F, v) \/ Passed(F, v)

OnRoute(F, u, w, v) ==
    IF v = u THEN Begun(F, v) ELSE IF v = w THEN Arrived(F, v) ELSE Alone(F, v) \/ Passed(F, v)
Route(F, u, w) == Joint(F) /\ \A v \in Vertices : OnRoute(F, u, w, v)
-----------------------------------------------------------------------------
(***************************************************************************)
(* Walks.                                                                  *)
(***************************************************************************)
\* Degrees 0 and 1 in terms of edges.
LEMMA SingleEdges ==
    ASSUME IsGraph(graph), NEW F \in SUBSET EdgeIds, NEW v
    PROVE  /\ In(F, v) = 0 <=> \A a \in F : Head1(a) # v
           /\ Out(F, v) = 0 <=> \A a \in F : Tail1(a) # v
           /\ In(F, v) = 1 <=> \E a \in F : Head1(a) = v /\ \A b \in F : Head1(b) = v => b = a
           /\ Out(F, v) = 1 <=> \E a \in F : Tail1(a) = v /\ \A b \in F : Tail1(b) = v => b = a
<1>1. IsFiniteSet(F)
    BY DegreeFacts
<1>2. IsFiniteSet(InEdges(F, v)) /\ IsFiniteSet(OutEdges(F, v))
    BY <1>1, FS_Subset DEF InEdges, OutEdges
<1>3. /\ In(F, v) = 0 <=> InEdges(F, v) = {}
      /\ Out(F, v) = 0 <=> OutEdges(F, v) = {}
    BY <1>2, FS_EmptySet DEF In, Out
<1>4. /\ In(F, v) = 1 <=> \E a : InEdges(F, v) = {a}
      /\ Out(F, v) = 1 <=> \E a : OutEdges(F, v) = {a}
    BY <1>2, FS_Singleton DEF In, Out
<1>5. (\E a : InEdges(F, v) = {a})
            <=> \E a \in F : Head1(a) = v /\ \A b \in F : Head1(b) = v => b = a
    BY DEF InEdges, Head1
<1>6. (\E a : OutEdges(F, v) = {a})
            <=> \E a \in F : Tail1(a) = v /\ \A b \in F : Tail1(b) = v => b = a
    BY DEF OutEdges, Tail1
<1> QED
    BY <1>3, <1>4, <1>5, <1>6 DEF InEdges, OutEdges, Head1, Tail1

Differ(p, k) == \A x, y \in 1..k : p[x] = p[y] => x = y

\* The edges of F lead from p[x] to p[nx[x]].
LeadOn(F, p, nx, n) == Pairs(F) = {<<p[x], p[nx[x]]>> : x \in 1..n}
StepsOnce(F, p, nx, n) ==
    /\ \A a \in F : \E x \in 1..n : Tail1(a) = p[x] /\ Head1(a) = p[nx[x]]
    /\ \A x \in 1..n : \E a \in F :
        /\ Tail1(a) = p[x] /\ Head1(a) = p[nx[x]]
        /\ \A b \in F : Tail1(b) = p[x] \/ Head1(b) = p[nx[x]] => b = a

\* If F has n of them, each is one edge, and no edge of F is left over.
LEMMA WalkEdges ==
    ASSUME IsGraph(graph), NEW F \in SUBSET EdgeIds, NEW n \in Nat, Cardinality(F) = n,
           NEW m \in Nat, n <= m, NEW p, NEW nx \in [1..n -> 1..m],
           Differ(p, m), Differ(nx, n), LeadOn(F, p, nx, n)
    PROVE  StepsOnce(F, p, nx, n)
<1> DEFINE Along(a, x) == Tail1(a) = p[x] /\ Head1(a) = p[nx[x]]
           f == [a \in F |-> CHOOSE x \in 1..n : Along(a, x)]
<1>1. \A a \in F : \E x \in 1..n : Along(a, x)
    <2>1. ASSUME NEW a \in F PROVE \E x \in 1..n : Along(a, x)
        <3>1. graph.edges[a] \in Pairs(F)
            BY DEF Pairs
        <3>2. PICK x \in 1..n : graph.edges[a] = <<p[x], p[nx[x]]>>
            BY <3>1 DEF LeadOn
        <3> QED
            BY <3>2 DEF Tail1, Head1
    <2> QED
        BY <2>1
<1>2. \A x \in 1..n : \E a \in F : Along(a, x)
    <2>1. ASSUME NEW x \in 1..n PROVE \E a \in F : Along(a, x)
        <3>1. <<p[x], p[nx[x]]>> \in Pairs(F)
            BY DEF LeadOn
        <3>2. PICK a \in F : graph.edges[a] = <<p[x], p[nx[x]]>>
            BY <3>1 DEF Pairs
        <3> QED
            BY <3>2 DEF Tail1, Head1
    <2> QED
        BY <2>1
<1>3. \A a \in F : f[a] \in 1..n /\ Along(a, f[a])
    BY <1>1
<1>9. /\ \A x, y \in 1..m : p[x] = p[y] => x = y
      /\ \A x, y \in 1..n : nx[x] = nx[y] => x = y
    BY DEF Differ
<1>4. \A a \in F : \A x \in 1..n : Tail1(a) = p[x] \/ Head1(a) = p[nx[x]] => f[a] = x
    <2>1. ASSUME NEW a \in F, NEW x \in 1..n, Tail1(a) = p[x] PROVE f[a] = x
        BY <1>3, <1>9, <2>1
    <2>2. ASSUME NEW a \in F, NEW x \in 1..n, Head1(a) = p[nx[x]] PROVE f[a] = x
        <3>1. nx[x] \in 1..m /\ nx[f[a]] \in 1..m /\ p[nx[x]] = p[nx[f[a]]]
            BY <1>3, <2>2
        <3> QED
            BY <1>3, <1>9, <3>1
    <2> QED
        BY <2>1, <2>2
<1>5. f \in Surjection(F, 1..n)
    <2>1. f \in [F -> 1..n]
        BY <1>3
    <2>2. \A x \in 1..n : \E a \in F : f[a] = x
        BY <1>2, <1>4
    <2> QED
        BY <2>1, <2>2 DEF Surjection
<1>6. f \in Injection(F, 1..n)
    <2>1. IsFiniteSet(F)
        BY DegreeFacts
    <2>2. Cardinality(1..n) = n
        BY FS_Interval
    <2> QED
        BY <1>5, <2>1, <2>2, FS_SurjSameCardinalityImpliesInj
<1>7. \A a, b \in F : f[a] = f[b] => a = b
    BY <1>6 DEF Injection, IsInjective
<1> HIDE DEF f
<1>8. ASSUME NEW x \in 1..n
      PROVE  \E a \in F : /\ Along(a, x)
                          /\ \A b \in F : Tail1(b) = p[x] \/ Head1(b) = p[nx[x]] => b = a
    <2>1. PICK a \in F : Along(a, x)
        BY <1>2
    <2> QED
        BY <1>4, <1>7, <2>1
<1> QED
    BY <1>1, <1>8 DEF StepsOnce

\* p is a walk along edges of F through k different vertices, and no edge of F
\* leads from its end to a vertex it has not visited.
Walk(F, p, k) ==
    /\ k \in 1..N
    /\ p \in Orders(k)
    /\ \A x \in 1..(k - 1) : \E a \in F : Tail1(a) = p[x] /\ Head1(a) = p[x + 1]
Stuck(F, p, k) == \A a \in F : Tail1(a) = p[k] => \E x \in 1..k : Head1(a) = p[x]

\* The vertices it visits, and that no edge leads from them but back to them.
Visited(p, k) == {p[x] : x \in 1..k}
Enclosed(F, p, k) ==
    /\ Closed(F, Visited(p, k))
    /\ \A a \in F : \A x \in 1..k : Tail1(a) = p[x] =>
            Head1(a) = IF x = k THEN p[1] ELSE p[x + 1]

\* A longest walk from a vertex.
LEMMA LongestWalk ==
    ASSUME IsGraph(graph), NEW F \in SUBSET EdgeIds, NEW v \in Vertices
    PROVE  \E k \in 1..N : \E p : Walk(F, p, k) /\ p[1] = v /\ Stuck(F, p, k)
<1> DEFINE K == {k \in 0..N : \E p : Walk(F, p, k) /\ p[1] = v}
<1>1. N \in Nat \ {0} /\ Vertices = 1..N
    BY GraphFacts DEF Vertices
<1>2. 1 \in K
    <2> DEFINE p == [x \in 1..1 |-> v]
    <2>1. p \in Orders(1) /\ p[1] = v
        BY DEF Orders
    <2> QED
        BY <1>1, <2>1 DEF Walk
<1>3. PICK k \in K : \A x \in K : x <= k
    BY <1>1, <1>2, GreatestElement
<1>4. PICK p : Walk(F, p, k) /\ p[1] = v
    BY <1>3
<1>5. k \in 1..N /\ p \in [1..k -> Vertices] /\ \A x, y \in 1..k : p[x] = p[y] => x = y
    BY <1>4 DEF Walk, Orders
<1>6. ASSUME NEW a \in F, Tail1(a) = p[k], ~ \E x \in 1..k : Head1(a) = p[x]
      PROVE  FALSE
    <2> DEFINE w == Head1(a)
               q == [x \in 1..(k + 1) |-> IF x = k + 1 THEN w ELSE p[x]]
    <2>1. w \in Vertices
        BY GraphFacts DEF Head1
    <2>2. /\ q[k + 1] = w
          /\ \A x \in 1..k : q[x] = p[x]
          /\ q \in [1..(k + 1) -> Vertices]
        BY <1>5, <2>1
    <2>3. \A x \in 1..(k + 1) : x = k + 1 \/ x \in 1..k
        BY <1>5
    <2> HIDE DEF w, q
    <2>4. \A x, y \in 1..(k + 1) : q[x] = q[y] => x = y
        BY <1>5, <1>6, <2>2, <2>3 DEF w
    <2>5. q \in Orders(k + 1)
        BY <2>2, <2>4 DEF Orders
    <2>6. k + 1 \in 1..N
        <3>1. q \in Injection(1..(k + 1), 1..N)
            BY <1>1, <2>2, <2>4 DEF Injection, IsInjective
        <3>2. IsFiniteSet(1..N) /\ Cardinality(1..N) = N /\ Cardinality(1..(k + 1)) = k + 1
            BY <1>1, <1>5, FS_Interval
        <3>3. Cardinality(1..(k + 1)) <= Cardinality(1..N)
            BY <3>1, <3>2, FS_Injection
        <3> QED
            BY <1>1, <1>5, <3>2, <3>3
    <2>7. ASSUME NEW x \in 1..k PROVE \E b \in F : Tail1(b) = q[x] /\ Head1(b) = q[x + 1]
        <3>1. CASE x = k
            BY <1>5, <1>6, <2>2, <3>1 DEF w
        <3>2. CASE x # k
            <4>1. x \in 1..(k - 1) /\ x + 1 \in 1..k
                BY <1>5, <3>2
            <4> QED
                BY <1>4, <2>2, <4>1 DEF Walk
        <3> QED
            BY <3>1, <3>2
    <2>8. (k + 1) - 1 = k /\ 1 \in 1..k
        BY <1>5
    <2>9. Walk(F, q, k + 1) /\ q[1] = v
        BY <1>4, <2>2, <2>5, <2>6, <2>7, <2>8 DEF Walk
    <2>10. k + 1 \in K
        BY <2>6, <2>9
    <2> QED
        BY <1>3, <1>5, <2>10
<1> QED
    BY <1>4, <1>5, <1>6 DEF Stuck

\* In a set of edges that meet nowhere, all edges at a walk that can neither
\* go on nor begin earlier are steps of it.
LEMMA WalkCloses ==
    ASSUME IsGraph(graph), NEW F \in SUBSET EdgeIds, NEW p, NEW k, Walk(F, p, k),
           \A a, b \in F : Tail1(a) = Tail1(b) => a = b,
           \A a, b \in F : Head1(a) = Head1(b) => a = b,
           \A a \in F : Tail1(a) = p[k] => Head1(a) = p[1],
           \A a \in F : Head1(a) = p[1] => Tail1(a) = p[k]
    PROVE  Enclosed(F, p, k)
<1> DEFINE S == {p[x] : x \in 1..k}
<1>1. /\ k \in Nat /\ p \in [1..k -> Vertices] /\ k \in 1..k /\ 1 \in 1..k
      /\ \A x \in 1..k : x # k => x \in 1..(k - 1) /\ x + 1 \in 1..k
      /\ \A x \in 1..k : x # 1 => x - 1 \in 1..(k - 1) /\ x - 1 \in 1..k /\ (x - 1) + 1 = x
    BY GraphFacts DEF Walk, Orders
<1>2. \A x \in 1..(k - 1) : \E a \in F : Tail1(a) = p[x] /\ Head1(a) = p[x + 1]
    BY DEF Walk
<1>3. ASSUME NEW a \in F, NEW x \in 1..k, Tail1(a) = p[x]
      PROVE  Head1(a) = IF x = k THEN p[1] ELSE p[x + 1]
    BY <1>1, <1>2, <1>3
<1>4. ASSUME NEW a \in F, NEW x \in 1..k, Head1(a) = p[x]
      PROVE  \E y \in 1..k : Tail1(a) = p[y]
    <2>1. CASE x = 1
        BY <1>1, <1>4, <2>1
    <2>2. CASE x # 1
        <3>1. PICK b \in F : Tail1(b) = p[x - 1] /\ Head1(b) = p[(x - 1) + 1]
            BY <1>1, <1>2, <2>2
        <3>2. b = a /\ x - 1 \in 1..k
            BY <1>1, <1>4, <2>2, <3>1
        <3> QED
            BY <3>1, <3>2
    <2> QED
        BY <2>1, <2>2
<1>5. ASSUME NEW a \in F, Incident(graph, a) \cap S # {}
      PROVE  Incident(graph, a) \subseteq S
    <2>1. Incident(graph, a) = {Tail1(a), Head1(a)}
        BY DEF Incident, Tail1, Head1
    <2>2. ASSUME Tail1(a) \in S PROVE Head1(a) \in S
        <3>1. PICK x \in 1..k : Tail1(a) = p[x]
            BY <2>2
        <3>2. Head1(a) = p[1] \/ (x # k /\ Head1(a) = p[x + 1])
            BY <1>3, <3>1
        <3> QED
            BY <1>1, <3>2
    <2>3. Head1(a) \in S => Tail1(a) \in S
        BY <1>4
    <2> QED
        BY <1>5, <2>1, <2>2, <2>3
<1>6. S \in SUBSET Vertices
    BY <1>1
<1> QED
    BY <1>3, <1>5, <1>6 DEF Closed, Enclosed, Visited
-----------------------------------------------------------------------------
(***************************************************************************)
(* Rings are the directed cycles.                                          *)
(***************************************************************************)
Next1(k, x) == IF x = k THEN 1 ELSE x + 1

LEMMA CircuitPairs ==
    ASSUME NEW k \in Nat \ {0}, NEW p \in Orders(k)
    PROVE  Circuit(p) = {<<p[x], p[Next1(k, x)]>> : x \in 1..k}
<1>1. p \in [1..k -> Vertices] /\ Len(p) = k
    <2>1. p \in [1..k -> Vertices]
        BY DEF Orders
    <2>2. DOMAIN p = 1..k
        BY <2>1
    <2>3. p \in Seq(Vertices)
        BY <2>1
    <2>4. Len(p) = k
        BY <2>2, <2>3
    <2> QED
        BY <2>1, <2>4
<1>2. \A x \in 1..(k - 1) : x \in 1..k /\ Next1(k, x) = x + 1
    BY DEF Next1
<1>3. k \in 1..k /\ Next1(k, k) = 1 /\ \A x \in 1..k : x = k \/ x \in 1..(k - 1)
    BY DEF Next1
<1>4. Circuit(p) = {<<p[x], p[x + 1]>> : x \in 1..(k - 1)} \cup {<<p[k], p[1]>>}
    BY <1>1 DEF Circuit, Steps
<1> QED
    BY <1>2, <1>3, <1>4

\* All of a walk is linked.
LEMMA WalkLinks ==
    ASSUME IsGraph(graph), NEW F \in SUBSET EdgeIds, NEW k \in Nat \ {0}, NEW p,
           \A x \in 1..(k - 1) : \E a \in F : Tail1(a) = p[x] /\ Head1(a) = p[x + 1]
    PROVE  \A x \in 1..k : Linked(F, p[1], p[x])
<1> DEFINE S == {x \in Nat : x = 0 \/ x \notin 1..k \/ Linked(F, p[1], p[x])}
<1>1. 0 \in S
    OBVIOUS
<1>2. ASSUME NEW x \in 0..(k - 1), x \in S PROVE x + 1 \in S
    <2>1. CASE x = 0
        BY <2>1, LinkedEquivalence
    <2>2. CASE x # 0
        <3>1. x \in 1..(k - 1) /\ x \in 1..k /\ x + 1 \in 1..k /\ x + 1 \in Nat
            BY <2>2
        <3>2. PICK a \in F : Tail1(a) = p[x] /\ Head1(a) = p[x + 1]
            BY <3>1
        <3>3. Linked(F, p[1], p[x]) /\ Linked(F, p[x], p[x + 1])
            <4>1. Tail1(a) \in Incident(graph, a) /\ Head1(a) \in Incident(graph, a)
                BY DEF Incident, Tail1, Head1
            <4> QED
                BY <1>2, <2>2, <3>1, <3>2, <4>1, LinkedEquivalence
        <3> QED
            BY <3>1, <3>3, LinkedEquivalence
    <2> QED
        BY <2>1, <2>2
<1>3. 0..k \subseteq S
    <2> HIDE DEF S
    <2>1. S \in SUBSET Nat
        BY DEF S
    <2> QED
        BY <1>1, <1>2, <2>1, InductionTo
<1> QED
    BY <1>3

LEMMA CycleIsRing ==
    ASSUME IsGraph(graph), NEW F \in SUBSET EdgeIds, NEW k \in 1..N, Cardinality(F) = k,
           NEW p \in Orders(k), Pairs(F) = Circuit(p)
    PROVE  Ring(F) /\ Ends(F) = Visited(p, k)
<1> DEFINE nx == [x \in 1..k |-> Next1(k, x)]
<1>1. /\ k \in Nat /\ k # 0 /\ 1 \in 1..k /\ p \in [1..k -> Vertices]
      /\ \A x, y \in 1..k : p[x] = p[y] => x = y
    BY GraphFacts DEF Orders
<1>2. /\ nx \in [1..k -> 1..k]
      /\ \A x, y \in 1..k : nx[x] = nx[y] => x = y
      /\ \A y \in 1..k : \E x \in 1..k : nx[x] = y
    <2>1. \A x \in 1..k : nx[x] = IF x = k THEN 1 ELSE x + 1
        BY DEF Next1
    <2>2. \A y \in 1..k : y # 1 => y - 1 \in 1..k /\ y - 1 # k /\ (y - 1) + 1 = y
        BY <1>1
    <2>3. \A x \in 1..k : nx[x] \in 1..k
        BY <1>1, <2>1
    <2> HIDE DEF nx
    <2>4. \A x, y \in 1..k : nx[x] = nx[y] => x = y
        BY <1>1, <2>1
    <2>5. ASSUME NEW y \in 1..k PROVE \E x \in 1..k : nx[x] = y
        <3>1. CASE y = 1
            <4>1. k \in 1..k /\ nx[k] = 1
                BY <1>1, <2>1
            <4> QED
                BY <3>1, <4>1
        <3>2. CASE y # 1
            <4>1. y - 1 \in 1..k /\ nx[y - 1] = y
                BY <2>1, <2>2, <3>2
            <4> QED
                BY <4>1
        <3> QED
            BY <3>1, <3>2
    <2> QED
        BY <2>3, <2>4, <2>5 DEF nx
<1>3. LeadOn(F, p, nx, k)
    BY <1>1, CircuitPairs DEF LeadOn
<1> HIDE DEF nx
<1>4. /\ \A a \in F : \E x \in 1..k : Tail1(a) = p[x] /\ Head1(a) = p[nx[x]]
      /\ \A x \in 1..k : \E a \in F :
            /\ Tail1(a) = p[x] /\ Head1(a) = p[nx[x]]
            /\ \A b \in F : Tail1(b) = p[x] \/ Head1(b) = p[nx[x]] => b = a
    <2>1. k \in Nat /\ k <= k
        BY <1>1
    <2>2. Differ(p, k) /\ Differ(nx, k)
        BY <1>1, <1>2, Zenon DEF Differ
    <2>3. StepsOnce(F, p, nx, k)
        BY <1>2, <1>3, <2>1, <2>2, WalkEdges
    <2> QED
        BY <2>3 DEF StepsOnce
<1>5. \A a \in F : Incident(graph, a) = {Tail1(a), Head1(a)}
    BY DEF Incident, Tail1, Head1
<1>6. Ends(F) = Visited(p, k)
    <2>1. ASSUME NEW v \in Ends(F) PROVE \E x \in 1..k : v = p[x]
        <3>1. PICK a \in F : v \in Incident(graph, a)
            BY <2>1 DEF Ends
        <3>2. PICK x \in 1..k : Tail1(a) = p[x] /\ Head1(a) = p[nx[x]]
            BY <1>4
        <3>3. nx[x] \in 1..k
            BY <1>2
        <3> QED
            BY <1>5, <3>1, <3>2, <3>3
    <2>2. ASSUME NEW x \in 1..k PROVE p[x] \in Ends(F)
        BY <1>4, <1>5 DEF Ends
    <2> QED
        BY <2>1, <2>2 DEF Visited
<1>7. F # {}
    BY <1>1, <1>4
<1>8. ASSUME NEW x \in 1..k PROVE Passed(F, p[x])
    <2>1. Out(F, p[x]) = 1
        <3>1. \E a \in F : Tail1(a) = p[x] /\ \A b \in F : Tail1(b) = p[x] => b = a
            BY <1>4
        <3> QED
            BY <3>1, SingleEdges
    <2>2. In(F, p[x]) = 1
        <3>1. PICK y \in 1..k : nx[y] = x
            BY <1>2
        <3>2. PICK a \in F : Head1(a) = p[nx[y]] /\ \A b \in F : Head1(b) = p[nx[y]] => b = a
            BY <1>4
        <3> QED
            BY <3>1, <3>2, SingleEdges
    <2> QED
        BY <2>1, <2>2 DEF Passed
<1>9. ASSUME NEW v \in Vertices, v \notin Ends(F) PROVE Alone(F, v)
    <2>1. \A a \in F : Head1(a) # v /\ Tail1(a) # v
        BY <1>5, <1>9 DEF Ends
    <2> QED
        BY <2>1, SingleEdges DEF Alone
<1>10. \A x \in 1..k : Linked(F, p[1], p[x])
    <2>1. ASSUME NEW x \in 1..(k - 1) PROVE \E a \in F : Tail1(a) = p[x] /\ Head1(a) = p[x + 1]
        <3>1. x \in 1..k /\ x # k
            BY <1>1
        <3> QED
            BY <1>4, <3>1 DEF nx, Next1
    <2> QED
        BY <1>1, <2>1, WalkLinks
<1>11. \A a, b \in F : Linked(F, Tail1(a), Tail1(b))
    <2>1. ASSUME NEW a \in F, NEW b \in F PROVE Linked(F, Tail1(a), Tail1(b))
        <3>1. PICK x \in 1..k, y \in 1..k : Tail1(a) = p[x] /\ Tail1(b) = p[y]
            BY <1>4
        <3>2. Linked(F, p[x], p[1])
            BY <1>1, <1>10, LinkedEquivalence
        <3>3. Linked(F, p[1], p[y])
            BY <1>10
        <3> QED
            BY <3>1, <3>2, <3>3, LinkedEquivalence
    <2> QED
        BY <2>1
<1> QED
    BY <1>6, <1>7, <1>8, <1>9, <1>11 DEF Ring, Joint, InOne, Visited

\* Where at most one edge of F leaves and enters each vertex.
LEMMA OnlyEdges ==
    ASSUME IsGraph(graph), NEW F \in SUBSET EdgeIds, NEW v
    PROVE  /\ Out(F, v) = 1 => \A a, b \in F : Tail1(a) = v /\ Tail1(b) = v => a = b
           /\ In(F, v) = 1 => \A a, b \in F : Head1(a) = v /\ Head1(b) = v => a = b
           /\ Alone(F, v) => \A a \in F : Head1(a) # v /\ Tail1(a) # v
           /\ Passed(F, v) => (\E a \in F : Head1(a) = v) /\ (\E a \in F : Tail1(a) = v)
BY SingleEdges DEF Alone, Passed

\* The end of a longest walk, if edges that enter vertices on it are unique.
LEMMA WalkReturns ==
    ASSUME IsGraph(graph), NEW F \in SUBSET EdgeIds, NEW p, NEW k, Walk(F, p, k), Stuck(F, p, k),
           \A a, b \in F : Head1(a) = Head1(b) => a = b
    PROVE  \A a \in F : Tail1(a) = p[k] => Head1(a) = p[1]
<1>1. k \in Nat /\ k \in 1..k /\ \A x, y \in 1..k : p[x] = p[y] => x = y
    BY GraphFacts DEF Walk, Orders
<1>2. ASSUME NEW a \in F, Tail1(a) = p[k], NEW x \in 1..k, Head1(a) = p[x], x # 1
      PROVE  FALSE
    <2>1. x - 1 \in 1..(k - 1) /\ x - 1 \in 1..k /\ (x - 1) + 1 = x /\ x - 1 # k
        BY <1>1, <1>2
    <2>2. PICK b \in F : Tail1(b) = p[x - 1] /\ Head1(b) = p[(x - 1) + 1]
        BY <2>1 DEF Walk
    <2>3. b = a
        BY <1>2, <2>1, <2>2
    <2> QED
        BY <1>1, <1>2, <2>1, <2>2, <2>3
<1> QED
    BY <1>2 DEF Stuck

\* The steps of a walk that takes each edge of F count its edges.
LEMMA EdgesCounted ==
    ASSUME IsGraph(graph), NEW F \in SUBSET EdgeIds, NEW n \in Nat, NEW p, Differ(p, n),
           \A a, b \in F : Tail1(a) = Tail1(b) => a = b,
           \A a \in F : \E x \in 1..n : Tail1(a) = p[x],
           \A x \in 1..n : \E a \in F : Tail1(a) = p[x]
    PROVE  Cardinality(F) = n
<1> DEFINE f == [a \in F |-> CHOOSE x \in 1..n : Tail1(a) = p[x]]
<1>1. \A a \in F : f[a] \in 1..n /\ Tail1(a) = p[f[a]]
    OBVIOUS
<1>2. f \in [F -> 1..n]
    BY <1>1
<1> HIDE DEF f
<1>3. \A x \in 1..n : \E a \in F : f[a] = x
    BY <1>1 DEF Differ
<1>4. \A a, b \in F : f[a] = f[b] => a = b
    BY <1>1
<1>5. f \in Surjection(F, 1..n)
    BY <1>2, <1>3 DEF Surjection
<1>6. f \in Injection(F, 1..n)
    BY <1>2, <1>4 DEF Injection, IsInjective
<1>7. IsFiniteSet(F) /\ Cardinality(1..n) = n
    <2>1. Cardinality(1..n) = n
        BY FS_Interval
    <2> QED
        BY <2>1, DegreeFacts
<1> QED
    BY <1>5, <1>6, <1>7, FS_Surjection

LEMMA RingIsCycle ==
    ASSUME IsGraph(graph), NEW F \in SUBSET EdgeIds, Ring(F)
    PROVE  \E k \in 1..N : \E p \in Orders(k) : Cardinality(F) = k /\ Pairs(F) = Circuit(p)
<1>1. PICK a0 \in F : TRUE
    BY DEF Ring, Joint, InOne
<1>2. \A a \in F : Tail1(a) \in Vertices /\ Head1(a) \in Vertices
    BY GraphFacts DEF Tail1, Head1
<1>3. /\ \A a \in F : Passed(F, Tail1(a)) /\ Passed(F, Head1(a))
      /\ \A a, b \in F : Tail1(a) = Tail1(b) => a = b
      /\ \A a, b \in F : Head1(a) = Head1(b) => a = b
    <2>1. \A v : /\ Out(F, v) = 1 => \A a, b \in F : Tail1(a) = v /\ Tail1(b) = v => a = b
                 /\ In(F, v) = 1 => \A a, b \in F : Head1(a) = v /\ Head1(b) = v => a = b
                 /\ Alone(F, v) => \A a \in F : Head1(a) # v /\ Tail1(a) # v
        BY OnlyEdges
    <2>2. \A a \in F : Passed(F, Tail1(a)) /\ Passed(F, Head1(a))
        BY <1>2, <2>1 DEF Ring
    <2> QED
        BY <2>1, <2>2 DEF Passed
<1>4. PICK k \in 1..N : \E p : Walk(F, p, k) /\ p[1] = Tail1(a0) /\ Stuck(F, p, k)
    BY <1>2, LongestWalk
<1>5. PICK p : Walk(F, p, k) /\ p[1] = Tail1(a0) /\ Stuck(F, p, k)
    BY <1>4
<1>6. /\ k \in Nat \ {0} /\ k \in 1..k /\ 1 \in 1..k /\ p \in Orders(k) /\ Differ(p, k)
      /\ \A x \in 1..k : x = k \/ x \in 1..(k - 1)
      /\ \A x \in 1..k : x # 1 => x - 1 \in 1..(k - 1) /\ (x - 1) + 1 = x
    BY <1>5, GraphFacts DEF Walk, Orders, Differ
<1>7. \A a \in F : Tail1(a) = p[k] => Head1(a) = p[1]
    BY <1>3, <1>5, WalkReturns
<1>8. \A x \in 1..k : Passed(F, p[x])
    <2>1. ASSUME NEW x \in 1..k PROVE Passed(F, p[x])
        <3>1. CASE x = 1
            BY <1>3, <1>5, <3>1
        <3>2. CASE x # 1
            <4>1. PICK b \in F : Head1(b) = p[(x - 1) + 1]
                BY <1>5, <1>6, <3>2 DEF Walk
            <4> QED
                BY <1>3, <1>6, <3>2, <4>1
        <3> QED
            BY <3>1, <3>2
    <2> QED
        BY <2>1
<1>9. PICK c \in F : Tail1(c) = p[k]
    BY <1>6, <1>8, OnlyEdges
<1>10. \A a \in F : Head1(a) = p[1] => Tail1(a) = p[k]
    BY <1>3, <1>7, <1>9
<1>11. Enclosed(F, p, k)
    BY <1>3, <1>5, <1>7, <1>10, WalkCloses
<1>12. \A a \in F : \E x \in 1..k : Tail1(a) = p[x]
    <2>1. ASSUME NEW a \in F PROVE \E x \in 1..k : Tail1(a) = p[x]
        <3>1. Linked(F, Tail1(a0), Tail1(a))
            BY DEF Ring, Joint, InOne
        <3>2. Tail1(a0) \in Visited(p, k)
            BY <1>5, <1>6 DEF Visited
        <3>3. Tail1(a) \in Visited(p, k)
            BY <1>11, <3>1, <3>2, LinkedClosed DEF Enclosed
        <3> QED
            BY <3>3 DEF Visited
    <2> QED
        BY <2>1
<1>13. \A x \in 1..k : \E a \in F : Tail1(a) = p[x]
    BY <1>8, OnlyEdges
<1>14. Cardinality(F) = k
    BY <1>3, <1>6, <1>12, <1>13, EdgesCounted
<1>15. Pairs(F) = {<<p[x], p[Next1(k, x)]>> : x \in 1..k}
    <2>1. \A a \in F : graph.edges[a] = <<Tail1(a), Head1(a)>>
        BY GraphFacts DEF Tail1, Head1
    <2>2. \A a \in F : \A x \in 1..k : Tail1(a) = p[x] => graph.edges[a] = <<p[x], p[Next1(k, x)]>>
        BY <1>11, <2>1 DEF Enclosed, Next1
    <2>3. ASSUME NEW e \in Pairs(F) PROVE e \in {<<p[x], p[Next1(k, x)]>> : x \in 1..k}
        BY <1>12, <2>2 DEF Pairs
    <2>4. ASSUME NEW x \in 1..k PROVE <<p[x], p[Next1(k, x)]>> \in Pairs(F)
        BY <1>13, <2>2 DEF Pairs
    <2> QED
        BY <2>3, <2>4
<1> QED
    BY <1>6, <1>14, <1>15, CircuitPairs

\* A set of different vertices is all of them when there are N.
LEMMA AllVisited ==
    ASSUME IsGraph(graph), NEW k \in 1..N, NEW p \in Orders(k)
    PROVE  Visited(p, k) = Vertices <=> k = N
<1>1. N \in Nat /\ k \in Nat /\ Vertices = 1..N
    BY GraphFacts DEF Vertices
<1>2. p \in Injection(1..k, Vertices)
    BY DEF Orders, Injection, IsInjective
<1>3. /\ Cardinality(1..k) = k /\ Cardinality(Vertices) = N /\ IsFiniteSet(Vertices)
    BY <1>1, FS_Interval
<1>4. p \in Surjection(1..k, Vertices) <=> k = N
    BY <1>2, <1>3, FS_Injection
<1>5. p \in [1..k -> Vertices]
    BY DEF Orders
<1>6. p \in Surjection(1..k, Vertices) <=> Visited(p, k) = Vertices
    <2>1. p \in Surjection(1..k, Vertices) <=> \A v \in Vertices : \E x \in 1..k : p[x] = v
        BY <1>5 DEF Surjection
    <2>2. Visited(p, k) \subseteq Vertices
        BY <1>5 DEF Visited
    <2> QED
        BY <2>1, <2>2 DEF Visited
<1> QED
    BY <1>4, <1>6

LEMMA EndsAlone ==
    ASSUME IsGraph(graph), NEW F \in SUBSET EdgeIds
    PROVE  /\ \A v : v \in Ends(F) <=> ~Alone(F, v)
           /\ Ends(F) \subseteq Vertices
           /\ \A u, v \in Ends(F) : InOne(F) => Linked(F, u, v)
<1>1. \A v : v \in Ends(F) <=> ~Alone(F, v)
    <2>1. \A v : Alone(F, v) <=> \A a \in F : v \notin Incident(graph, a)
        BY DegreeFacts DEF Alone
    <2> QED
        BY <2>1 DEF Ends
<1>2. Ends(F) \subseteq Vertices
    BY GraphFacts DEF Ends
<1>3. ASSUME InOne(F), NEW u \in Ends(F), NEW v \in Ends(F) PROVE Linked(F, u, v)
    <2>1. PICK a \in F : u \in Incident(graph, a)
        BY DEF Ends
    <2>2. PICK b \in F : v \in Incident(graph, b)
        BY DEF Ends
    <2>3. Tail1(a) \in Incident(graph, a) /\ Tail1(b) \in Incident(graph, b)
        BY DEF Tail1, Incident
    <2>4. Linked(F, u, Tail1(a)) /\ Linked(F, Tail1(b), v)
        BY <2>1, <2>2, <2>3, LinkedEquivalence
    <2>5. Linked(F, Tail1(a), Tail1(b))
        BY <1>3 DEF InOne
    <2> QED
        BY <2>4, <2>5, LinkedEquivalence
<1> QED
    BY <1>1, <1>2, <1>3

-----------------------------------------------------------------------------
(***************************************************************************)
(* Routes are the directed paths.                                          *)
(***************************************************************************)
LEMMA StepPairs ==
    ASSUME NEW k \in Nat, NEW S, NEW p \in [1..k -> S]
    PROVE  Steps(p) = {<<p[x], p[x + 1]>> : x \in 1..(k - 1)}
<1>1. DOMAIN p = 1..k
    OBVIOUS
<1>2. p \in Seq(S)
    OBVIOUS
<1>3. Len(p) = k
    BY <1>1, <1>2
<1> QED
    BY <1>3 DEF Steps

LEMMA PathIsRoute ==
    ASSUME IsGraph(graph), NEW F \in SUBSET EdgeIds, NEW k, k = Cardinality(F) + 1,
           NEW u \in Ends(F), NEW w \in Ends(F), u # w, Cardinality(Ends(F)) = k,
           NEW p \in [1..k -> Ends(F)], p[1] = u, p[k] = w, Pairs(F) = Steps(p)
    PROVE  Route(F, u, w)
<1> DEFINE n == k - 1
           nx == [x \in 1..n |-> x + 1]
<1>1. /\ k \in Nat \ {0} /\ n \in Nat /\ n = Cardinality(F) /\ n <= k /\ 1 \in 1..k /\ k \in 1..k
      /\ 1..n \subseteq 1..k /\ \A x \in 1..n : x # k /\ x + 1 \in 1..k /\ x + 1 # 1
      /\ \A x \in 1..k : (x = k \/ x \in 1..n) /\ (x = 1 \/ (x - 1 \in 1..n /\ (x - 1) + 1 = x))
    <2>1. IsFiniteSet(F)
        BY DegreeFacts
    <2>2. Cardinality(F) \in Nat
        BY <2>1, FS_CardinalityType
    <2> QED
        BY <2>2
<1>2. Pairs(F) = {<<p[x], p[x + 1]>> : x \in 1..n}
    <2>1. k \in Nat
        BY <1>1
    <2>2. Steps(p) = {<<p[x], p[x + 1]>> : x \in 1..(k - 1)}
        BY <2>1, StepPairs
    <2> QED
        BY <2>2
<1>3. /\ nx \in [1..n -> 1..k] /\ \A x \in 1..n : nx[x] = x + 1
      /\ \A x, y \in 1..n : nx[x] = nx[y] => x = y
    BY <1>1
<1> HIDE DEF nx, n
<1>4. \A a \in F : \E x \in 1..n : Tail1(a) = p[x] /\ Head1(a) = p[x + 1]
    <2>1. ASSUME NEW a \in F PROVE \E x \in 1..n : Tail1(a) = p[x] /\ Head1(a) = p[x + 1]
        <3>1. graph.edges[a] \in Pairs(F)
            BY DEF Pairs
        <3>2. PICK x \in 1..n : graph.edges[a] = <<p[x], p[x + 1]>>
            BY <1>2, <3>1
        <3> QED
            BY <3>2 DEF Tail1, Head1
    <2> QED
        BY <2>1
<1>5. \A v \in Ends(F) : \E x \in 1..k : p[x] = v
    <2>1. ASSUME NEW v \in Ends(F) PROVE \E x \in 1..k : p[x] = v
        <3>1. PICK a \in F : v \in Incident(graph, a)
            BY DEF Ends
        <3>2. v = Tail1(a) \/ v = Head1(a)
            BY <3>1 DEF Incident, Tail1, Head1
        <3>3. PICK x \in 1..n : Tail1(a) = p[x] /\ Head1(a) = p[x + 1]
            BY <1>4
        <3> QED
            BY <1>1, <3>2, <3>3
    <2> QED
        BY <2>1
<1>6. \A x, y \in 1..k : p[x] = p[y] => x = y
    <2>1. p \in Surjection(1..k, Ends(F))
        BY <1>5 DEF Surjection
    <2>2. IsFiniteSet(1..k) /\ Cardinality(1..k) = k
        BY <1>1, FS_Interval
    <2>3. p \in Injection(1..k, Ends(F))
        BY <2>1, <2>2, FS_SurjSameCardinalityImpliesInj
    <2> QED
        BY <2>3 DEF Injection, IsInjective
<1>7. StepsOnce(F, p, nx, n)
    <2>1. Differ(p, k) /\ Differ(nx, n)
        BY <1>3, <1>6, Zenon DEF Differ
    <2>2. LeadOn(F, p, nx, n)
        BY <1>2, <1>3 DEF LeadOn
    <2> QED
        BY <1>1, <1>3, <2>1, <2>2, WalkEdges
<1>8. \A x \in 1..n : \E a \in F :
        /\ Tail1(a) = p[x] /\ Head1(a) = p[x + 1]
        /\ \A b \in F : Tail1(b) = p[x] \/ Head1(b) = p[x + 1] => b = a
    BY <1>3, <1>7 DEF StepsOnce
<1>9. \A x \in 1..n : Out(F, p[x]) = 1 /\ In(F, p[x + 1]) = 1
    <2>1. ASSUME NEW x \in 1..n PROVE Out(F, p[x]) = 1 /\ In(F, p[x + 1]) = 1
        <3>1. /\ \E a \in F : Tail1(a) = p[x] /\ \A b \in F : Tail1(b) = p[x] => b = a
              /\ \E a \in F : Head1(a) = p[x + 1] /\ \A b \in F : Head1(b) = p[x + 1] => b = a
            BY <1>8
        <3> QED
            BY <3>1, SingleEdges
    <2> QED
        BY <2>1
<1>10. Out(F, p[k]) = 0 /\ In(F, p[1]) = 0
    <2>1. ASSUME NEW a \in F PROVE Tail1(a) # p[k] /\ Head1(a) # p[1]
        <3>1. PICK x \in 1..n : Tail1(a) = p[x] /\ Head1(a) = p[x + 1]
            BY <1>4
        <3>2. x \in 1..k /\ x + 1 \in 1..k /\ x # k /\ x + 1 # 1 /\ k \in 1..k /\ 1 \in 1..k
            BY <1>1
        <3> QED
            BY <1>6, <3>1, <3>2
    <2>2. /\ Out(F, p[k]) = 0 <=> \A a \in F : Tail1(a) # p[k]
          /\ In(F, p[1]) = 0 <=> \A a \in F : Head1(a) # p[1]
        BY SingleEdges
    <2> QED
        BY <2>1, <2>2
<1>11. ASSUME NEW x \in 1..k PROVE OnRoute(F, u, w, p[x])
    <2>1. CASE x = 1
        BY <1>1, <1>9, <1>10, <2>1 DEF OnRoute, Begun
    <2>2. CASE x = k /\ x # 1
        <3>1. p[x] # u /\ p[x] = w
            BY <1>1, <1>6, <2>2
        <3>2. In(F, p[x]) = 1
            BY <1>1, <1>9, <2>2
        <3> QED
            BY <1>10, <2>2, <3>1, <3>2 DEF OnRoute, Arrived
    <2>3. CASE x # k /\ x # 1
        <3>1. p[x] # u /\ p[x] # w
            BY <1>1, <1>6, <2>3
        <3>2. In(F, p[x]) = 1 /\ Out(F, p[x]) = 1
            BY <1>1, <1>9, <2>3
        <3> QED
            BY <3>1, <3>2 DEF OnRoute, Passed
    <2> QED
        BY <2>1, <2>2, <2>3
<1>12. ASSUME NEW v \in Vertices PROVE OnRoute(F, u, w, v)
    <2>1. CASE v \in Ends(F)
        BY <1>5, <1>11, <2>1
    <2>2. CASE v \notin Ends(F)
        BY <2>2, EndsAlone DEF OnRoute
    <2> QED
        BY <2>1, <2>2
<1>13. \A x \in 1..k : Linked(F, p[1], p[x])
    <2>1. \A x \in 1..(k - 1) : \E a \in F : Tail1(a) = p[x] /\ Head1(a) = p[x + 1]
        BY <1>8 DEF n
    <2> QED
        BY <1>1, <2>1, WalkLinks
<1>14. Joint(F)
    <2>1. F # {}
        BY DEF Ends
    <2>2. ASSUME NEW a \in F, NEW b \in F PROVE Linked(F, Tail1(a), Tail1(b))
        <3>1. PICK x \in 1..n, y \in 1..n : Tail1(a) = p[x] /\ Tail1(b) = p[y]
            BY <1>4
        <3>2. p[1] \in Vertices /\ p[x] \in Vertices
            BY <1>1, EndsAlone
        <3>3. Linked(F, p[1], p[x]) /\ Linked(F, p[1], p[y])
            BY <1>1, <1>13
        <3>4. Linked(F, p[x], p[1])
            BY <3>2, <3>3, LinkedEquivalence
        <3> QED
            BY <3>1, <3>3, <3>4, LinkedEquivalence
    <2> QED
        BY <2>1, <2>2 DEF Joint, InOne
<1> QED
    BY <1>12, <1>14 DEF Route

LEMMA RouteIsPath ==
    ASSUME IsGraph(graph), NEW F \in SUBSET EdgeIds, NEW u \in Vertices, NEW w \in Vertices,
           Route(F, u, w)
    PROVE  /\ u # w /\ u \in Ends(F) /\ w \in Ends(F)
           /\ Cardinality(Ends(F)) = Cardinality(F) + 1
           /\ Ends(F) = Vertices <=> Cardinality(F) + 1 = N
           /\ \E p \in [1..(Cardinality(F) + 1) -> Ends(F)] :
                p[1] = u /\ p[Cardinality(F) + 1] = w /\ Pairs(F) = Steps(p)
<1>1. /\ \A a \in F : /\ Tail1(a) \in Vertices /\ Head1(a) \in Vertices
                      /\ Incident(graph, a) = {Tail1(a), Head1(a)}
                      /\ graph.edges[a] = <<Tail1(a), Head1(a)>>
      /\ N \in Nat \ {0} /\ Vertices = 1..N
    BY GraphFacts DEF Tail1, Head1, Incident, Vertices
<1>2. /\ \A v \in Vertices : In(F, v) \in {0, 1} /\ Out(F, v) \in {0, 1}
      /\ In(F, u) = 0 /\ Out(F, u) = 1
      /\ \A v \in Vertices : v # w /\ v # u => In(F, v) = Out(F, v)
      /\ u # w => In(F, w) = 1 /\ Out(F, w) = 0
    BY DEF Route, OnRoute, Begun, Arrived, Alone, Passed
<1>3. /\ \A a, b \in F : Tail1(a) = Tail1(b) => a = b
      /\ \A a, b \in F : Head1(a) = Head1(b) => a = b
    <2>1. \A a \in F : Out(F, Tail1(a)) # 0 /\ In(F, Head1(a)) # 0
        BY SingleEdges
    <2> QED
        BY <1>1, <1>2, <2>1, OnlyEdges
<1>4. PICK k \in 1..N : \E p : Walk(F, p, k) /\ p[1] = u /\ Stuck(F, p, k)
    BY LongestWalk
<1>5. PICK p : Walk(F, p, k) /\ p[1] = u /\ Stuck(F, p, k)
    BY <1>4
<1>6. /\ k \in Nat \ {0} /\ k \in 1..k /\ 1 \in 1..k /\ p \in Orders(k) /\ Differ(p, k)
      /\ \A x \in 1..k : x = k \/ (x \in 1..(k - 1) /\ x + 1 \in 1..k)
      /\ \A x \in 1..k : x # 1 => x - 1 \in 1..(k - 1) /\ (x - 1) + 1 = x
    BY <1>1, <1>5 DEF Walk, Orders, Differ
<1>7. \A x \in 1..(k - 1) : \E a \in F : Tail1(a) = p[x] /\ Head1(a) = p[x + 1]
    BY <1>5 DEF Walk
<1>8. p \in [1..k -> Vertices]
    BY <1>6 DEF Orders
<1>9. \A a \in F : Head1(a) # u /\ Tail1(a) # p[k]
    <2>1. \A a \in F : Head1(a) # u
        BY <1>2, SingleEdges
    <2>2. \A a \in F : Tail1(a) = p[k] => Head1(a) = p[1]
        BY <1>3, <1>5, WalkReturns
    <2> QED
        BY <1>5, <2>1, <2>2
<1>10. Out(F, p[k]) = 0
    BY <1>9, SingleEdges
<1>11. k # 1 /\ In(F, p[k]) = 1
    <2>1. k # 1
        BY <1>2, <1>5, <1>10
    <2>2. PICK a \in F : Head1(a) = p[(k - 1) + 1]
        BY <1>6, <1>7, <2>1
    <2>3. Head1(a) = p[k]
        BY <1>6, <2>1, <2>2
    <2>4. In(F, p[k]) # 0
        BY <2>3, SingleEdges
    <2> QED
        BY <1>2, <1>6, <1>8, <2>1, <2>4
<1>12. p[k] = w /\ u # w
    <2>1. p[k] # u
        BY <1>2, <1>10
    <2> QED
        BY <1>2, <1>6, <1>8, <1>10, <1>11, <2>1
\* Every edge at a vertex of the walk is a step of it.
<1>13. \A a \in F : \A x \in 1..k : Tail1(a) = p[x] =>
            x \in 1..(k - 1) /\ Head1(a) = p[x + 1]
    BY <1>3, <1>6, <1>7, <1>9
<1>14. \A a \in F : \A x \in 1..k : Head1(a) = p[x] =>
            x # 1 /\ x - 1 \in 1..(k - 1) /\ Tail1(a) = p[x - 1]
    BY <1>3, <1>5, <1>6, <1>7, <1>9
<1>15. Closed(F, Visited(p, k))
    <2>1. Visited(p, k) \in SUBSET Vertices
        BY <1>8 DEF Visited
    <2>2. ASSUME NEW a \in F, Incident(graph, a) \cap Visited(p, k) # {}
          PROVE  Tail1(a) \in Visited(p, k) /\ Head1(a) \in Visited(p, k)
        <3>1. PICK x \in 1..k : Tail1(a) = p[x] \/ Head1(a) = p[x]
            BY <1>1, <2>2 DEF Visited
        <3>2. \A y \in 1..(k - 1) : y \in 1..k /\ y + 1 \in 1..k
            BY <1>6
        <3>3. \E y \in 1..k : \E z \in 1..k : Tail1(a) = p[y] /\ Head1(a) = p[z]
            BY <1>13, <1>14, <3>1, <3>2
        <3> QED
            BY <3>3 DEF Visited
    <2> QED
        BY <1>1, <2>1, <2>2 DEF Closed
<1>16. PICK c \in F : Tail1(c) = u
    BY <1>2, SingleEdges
<1>17. \A a \in F : \E x \in 1..(k - 1) : Tail1(a) = p[x] /\ Head1(a) = p[x + 1]
    <2>1. ASSUME NEW a \in F PROVE \E x \in 1..(k - 1) : Tail1(a) = p[x] /\ Head1(a) = p[x + 1]
        <3>1. Linked(F, u, Tail1(a))
            BY <1>16 DEF Route, Joint, InOne
        <3>2. u \in Visited(p, k)
            BY <1>5, <1>6 DEF Visited
        <3>3. Tail1(a) \in Visited(p, k)
            BY <1>15, <3>1, <3>2, LinkedClosed
        <3> QED
            BY <1>13, <3>3 DEF Visited
    <2> QED
        BY <2>1
<1>18. Cardinality(F) = k - 1
    <2>1. k - 1 \in Nat /\ Differ(p, k - 1)
        BY <1>6 DEF Differ
    <2>2. /\ \A a \in F : \E x \in 1..(k - 1) : Tail1(a) = p[x]
          /\ \A x \in 1..(k - 1) : \E a \in F : Tail1(a) = p[x]
        BY <1>7, <1>17
    <2> QED
        BY <1>3, <2>1, <2>2, EdgesCounted
<1>19. Ends(F) = Visited(p, k)
    <2>1. Ends(F) \subseteq Visited(p, k)
        <3>1. \A a \in F : Tail1(a) \in Visited(p, k) /\ Head1(a) \in Visited(p, k)
            BY <1>6, <1>17 DEF Visited
        <3> QED
            BY <1>1, <3>1 DEF Ends
    <2>2. ASSUME NEW x \in 1..k PROVE p[x] \in Ends(F)
        <3>1. \A a \in F : Tail1(a) \in Ends(F) /\ Head1(a) \in Ends(F)
            BY <1>1 DEF Ends
        <3>2. CASE x = 1
            BY <1>5, <1>16, <3>1, <3>2
        <3>3. CASE x # 1
            <4>1. PICK a \in F : Head1(a) = p[(x - 1) + 1]
                BY <1>6, <1>7, <3>3
            <4> QED
                BY <1>6, <3>1, <3>3, <4>1
        <3> QED
            BY <3>2, <3>3
    <2> QED
        BY <2>1, <2>2 DEF Visited
<1>20. p \in [1..k -> Ends(F)]
    BY <1>8, <1>19 DEF Visited
<1>21. Cardinality(Ends(F)) = k
    <2>1. p \in Surjection(1..k, Ends(F))
        BY <1>19, <1>20 DEF Surjection, Visited
    <2>2. p \in Injection(1..k, Ends(F))
        BY <1>6, <1>20 DEF Injection, IsInjective, Differ
    <2>3. IsFiniteSet(1..k) /\ Cardinality(1..k) = k
        BY <1>6, FS_Interval
    <2> QED
        BY <2>1, <2>2, <2>3, FS_Surjection
<1>22. Pairs(F) = Steps(p)
    <2>1. Steps(p) = {<<p[x], p[x + 1]>> : x \in 1..(k - 1)}
        <3>1. k \in Nat
            BY <1>6
        <3> QED
            BY <1>8, <3>1, StepPairs
    <2>2. ASSUME NEW e \in Pairs(F) PROVE e \in {<<p[x], p[x + 1]>> : x \in 1..(k - 1)}
        <3>1. PICK a \in F : e = <<Tail1(a), Head1(a)>>
            BY <1>1, <2>2 DEF Pairs
        <3>2. PICK x \in 1..(k - 1) : Tail1(a) = p[x] /\ Head1(a) = p[x + 1]
            BY <1>17
        <3> QED
            BY <3>1, <3>2
    <2>3. ASSUME NEW x \in 1..(k - 1) PROVE <<p[x], p[x + 1]>> \in Pairs(F)
        <3>1. PICK a \in F : Tail1(a) = p[x] /\ Head1(a) = p[x + 1]
            BY <1>7
        <3>2. graph.edges[a] = <<p[x], p[x + 1]>>
            BY <1>1, <3>1
        <3> QED
            BY <3>2 DEF Pairs
    <2> QED
        BY <2>1, <2>2, <2>3
<1>23. Ends(F) = Vertices <=> k = N
    BY <1>6, <1>19, AllVisited
<1>24. Cardinality(F) + 1 = k
    BY <1>6, <1>18
<1>25. u \in Ends(F) /\ w \in Ends(F)
    BY <1>5, <1>6, <1>12, <1>20
<1> QED
    BY <1>5, <1>12, <1>20, <1>21, <1>22, <1>23, <1>24, <1>25

-----------------------------------------------------------------------------
(***************************************************************************)
(* Forests.                                                                *)
(***************************************************************************)
\* No edge of F joins what earlier ones have linked.
Earlier(F, a) == F \cap (1..(a - 1))
Acyclic(F) == \A a \in F : ~Linked(Earlier(F, a), Tail1(a), Head1(a))

\* At most one edge of F enters each vertex; none enters v.
OneIn(F) == \A a, b \in F : Head1(a) = Head1(b) => a = b
Source(F, v) == \A a \in F : Head1(a) # v

\* The vertices reached are the least set that edges do not lead out of.
LEMMA ReachedLeast ==
    ASSUME NEW F, NEW R, NEW S \in SUBSET Vertices, R \subseteq S,
           \A a \in F : Tail1(a) \in S => Head1(a) \in S
    PROVE  Reached(F, R) \subseteq S
BY DEF Reached, Tail1, Head1

LEMMA ReachedFacts ==
    ASSUME IsGraph(graph), NEW F \in SUBSET EdgeIds
    PROVE  /\ \A R \in SUBSET Vertices : R \subseteq Reached(F, R)
           /\ \A R : \A a \in F : Tail1(a) \in Reached(F, R) => Head1(a) \in Reached(F, R)
           /\ \A u, v, w : v \in Reached(F, {u}) /\ w \in Reached(F, {v}) => w \in Reached(F, {u})
           /\ \A G \in SUBSET EdgeIds : \A R : F \subseteq G => Reached(F, R) \subseteq Reached(G, R)
           /\ \A R \in SUBSET Vertices : \A v \in Reached(F, R) :
                v \in R \/ \E a \in F : Head1(a) = v /\ Tail1(a) \in Reached(F, R)
           /\ \A u \in Vertices : \A v \in Reached(F, {u}) : Linked(F, u, v)
<1>1. \A a \in F : Tail1(a) \in Vertices /\ Head1(a) \in Vertices /\ Incident(graph, a) = {Tail1(a), Head1(a)}
    BY GraphFacts DEF Tail1, Head1, Incident
<1>2. \A R : Reached(F, R) \in SUBSET Vertices
    BY DEF Reached
<1>3. \A R \in SUBSET Vertices : R \subseteq Reached(F, R)
    BY DEF Reached
<1>4. \A R : \A a \in F : Tail1(a) \in Reached(F, R) => Head1(a) \in Reached(F, R)
    BY <1>1 DEF Reached, Tail1, Head1
<1>5. ASSUME NEW u, NEW v \in Reached(F, {u}) PROVE Reached(F, {v}) \subseteq Reached(F, {u})
    BY <1>2, <1>4, ReachedLeast
<1>6. ASSUME NEW G \in SUBSET EdgeIds, NEW R, F \subseteq G
      PROVE  Reached(F, R) \subseteq Reached(G, R)
    BY <1>6 DEF Reached
<1>7. ASSUME NEW R \in SUBSET Vertices, NEW v \in Reached(F, R), v \notin R,
             \A a \in F : Head1(a) = v => Tail1(a) \notin Reached(F, R)
      PROVE  FALSE
    <2> DEFINE S == Reached(F, R) \ {v}
    <2>1. S \in SUBSET Vertices /\ R \subseteq S
        BY <1>2, <1>3, <1>7
    <2>2. \A a \in F : Tail1(a) \in S => Head1(a) \in S
        BY <1>4, <1>7
    <2> HIDE DEF S
    <2>3. Reached(F, R) \subseteq S
        BY <2>1, <2>2, ReachedLeast
    <2> QED
        BY <1>7, <2>3 DEF S
<1>8. ASSUME NEW u \in Vertices, NEW v \in Reached(F, {u}) PROVE Linked(F, u, v)
    <2> DEFINE S == {w \in Vertices : Linked(F, u, w)}
    <2>1. S \in SUBSET Vertices /\ {u} \subseteq S
        BY LinkedEquivalence
    <2>2. ASSUME NEW a \in F, Tail1(a) \in S PROVE Head1(a) \in S
        <3>1. Linked(F, Tail1(a), Head1(a))
            BY <1>1, LinkedEquivalence
        <3> QED
            BY <1>1, <2>2, <3>1, LinkedEquivalence
    <2> HIDE DEF S
    <2>3. Reached(F, {u}) \subseteq S
        BY <2>1, <2>2, ReachedLeast
    <2> QED
        BY <2>3 DEF S
<1> QED
    BY <1>3, <1>4, <1>5, <1>6, <1>7, <1>8

\* Each vertex is reached from one that no edge enters, and those two that are
\* linked only from one.
Rooted(F) ==
    /\ \A u, v \in Vertices : Source(F, u) /\ Linked(F, u, v) => v \in Reached(F, {u})
    /\ \A v \in Vertices : \E r \in Vertices : Source(F, r) /\ v \in Reached(F, {r})

LEMMA RootedAdd ==
    ASSUME IsGraph(graph), NEW F \in SUBSET EdgeIds, NEW a \in EdgeIds \ F, OneIn(F \cup {a}),
           ~Linked(F, Tail1(a), Head1(a)), Rooted(F)
    PROVE  Rooted(F \cup {a})
<1> DEFINE G == F \cup {a}
           x == Tail1(a)
           y == Head1(a)
<1>1. /\ G \in SUBSET EdgeIds /\ x \in Vertices /\ y \in Vertices /\ F \subseteq G /\ a \in G
      /\ \A v : Source(G, v) <=> Source(F, v) /\ v # y
    BY GraphFacts DEF Tail1, Head1, Source
<1>2. Source(F, y)
    BY DEF OneIn, Source
<1>3. \A u, v, w : v \in Reached(G, {u}) /\ w \in Reached(G, {v}) => w \in Reached(G, {u})
    BY <1>1, ReachedFacts
<1>4. \A u, v : v \in Reached(F, {u}) => v \in Reached(G, {u})
    BY <1>1, ReachedFacts
<1>5. \A u : x \in Reached(G, {u}) => y \in Reached(G, {u})
    BY <1>1, ReachedFacts
<1>6. /\ \A u, v \in Vertices : Linked(F, u, v) => Linked(F, v, u)
      /\ \A u \in Vertices : \A v \in Reached(F, {u}) : Linked(F, u, v)
      /\ \A u, v \in Vertices : Linked(G, u, v) =>
            \/ Linked(F, u, v)
            \/ Linked(F, u, x) /\ Linked(F, y, v)
            \/ Linked(F, u, y) /\ Linked(F, x, v)
    BY LinkedEquivalence, ReachedFacts, LinkedAdd
<1>7. ASSUME NEW u \in Vertices, Source(F, u), u # y PROVE ~Linked(F, u, y)
    <2>1. SUFFICES ASSUME Linked(F, u, y) PROVE FALSE
        OBVIOUS
    <2>2. y \in Reached(F, {u})
        BY <1>1, <1>7, <2>1 DEF Rooted
    <2>3. {u} \in SUBSET Vertices
        OBVIOUS
    <2>4. \E b \in F : Head1(b) = y
        BY <1>7, <2>2, <2>3, ReachedFacts
    <2> QED
        BY <1>2, <2>4 DEF Source
<1> HIDE DEF G, x, y
<1>8. ASSUME NEW u \in Vertices, NEW v \in Vertices, Source(G, u), Linked(G, u, v)
      PROVE  v \in Reached(G, {u})
    <2>1. Source(F, u) /\ u # y
        BY <1>1, <1>8
    <2>2. CASE Linked(F, u, v)
        BY <1>4, <2>1, <2>2 DEF Rooted
    <2>3. CASE Linked(F, u, x) /\ Linked(F, y, v)
        <3>1. x \in Reached(G, {u}) /\ v \in Reached(G, {y})
            BY <1>1, <1>2, <1>4, <2>1, <2>3 DEF Rooted
        <3> QED
            BY <1>3, <1>5, <3>1
    <2>4. CASE Linked(F, u, y) /\ Linked(F, x, v)
        BY <1>7, <2>1, <2>4
    <2> QED
        BY <1>6, <1>8, <2>2, <2>3, <2>4
<1>9. ASSUME NEW v \in Vertices
      PROVE  \E r \in Vertices : Source(G, r) /\ v \in Reached(G, {r})
    <2>1. PICK r \in Vertices : Source(F, r) /\ v \in Reached(F, {r})
        BY DEF Rooted
    <2>2. CASE r # y
        BY <1>1, <1>4, <2>1, <2>2
    <2>3. CASE r = y
        <3>1. PICK q \in Vertices : Source(F, q) /\ x \in Reached(F, {q})
            BY <1>1 DEF Rooted
        <3>2. q # y
            BY <1>1, <1>6, <3>1 DEF x, y
        <3>3. v \in Reached(G, {q})
            BY <1>3, <1>4, <1>5, <2>1, <2>3, <3>1
        <3> QED
            BY <1>1, <3>1, <3>2, <3>3
    <2> QED
        BY <2>2, <2>3
<1> QED
    BY <1>8, <1>9 DEF Rooted, G

\* The earlier edges of F are a set of edges with the same earlier edges.
LEMMA EarlierAcyclic ==
    ASSUME IsGraph(graph), NEW F \in SUBSET EdgeIds, NEW a \in EdgeIds
    PROVE  /\ Earlier(F, a) \in SUBSET EdgeIds /\ a \notin Earlier(F, a)
           /\ \A b \in Earlier(F, a) : b < a /\ b \in F /\ Earlier(Earlier(F, a), b) = Earlier(F, b)
BY GraphFacts DEF Earlier, EdgeIds

\* Adding the edges of a forest in order keeps it rooted.
LEMMA AcyclicRooted ==
    ASSUME IsGraph(graph), NEW F \in SUBSET EdgeIds, OneIn(F), Acyclic(F)
    PROVE  Rooted(F)
<1> DEFINE Part(b) == F \cap (1..b)
           S == {b \in Nat : Rooted(Part(b))}
<1>1. M \in Nat /\ EdgeIds = 1..M /\ Part(0) = {} /\ Part(M) = F
    <2>1. M \in Nat /\ EdgeIds = 1..M /\ F \subseteq 1..M
        BY GraphFacts DEF EdgeIds
    <2>2. 1..0 = {}
        OBVIOUS
    <2> QED
        BY <2>1, <2>2
<1>2. Rooted({})
    <2>1. \A v : Source({}, v)
        BY DEF Source
    <2>2. \A v \in Vertices : v \in Reached({}, {v})
        BY ReachedFacts
    <2>3. \A u \in Vertices : \A v : Linked({}, u, v) => v = u
        BY LinkedAlone
    <2> QED
        BY <2>1, <2>2, <2>3 DEF Rooted
<1>3. ASSUME NEW b \in 0..(M - 1), Rooted(Part(b)) PROVE Rooted(Part(b + 1))
    <2>1. CASE b + 1 \notin F
        <3>1. Part(b + 1) = Part(b)
            BY <1>1, <2>1
        <3> QED
            BY <1>3, <3>1
    <2>2. CASE b + 1 \in F
        <3>1. /\ Part(b + 1) = Part(b) \cup {b + 1} /\ b + 1 \in EdgeIds \ Part(b)
              /\ Part(b) \in SUBSET EdgeIds /\ Part(b) = Earlier(F, b + 1)
              /\ Part(b + 1) \subseteq F
            BY <1>1, <2>2 DEF Earlier
        <3>2. ~Linked(Part(b), Tail1(b + 1), Head1(b + 1))
            BY <2>2, <3>1 DEF Acyclic
        <3>3. OneIn(Part(b) \cup {b + 1})
            BY <3>1 DEF OneIn
        <3> HIDE DEF Part
        <3> QED
            BY <1>3, <3>1, <3>2, <3>3, RootedAdd
    <2> QED
        BY <2>1, <2>2
<1> HIDE DEF Part
<1>4. 0 \in S
    BY <1>1, <1>2
<1>5. \A b \in 0..(M - 1) : b \in S => b + 1 \in S
    BY <1>1, <1>3
<1> HIDE DEF S
<1>6. 0..M \subseteq S
    <2>1. S \in SUBSET Nat
        BY DEF S
    <2> QED
        BY <1>1, <1>4, <1>5, <2>1, InductionTo
<1> QED
    BY <1>1, <1>6 DEF S

\* A set of edges that reaches its vertices from sources links nothing twice.
LEMMA ReachedAcyclic ==
    ASSUME IsGraph(graph), NEW F \in SUBSET EdgeIds, OneIn(F), NEW R \in SUBSET Vertices,
           \A r \in R : Source(F, r), Ends(F) \subseteq Reached(F, R)
    PROVE  Acyclic(F)
<1> DEFINE Bad == {b \in F : Linked(Earlier(F, b), Tail1(b), Head1(b))}
<1>1. SUFFICES ASSUME Bad # {} PROVE FALSE
    BY DEF Acyclic
<1>2. PICK a \in Bad : \A b \in Bad : a <= b
    <2>1. Bad \in SUBSET Nat
        <3>1. EdgeIds \subseteq Nat
            BY GraphFacts DEF EdgeIds
        <3> QED
            BY <3>1
    <2> HIDE DEF Bad
    <2> QED
        BY <1>1, <2>1, LeastElement
<1> DEFINE G == Earlier(F, a)
           x == Tail1(a)
           y == Head1(a)
           D == Reached(F, {y})
<1>3. /\ a \in F /\ Linked(G, x, y) /\ x \in Vertices /\ y \in Vertices /\ y \in Ends(F)
      /\ G \in SUBSET EdgeIds /\ G \subseteq F /\ a \notin G /\ a \in EdgeIds
      /\ \A b \in G : b \notin Bad /\ Earlier(G, b) = Earlier(F, b)
    <2>1. a \in F /\ a \in EdgeIds /\ Linked(G, x, y)
        OBVIOUS
    <2>2. x \in Vertices /\ y \in Vertices /\ Incident(graph, a) = {x, y}
        BY <2>1, GraphFacts DEF Tail1, Head1, Incident
    <2>3. y \in Ends(F)
        BY <2>1, <2>2 DEF Ends
    <2>4. G \in SUBSET EdgeIds /\ a \notin G /\ \A b \in G : b < a /\ b \in F /\ Earlier(G, b) = Earlier(F, b)
        BY <2>1, EarlierAcyclic
    <2>5. \A b \in G : b \notin Bad
        <3>1. \A b \in G : b \in Nat /\ a \in Nat
            BY <2>1, <2>4, GraphFacts DEF EdgeIds
        <3> HIDE DEF G, Bad
        <3> QED
            BY <1>2, <2>4, <3>1
    <2> QED
        BY <2>1, <2>2, <2>3, <2>4, <2>5
<1>4. Acyclic(G)
    BY <1>3 DEF Acyclic
<1>5. OneIn(G) /\ Source(G, y)
    BY <1>3 DEF OneIn, Source
<1> HIDE DEF G, x, y
<1>6. x \in D
    <2>1. Rooted(G) /\ Linked(G, y, x)
        BY <1>3, <1>4, <1>5, AcyclicRooted, LinkedEquivalence
    <2>2. x \in Reached(G, {y})
        BY <1>3, <1>5, <2>1 DEF Rooted
    <2> QED
        BY <1>3, <2>2, ReachedFacts
<1>7. /\ y \in D /\ \A v \in D : v \in Vertices
      /\ \A b \in F : Tail1(b) \in Vertices /\ Head1(b) \in Vertices
      /\ \A v \in D : v \in {y} \/ \E b \in F : Head1(b) = v /\ Tail1(b) \in D
    <2>1. {y} \in SUBSET Vertices
        BY <1>3
    <2>2. {y} \subseteq D /\ \A v \in D : v \in {y} \/ \E b \in F : Head1(b) = v /\ Tail1(b) \in D
        BY <2>1, ReachedFacts
    <2>3. \A v \in D : v \in Vertices
        BY DEF Reached
    <2>4. \A b \in F : Tail1(b) \in Vertices /\ Head1(b) \in Vertices
        BY GraphFacts DEF Tail1, Head1
    <2> QED
        BY <2>2, <2>3, <2>4
<1> HIDE DEF D
<1>8. \A v \in D : \E b \in F : Head1(b) = v /\ Tail1(b) \in D
    BY <1>3, <1>6, <1>7 DEF x, y
<1>9. \A b \in F : Head1(b) \in D => Tail1(b) \in D
    BY <1>8 DEF OneIn
<1>10. Reached(F, R) \subseteq Vertices \ D
    <2>1. R \subseteq Vertices \ D
        BY <1>8 DEF Source
    <2>2. \A b \in F : Tail1(b) \in Vertices \ D => Head1(b) \in Vertices \ D
        BY <1>7, <1>9
    <2> QED
        BY <2>1, <2>2, ReachedLeast
<1> QED
    BY <1>3, <1>7, <1>10

\* Edges counted by the vertices they enter.
LEMMA HeadsCounted ==
    ASSUME IsGraph(graph), NEW F \in SUBSET EdgeIds, NEW X,
           X \subseteq {Head1(a) : a \in F}
    PROVE  Cardinality(F) = Cardinality(X) <=> OneIn(F) /\ X = {Head1(a) : a \in F}
<1> DEFINE H == {Head1(a) : a \in F}
           f == [a \in F |-> Head1(a)]
<1>1. f \in Surjection(F, H)
    BY DEF Surjection
<1>2. f \in Injection(F, H) <=> OneIn(F)
    BY DEF Injection, IsInjective, OneIn
<1> HIDE DEF H, f
<1>3. IsFiniteSet(F)
    BY DegreeFacts
<1>4. /\ IsFiniteSet(H) /\ Cardinality(H) <= Cardinality(F)
      /\ Cardinality(H) = Cardinality(F) <=> OneIn(F)
    BY <1>1, <1>2, <1>3, FS_Surjection
<1>5. X \in SUBSET H
    BY DEF H
<1>6. /\ IsFiniteSet(X) /\ Cardinality(X) <= Cardinality(H)
      /\ Cardinality(H) = Cardinality(X) => H = X
    BY <1>4, <1>5, FS_Subset
<1>7. Cardinality(F) \in Nat /\ Cardinality(H) \in Nat /\ Cardinality(X) \in Nat
    BY <1>3, <1>4, <1>6, FS_CardinalityType
<1> QED
    BY <1>4, <1>6, <1>7 DEF H
-----------------------------------------------------------------------------
(***************************************************************************)
(* What the searches that keep components look for.                        *)
(***************************************************************************)
Routes == {"cycles", "hamiltonian_cycles", "paths"}
Branchings == {"forests", "trees"}

\* What search s is after is to go through every vertex; where it is to begin
\* and to end; and how it is to be at v.
Spanning(s) ==
    \/ s = "hamiltonian_cycles"
    \/ s = "paths" /\ args.is_hamiltonian
    \/ s \in Branchings /\ args.is_spanning
Endpoints(s) ==
    CASE s = "paths"   -> {args.s, args.t}
      [] s = "forests" -> args.roots
      [] OTHER         -> {}
Fits(s, F, v) ==
    CASE s = "paths"   -> /\ OnRoute(F, args.s, args.t, v)
                          /\ args.is_hamiltonian => ~Alone(F, v)
      [] s = "forests" -> /\ ~(args.is_spanning /\ Alone(F, v))
                          /\ IF args.roots = {} THEN In(F, v) <= 1
                             ELSE IF v \in args.roots THEN In(F, v) = 0 /\ Out(F, v) > 0
                             ELSE In(F, v) = 1 \/ Alone(F, v)
      [] s = "trees"   -> /\ ~(args.is_spanning /\ Alone(F, v))
                          /\ IF v = args.root THEN In(F, v) = 0
                             ELSE ~(In(F, v) = 0 /\ Out(F, v) > 0) /\ In(F, v) <= 1
      [] OTHER         -> Alone(F, v) \/ Passed(F, v)

Target(s, F) ==
    /\ s \in Routes => F # {}
    /\ s \in Branchings => Acyclic(F)
    /\ s # "forests" => InOne(F)
    /\ \A v \in Vertices : Fits(s, F, v)
    /\ Spanning(s) => Ends(F) = Vertices

LEMMA FitFacts ==
    ASSUME NEW s
    PROVE  /\ \A F, G, v : In(F, v) = In(G, v) /\ Out(F, v) = Out(G, v) =>
                /\ Fits(s, F, v) <=> Fits(s, G, v)
                /\ Alone(F, v) <=> Alone(G, v)
           /\ \A F, v : v \in Endpoints(s) /\ Fits(s, F, v) => ~Alone(F, v)
           /\ \A F, v : Alone(F, v) /\ v \notin Endpoints(s) /\ ~Spanning(s) => Fits(s, F, v)
           /\ \A F, v : s # "hamiltonian_cycles" /\ Spanning(s) /\ Fits(s, F, v) => ~Alone(F, v)
<1>1. ASSUME NEW F, NEW G, NEW v, In(F, v) = In(G, v), Out(F, v) = Out(G, v)
      PROVE  (Fits(s, F, v) <=> Fits(s, G, v)) /\ (Alone(F, v) <=> Alone(G, v))
    BY <1>1 DEF Fits, OnRoute, Begun, Arrived, Alone, Passed
<1>2. ASSUME NEW F, NEW v
      PROVE  /\ v \in Endpoints(s) /\ Fits(s, F, v) => ~Alone(F, v)
             /\ Alone(F, v) /\ v \notin Endpoints(s) /\ ~Spanning(s) => Fits(s, F, v)
             /\ s # "hamiltonian_cycles" /\ Spanning(s) /\ Fits(s, F, v) => ~Alone(F, v)
    BY DEF Fits, Endpoints, Spanning, Branchings, OnRoute, Begun, Arrived, Alone, Passed
<1> QED
    BY <1>1, <1>2

\* The three families in the terms of the code.
LEMMA Targets ==
    ASSUME IsGraph(graph), NEW F \in SUBSET EdgeIds
    PROVE  /\ Target("cycles", F) <=>
                \E k \in 1..N : \E p \in Orders(k) : Cardinality(F) = k /\ Pairs(F) = Circuit(p)
           /\ Target("hamiltonian_cycles", F) <=>
                \E p \in Orders(N) : Cardinality(F) = N /\ Pairs(F) = Circuit(p)
           /\ args \in Args("paths") =>
                (Target("paths", F) <=>
                    /\ args.s # args.t /\ args.s \in Ends(F) /\ args.t \in Ends(F)
                    /\ Cardinality(Ends(F)) = Cardinality(F) + 1
                    /\ args.is_hamiltonian => Cardinality(F) + 1 = N
                    /\ \E p \in [1..(Cardinality(F) + 1) -> Ends(F)] :
                            p[1] = args.s /\ p[Cardinality(F) + 1] = args.t /\ Pairs(F) = Steps(p))
<1>1. ASSUME Ring(F)
      PROVE  \E k \in 1..N : \E p \in Orders(k) :
                /\ Cardinality(F) = k /\ Pairs(F) = Circuit(p) /\ Ends(F) = Visited(p, k)
    <2>1. PICK k \in 1..N : \E p \in Orders(k) : Cardinality(F) = k /\ Pairs(F) = Circuit(p)
        BY <1>1, RingIsCycle
    <2>2. PICK p \in Orders(k) : Cardinality(F) = k /\ Pairs(F) = Circuit(p)
        BY <2>1
    <2>3. Ends(F) = Visited(p, k)
        BY <2>2, CycleIsRing
    <2> QED
        BY <2>2, <2>3
<1>2. ASSUME NEW k \in 1..N, NEW p \in Orders(k), Cardinality(F) = k, Pairs(F) = Circuit(p)
      PROVE  Ring(F) /\ Ends(F) = Visited(p, k)
    BY <1>2, CycleIsRing
<1>3. \A k \in 1..N : \A p \in Orders(k) : Visited(p, k) = Vertices <=> k = N
    BY AllVisited
<1>4. N \in 1..N
    BY GraphFacts
<1>5. Target("cycles", F) <=> Ring(F)
    BY DEF Target, Fits, Spanning, Routes, Branchings, Ring, Joint
<1>6. Target("hamiltonian_cycles", F) <=> Ring(F) /\ Ends(F) = Vertices
    BY DEF Target, Fits, Spanning, Routes, Branchings, Ring, Joint
<1>7. (Ring(F) /\ Ends(F) = Vertices) <=>
            \E p \in Orders(N) : Cardinality(F) = N /\ Pairs(F) = Circuit(p)
    <2>1. ASSUME Ring(F), Ends(F) = Vertices
          PROVE  \E p \in Orders(N) : Cardinality(F) = N /\ Pairs(F) = Circuit(p)
        <3>1. PICK k \in 1..N : \E p \in Orders(k) :
                /\ Cardinality(F) = k /\ Pairs(F) = Circuit(p) /\ Ends(F) = Visited(p, k)
            BY <1>1, <2>1
        <3> QED
            BY <1>3, <2>1, <3>1
    <2>2. ASSUME NEW p \in Orders(N), Cardinality(F) = N, Pairs(F) = Circuit(p)
          PROVE  Ring(F) /\ Ends(F) = Vertices
        BY <1>2, <1>3, <1>4, <2>2
    <2> QED
        BY <2>1, <2>2
<1> DEFINE k0 == Cardinality(F) + 1
           Path == \E p \in [1..k0 -> Ends(F)] : p[1] = args.s /\ p[k0] = args.t /\ Pairs(F) = Steps(p)
<1>8. ASSUME args \in Args("paths")
      PROVE  Target("paths", F) <=>
                /\ args.s # args.t /\ args.s \in Ends(F) /\ args.t \in Ends(F)
                /\ Cardinality(Ends(F)) = k0 /\ (args.is_hamiltonian => k0 = N) /\ Path
    <2>1. args.s \in Vertices /\ args.t \in Vertices
        BY <1>8 DEF Args
    <2>2. Target("paths", F) <=>
            Route(F, args.s, args.t) /\ (args.is_hamiltonian => Ends(F) = Vertices)
        <3>1. args.is_hamiltonian /\ Ends(F) = Vertices => \A v \in Vertices : ~Alone(F, v)
            BY EndsAlone
        <3>2. Target("paths", F) <=>
                /\ Joint(F)
                /\ \A v \in Vertices : OnRoute(F, args.s, args.t, v)
                /\ \A v \in Vertices : args.is_hamiltonian => ~Alone(F, v)
                /\ args.is_hamiltonian => Ends(F) = Vertices
            BY DEF Target, Fits, Spanning, Routes, Branchings, Joint
        <3> QED
            BY <3>1, <3>2 DEF Route
    <2>3. ASSUME Route(F, args.s, args.t)
          PROVE  /\ args.s # args.t /\ args.s \in Ends(F) /\ args.t \in Ends(F)
                 /\ Cardinality(Ends(F)) = k0 /\ (Ends(F) = Vertices <=> k0 = N) /\ Path
        BY <2>1, <2>3, RouteIsPath
    <2>4. ASSUME args.s # args.t, args.s \in Ends(F), args.t \in Ends(F),
                 Cardinality(Ends(F)) = k0, Path
          PROVE  Route(F, args.s, args.t)
        <3>1. PICK p \in [1..k0 -> Ends(F)] : p[1] = args.s /\ p[k0] = args.t /\ Pairs(F) = Steps(p)
            BY <2>4
        <3>2. k0 = Cardinality(F) + 1
            OBVIOUS
        <3> HIDE DEF k0
        <3> QED
            BY <2>4, <3>1, <3>2, PathIsRoute
    <2> HIDE DEF k0, Path
    <2> QED
        BY <2>2, <2>3, <2>4
<1> QED
    BY <1>1, <1>2, <1>5, <1>6, <1>7, <1>8

\* Degrees and ends.
LEMMA HeadFacts ==
    ASSUME IsGraph(graph), NEW F \in SUBSET EdgeIds
    PROVE  /\ \A v : In(F, v) \in Nat /\ Out(F, v) \in Nat /\ (Source(F, v) <=> In(F, v) = 0)
           /\ OneIn(F) <=> \A v \in Vertices : In(F, v) <= 1
           /\ \A a \in F : Tail1(a) \in Ends(F)
           /\ {Head1(a) : a \in F} = {v \in Ends(F) : ~Source(F, v)}
           /\ IsFiniteSet(Ends(F)) /\ Ends(F) \subseteq Vertices
           /\ F # {} => Ends(F) # {}
<1>1. \A v : In(F, v) \in Nat /\ Out(F, v) \in Nat
    BY DegreeFacts
<1>2. \A v : Source(F, v) <=> In(F, v) = 0
    BY SingleEdges DEF Source
<1>3. \A a \in F : /\ Head1(a) \in Vertices /\ Incident(graph, a) = {Tail1(a), Head1(a)}
                   /\ Tail1(a) \in Ends(F) /\ Head1(a) \in Ends(F)
    BY GraphFacts DEF Head1, Tail1, Incident, Ends
<1>4. OneIn(F) <=> \A v \in Vertices : In(F, v) <= 1
    <2>1. ASSUME OneIn(F), NEW v \in Vertices PROVE In(F, v) <= 1
        <3>1. In(F, v) = 0 \/ In(F, v) = 1
            BY <2>1, SingleEdges DEF OneIn
        <3> QED
            BY <3>1
    <2>2. ASSUME \A v \in Vertices : In(F, v) <= 1, NEW a \in F, NEW b \in F, Head1(a) = Head1(b)
          PROVE  a = b
        <3>1. In(F, Head1(a)) # 0
            BY SingleEdges
        <3>2. In(F, Head1(a)) = 1
            BY <1>1, <1>3, <2>2, <3>1
        <3> QED
            BY <2>2, <3>2, OnlyEdges
    <2> QED
        BY <2>1, <2>2 DEF OneIn
<1>5. IsFiniteSet(Ends(F)) /\ Ends(F) \subseteq Vertices
    <2>1. Ends(F) \subseteq Vertices
        BY EndsAlone
    <2>2. IsFiniteSet(Vertices)
        BY GraphFacts, FS_Interval DEF Vertices
    <2> QED
        BY <2>1, <2>2, FS_Subset
<1>6. {Head1(a) : a \in F} = {v \in Ends(F) : ~Source(F, v)}
    BY <1>3 DEF Source
<1> QED
    BY <1>1, <1>2, <1>3, <1>4, <1>5, <1>6

\* The ends of a forest are reached from ends that are sources.
LEMMA SourcesReach ==
    ASSUME IsGraph(graph), NEW F \in SUBSET EdgeIds, OneIn(F), Acyclic(F), NEW v \in Ends(F)
    PROVE  \E r \in Ends(F) : Source(F, r) /\ v \in Reached(F, {r})
<1>1. v \in Vertices
    BY EndsAlone
<1>2. PICK r \in Vertices : Source(F, r) /\ v \in Reached(F, {r})
    BY <1>1, AcyclicRooted DEF Rooted
<1>3. Linked(F, r, v)
    BY <1>2, ReachedFacts
<1>4. r \in Ends(F)
    <2>1. SUFFICES ASSUME r \notin Ends(F) PROVE FALSE
        OBVIOUS
    <2>2. \A a \in F : r \notin Incident(graph, a)
        BY <2>1 DEF Ends
    <2> QED
        BY <1>3, <2>1, <2>2, LinkedAlone
<1> QED
    BY <1>2, <1>4

\* The forests of the code, and the trees, as degrees and components.
LEMMA ForestTarget ==
    ASSUME IsGraph(graph), args \in Args("forests"), NEW F \in SUBSET EdgeIds,
           NEW R, R = {v \in Ends(F) : Source(F, v)}
    PROVE  Target("forests", F) <=>
                /\ Ends(F) \subseteq Reached(F, R)
                /\ Cardinality(F) = Cardinality(Ends(F)) - Cardinality(R)
                /\ args.roots # {} => R = args.roots
                /\ args.is_spanning => Ends(F) = Vertices
<1> DEFINE s == "forests"
           Reaches == Ends(F) \subseteq Reached(F, R)
           Spans == args.is_spanning => Ends(F) = Vertices
<1>1. /\ \A v : In(F, v) \in Nat /\ Out(F, v) \in Nat /\ (Source(F, v) <=> In(F, v) = 0)
      /\ OneIn(F) <=> \A v \in Vertices : In(F, v) <= 1
      /\ Ends(F) \subseteq Vertices /\ IsFiniteSet(Ends(F))
      /\ \A v : v \in Ends(F) <=> ~Alone(F, v)
    BY HeadFacts, EndsAlone
<1>2. args.roots \subseteq Vertices
    BY DEF Args
<1>3. Cardinality(F) = Cardinality(Ends(F)) - Cardinality(R) <=> OneIn(F)
    <2>1. Ends(F) \ R = {Head1(a) : a \in F} /\ Ends(F) \cap R = R
        BY HeadFacts
    <2>2. Cardinality(Ends(F) \ R) = Cardinality(Ends(F)) - Cardinality(R)
        BY <1>1, <2>1, FS_Difference
    <2>3. Cardinality(F) = Cardinality(Ends(F) \ R) <=> OneIn(F)
        BY <2>1, HeadsCounted
    <2> QED
        BY <2>2, <2>3
<1>4. Target(s, F) <=> Acyclic(F) /\ (\A v \in Vertices : Fits(s, F, v)) /\ Spans
    BY DEF Target, Spanning, Routes, Branchings
<1>5. \A v : Fits(s, F, v) <=>
                /\ ~(args.is_spanning /\ Alone(F, v))
                /\ IF args.roots = {} THEN In(F, v) <= 1
                   ELSE IF v \in args.roots THEN In(F, v) = 0 /\ Out(F, v) > 0
                   ELSE In(F, v) = 1 \/ Alone(F, v)
    BY DEF Fits
<1>6. ASSUME \A v \in Vertices : Fits(s, F, v) PROVE OneIn(F)
    BY <1>1, <1>5, <1>6 DEF Alone
<1>7. ASSUME Acyclic(F), OneIn(F) PROVE Reaches
    <2>1. ASSUME NEW v \in Ends(F) PROVE v \in Reached(F, R)
        <3>1. PICK r \in R : v \in Reached(F, {r})
            BY <1>7, SourcesReach
        <3> QED
            BY <3>1 DEF Reached
    <2> QED
        BY <2>1
<1>8. ASSUME Reaches, OneIn(F) PROVE Acyclic(F)
    BY <1>1, <1>8, ReachedAcyclic
<1> HIDE DEF s, Reaches
<1>9. ASSUME OneIn(F), Spans
      PROVE  (\A v \in Vertices : Fits(s, F, v)) <=> (args.roots # {} => R = args.roots)
    <2>1. ASSUME \A v \in Vertices : Fits(s, F, v), args.roots # {} PROVE R = args.roots
        BY <1>1, <1>2, <1>5, <2>1 DEF Alone
    <2>2. ASSUME args.roots # {} => R = args.roots, NEW v \in Vertices PROVE Fits(s, F, v)
        <3>1. ~(args.is_spanning /\ Alone(F, v))
            BY <1>1, <1>9
        <3>2. CASE args.roots = {}
            BY <1>1, <1>5, <1>9, <3>1, <3>2
        <3>3. CASE args.roots # {} /\ v \in args.roots
            <4>1. v \in R
                BY <2>2, <3>3
            <4>2. In(F, v) = 0 /\ ~Alone(F, v)
                BY <1>1, <4>1
            <4> QED
                BY <1>1, <1>5, <3>1, <3>3, <4>2 DEF Alone
        <3>4. CASE args.roots # {} /\ v \notin args.roots
            <4>1. v \notin R
                BY <2>2, <3>4
            <4>2. Alone(F, v) \/ In(F, v) # 0
                BY <1>1, <4>1
            <4>3. In(F, v) \in Nat /\ In(F, v) <= 1
                BY <1>1, <1>9
            <4> QED
                BY <1>5, <3>1, <3>4, <4>2, <4>3
        <3> QED
            BY <3>2, <3>3, <3>4
    <2> QED
        BY <2>1, <2>2
<1> HIDE DEF Spans
<1>10. Target(s, F) <=> Reaches /\ OneIn(F) /\ (args.roots # {} => R = args.roots) /\ Spans
    BY <1>4, <1>6, <1>7, <1>8, <1>9
<1> QED
    BY <1>3, <1>10 DEF s, Reaches, Spans

LEMMA TreeTarget ==
    ASSUME IsGraph(graph), args \in Args("trees"), NEW F \in SUBSET EdgeIds
    PROVE  Target("trees", F) <=>
                /\ F # {} => args.root \in Ends(F)
                /\ Ends(F) \subseteq Reached(F, {args.root})
                /\ F # {} => Cardinality(F) = Cardinality(Ends(F)) - 1
                /\ args.is_spanning => Ends(F) = Vertices
<1> DEFINE s == "trees"
           r == args.root
           Reaches == Ends(F) \subseteq Reached(F, {r})
           Counted == Cardinality(F) = Cardinality(Ends(F)) - 1
           Spans == args.is_spanning => Ends(F) = Vertices
<1>1. /\ \A v : In(F, v) \in Nat /\ Out(F, v) \in Nat /\ (Source(F, v) <=> In(F, v) = 0)
      /\ OneIn(F) <=> \A v \in Vertices : In(F, v) <= 1
      /\ Ends(F) \subseteq Vertices /\ IsFiniteSet(Ends(F)) /\ (F # {} => Ends(F) # {})
      /\ \A v : v \in Ends(F) <=> ~Alone(F, v)
    BY HeadFacts, EndsAlone
<1>2. r \in Vertices
    BY DEF Args
<1>3. Target(s, F) <=> Acyclic(F) /\ InOne(F) /\ (\A v \in Vertices : Fits(s, F, v)) /\ Spans
    BY DEF Target, Spanning, Routes, Branchings
<1>4. \A v : Fits(s, F, v) <=>
                /\ ~(args.is_spanning /\ Alone(F, v))
                /\ IF v = r THEN In(F, v) = 0
                   ELSE ~(In(F, v) = 0 /\ Out(F, v) > 0) /\ In(F, v) <= 1
    BY DEF Fits
<1>5. ASSUME r \in Ends(F)
      PROVE  Cardinality(Ends(F) \ {r}) = Cardinality(Ends(F)) - 1
    <2>1. IsFiniteSet(Ends(F))
        BY <1>1
    <2> HIDE DEF r
    <2> QED
        BY <1>5, <2>1, FS_RemoveElement
<1>6. {Head1(a) : a \in F} = {v \in Ends(F) : ~Source(F, v)}
    BY HeadFacts
<1>7. CASE F = {}
    <2>1. Ends(F) = {} /\ Acyclic(F) /\ InOne(F)
        BY <1>7 DEF Ends, Acyclic, InOne
    <2>2. \A v : Alone(F, v) /\ In(F, v) = 0 /\ Out(F, v) = 0
        BY <1>1, <2>1 DEF Alone
    <2>3. \A v : Fits(s, F, v) <=> ~args.is_spanning
        BY <1>4, <2>2
    <2> HIDE DEF s, r
    <2> QED
        BY <1>2, <1>3, <1>7, <2>1, <2>3 DEF s, r
<1>8. CASE F # {}
    <2>1. ASSUME Target(s, F) PROVE r \in Ends(F) /\ Reaches /\ Counted /\ Spans
        <3>1. /\ \A v \in Vertices : /\ v = r => In(F, v) = 0
                                     /\ v # r => ~(In(F, v) = 0 /\ Out(F, v) > 0) /\ In(F, v) <= 1
              /\ Acyclic(F) /\ Spans
            BY <1>3, <1>4, <2>1
        <3> HIDE DEF s, r, Spans
        <3>2. \A v \in Vertices : In(F, v) <= 1
            BY <3>1
        <3>3. \A v \in Ends(F) : Source(F, v) <=> v = r
            BY <1>1, <3>1 DEF Alone
        <3>4. \A v \in Ends(F) : r \in Ends(F) /\ v \in Reached(F, {r})
            BY <1>1, <3>1, <3>2, <3>3, SourcesReach
        <3>5. r \in Ends(F) /\ Reaches
            BY <1>1, <1>8, <3>4
        <3>6. Ends(F) \ {r} = {Head1(a) : a \in F}
            BY <1>6, <3>3
        <3>7. OneIn(F) /\ Ends(F) \ {r} \subseteq {Head1(a) : a \in F}
            BY <1>1, <3>2, <3>6
        <3>8. Cardinality(F) = Cardinality(Ends(F) \ {r})
            BY <3>6, <3>7, HeadsCounted
        <3> QED
            BY <1>5, <3>1, <3>5, <3>8
    <2>2. ASSUME r \in Ends(F), Reaches, Counted, Spans PROVE Target(s, F)
        <3>1. {r} \in SUBSET Vertices
            BY <1>2
        <3>2. Ends(F) \ {r} \subseteq {Head1(a) : a \in F}
            BY <2>2, <3>1, ReachedFacts
        <3>3. Cardinality(F) = Cardinality(Ends(F) \ {r})
            BY <1>5, <2>2
        <3>4. OneIn(F) /\ Ends(F) \ {r} = {Head1(a) : a \in F}
            BY <3>2, <3>3, HeadsCounted
        <3>5. \A v \in Ends(F) : Source(F, v) <=> v = r
            BY <1>6, <3>4
        <3>6. Acyclic(F)
            BY <2>2, <3>1, <3>4, <3>5, ReachedAcyclic
        <3>7. InOne(F)
            <4>1. \A v \in Ends(F) : v \in Vertices /\ Linked(F, r, v)
                BY <1>1, <1>2, <2>2, ReachedFacts
            <4>2. \A u, v \in Ends(F) : Linked(F, u, v)
                BY <1>2, <4>1, LinkedEquivalence
            <4> QED
                BY <4>2, HeadFacts DEF InOne
        <3> HIDE DEF s, r
        <3>8. ASSUME NEW v \in Vertices PROVE Fits(s, F, v)
            <4>1. In(F, v) \in Nat /\ In(F, v) <= 1 /\ ~(args.is_spanning /\ Alone(F, v))
                BY <1>1, <2>2, <3>4
            <4>2. CASE v = r
                BY <1>1, <1>4, <2>2, <3>5, <4>1, <4>2
            <4>3. CASE v # r /\ v \in Ends(F)
                <5>1. In(F, v) # 0
                    BY <1>1, <3>5, <4>3
                <5> QED
                    BY <1>4, <4>1, <4>3, <5>1
            <4>4. CASE v # r /\ v \notin Ends(F)
                <5>1. Out(F, v) = 0
                    BY <1>1, <4>4 DEF Alone
                <5> QED
                    BY <1>4, <4>1, <4>4, <5>1
            <4> QED
                BY <4>2, <4>3, <4>4
        <3> QED
            BY <1>3, <2>2, <3>6, <3>7, <3>8
    <2> HIDE DEF s, r, Reaches, Counted, Spans
    <2>3. Target(s, F) <=> r \in Ends(F) /\ Reaches /\ Counted /\ Spans
        BY <2>1, <2>2
    <2> QED
        BY <1>8, <2>3 DEF s, r, Reaches, Counted, Spans
<1> QED
    BY <1>7, <1>8
-----------------------------------------------------------------------------
(***************************************************************************)
(* Components that no later edge reaches.                                  *)
(***************************************************************************)
LEMMA ComponentComplete ==
    ASSUME IsGraph(graph), NEW a \in EdgeIds, NEW T \in SUBSET (1..a), NEW v \in LeavesAt(a),
           \A w \in Kept(a) : ~Linked(T, v, w), NEW F \in Completing(a, T)
    PROVE  /\ \A x : Linked(F, v, x) <=> Linked(T, v, x)
           /\ \A b \in F : \A x \in Incident(graph, b) : Linked(T, v, x) => b \in T
<1> DEFINE C == {x \in Vertices : Linked(T, v, x)}
<1>1. /\ M \in Nat /\ a \in 0..M /\ a \in 1..M /\ v \in Vertices /\ v \notin Touched(a + 1, M)
      /\ \A b \in EdgeIds : b \in 1..a \/ b \in (a + 1)..M
    BY GraphFacts, FrontierMoves, SettledFacts DEF EdgeIds
<1>2. T \in SUBSET EdgeIds /\ F \in SUBSET EdgeIds /\ T \subseteq F /\ \A b \in F : b \in 1..a => b \in T
    <2>1. T \in SUBSET EdgeIds
        BY <1>1 DEF EdgeIds
    <2> QED
        BY <1>1, <2>1, CompletionDegrees
<1>3. ASSUME NEW x \in C PROVE x \notin Touched(a + 1, M)
    <2> SUFFICES ASSUME x \in Touched(a + 1, M) PROVE FALSE
        OBVIOUS
    <2>1. x # v /\ Linked(T, x, v)
        BY <1>1, <1>2, LinkedEquivalence
    <2>2. PICK b \in T : x \in Incident(graph, b)
        BY <2>1, LinkedAlone
    <2>3. x \in Kept(a)
        BY <2>2 DEF Kept, Touched
    <2> QED
        BY <2>3
<1>4. ASSUME NEW b \in F, NEW x \in Incident(graph, b), x \in C
      PROVE  b \in T
    <2>1. b \notin (a + 1)..M
        BY <1>3, <1>4 DEF Touched
    <2> QED
        BY <1>1, <1>2, <2>1
<1>5. ASSUME NEW b \in F, Incident(graph, b) \cap C # {}
      PROVE  Incident(graph, b) \subseteq C
    <2>1. PICK x \in Incident(graph, b) : x \in C
        BY <1>5
    <2>2. b \in T /\ Incident(graph, b) \subseteq Vertices
        BY <1>2, <1>4, <2>1, GraphFacts
    <2>3. \A y \in Incident(graph, b) : Linked(T, x, y)
        BY <1>2, <2>1, <2>2, LinkedEquivalence
    <2> QED
        BY <1>2, <2>1, <2>2, <2>3, LinkedEquivalence
<1>6. Closed(F, C)
    BY <1>5 DEF Closed
<1>7. v \in C
    BY <1>1, <1>2, LinkedEquivalence
<1>8. \A x : Linked(F, v, x) => Linked(T, v, x)
    BY <1>6, <1>7, LinkedClosed
<1>9. \A x : Linked(T, v, x) => Linked(F, v, x)
    BY <1>2, LinkedMore
<1>10. \A b \in F : Incident(graph, b) \subseteq Vertices
    BY <1>2, GraphFacts
<1> QED
    BY <1>4, <1>8, <1>9, <1>10
-----------------------------------------------------------------------------
(***************************************************************************)
(* The checks of leaving vertices, in terms of the edges taken.            *)
(***************************************************************************)
\* The vertices of Q are as they are to be, and those that are not alone, or
\* may not stay so, are linked to a vertex of W, if all is to be in one piece.
Bound(s, T, Q, W) ==
    /\ s \in Branchings => Acyclic(T)
    /\ \A v \in Q :
        /\ Fits(s, T, v)
        /\ s # "forests" /\ (Spanning(s) \/ ~Alone(T, v)) => \E w \in W : Linked(T, v, w)

\* The check of the k-th leaving vertex.
JudgeOf(s, T, l, k) ==
    LET v == Leaving(l)[k]
        O == Others(l, k)
        came == Touched(1, EdgeOf(l))
    IN  IF ~Fits(s, T, v) THEN "zero"
        ELSE IF s = "forests" \/ \E w \in O : Linked(T, v, w) THEN "go"
        ELSE IF ~Spanning(s) /\ Alone(T, v) THEN "go"
        ELSE IF \/ \E w \in O : ~Alone(T, w)
                \/ Endpoints(s) \cap O # {} \/ ~(Endpoints(s) \subseteq came)
                \/ Spanning(s) /\ (O # {} \/ ~(Vertices \subseteq came))
             THEN "zero" ELSE "one"

\* What a search is called with: a Hamiltonian cycle is searched for in a graph
\* of more than one vertex, a spanning tree in one that is in one piece.
Whole == \A v, w \in Vertices : Linked(EdgeIds, v, w)
GoodSearch(s) ==
    /\ s \in Routes \cup Branchings
    /\ s = "hamiltonian_cycles" => N > 1
    /\ s \in {"paths", "forests", "trees"} => args \in Args(s)
    /\ s = "trees" /\ args.is_spanning => Whole

\* The vertices that leave, one after the other.
LEMMA LeavingOrder ==
    ASSUME FrontierDone, NEW l \in 1..M, NEW a, a = EdgeOf(l)
    PROVE  /\ Len(Leaving(l)) \in Nat /\ DOMAIN Leaving(l) = 1..Len(Leaving(l))
           /\ FirstLeaving(l, 0) = {} /\ FirstLeaving(l, Len(Leaving(l))) = LeavesAt(a)
           /\ \A k \in DOMAIN Leaving(l) :
                /\ Leaving(l)[k] \in LeavesAt(a)
                /\ Leaving(l)[k] \notin FirstLeaving(l, k - 1)
                /\ FirstLeaving(l, k) = FirstLeaving(l, k - 1) \cup {Leaving(l)[k]}
                /\ FirstLeaving(l, k) \subseteq LeavesAt(a)
                /\ Others(l, k) = Across(a) \ FirstLeaving(l, k)
                /\ Kept(a) \subseteq Others(l, k)
<1> DEFINE n == Len(Leaving(l))
<1>1. /\ a \in EdgeIds /\ IsListing(Leaving(l), LeavesAt(a)) /\ LeavesAt(a) \subseteq Across(a)
      /\ Kept(a) = Across(a) \ LeavesAt(a) /\ Frontier(l) = Across(a)
    BY LevelFacts, FrontierMoves DEF FrontierDone, Leaving, Frontier
<1>2. n \in Nat /\ DOMAIN Leaving(l) = 1..n
    BY <1>1 DEF IsListing
<1>3. FirstLeaving(l, 0) = {} /\ FirstLeaving(l, n) = LeavesAt(a)
    <2>1. FirstLeaving(l, 0) = {}
        BY DEF FirstLeaving
    <2>2. FirstLeaving(l, n) = LeavesAt(a)
        BY <1>1 DEF FirstLeaving, IsListing, SeqSet
    <2> QED
        BY <2>1, <2>2
<1>4. ASSUME NEW k \in DOMAIN Leaving(l)
      PROVE  /\ Leaving(l)[k] \in LeavesAt(a)
             /\ Leaving(l)[k] \notin FirstLeaving(l, k - 1)
             /\ FirstLeaving(l, k) = FirstLeaving(l, k - 1) \cup {Leaving(l)[k]}
             /\ FirstLeaving(l, k) \subseteq LeavesAt(a)
    <2>1. /\ k \in 1..n /\ 1..(k - 1) \subseteq 1..n /\ 1..k \subseteq 1..n
          /\ k \notin 1..(k - 1) /\ 1..k = 1..(k - 1) \cup {k}
        BY <1>2
    <2>2. \A x \in 1..n : Leaving(l)[x] \in LeavesAt(a)
        BY <1>1 DEF IsListing
    <2>3. \A x, y \in 1..n : Leaving(l)[x] = Leaving(l)[y] => x = y
        BY <1>1 DEF IsListing
    <2> QED
        BY <2>1, <2>2, <2>3 DEF FirstLeaving
<1> HIDE DEF n
<1>5. \A k : Others(l, k) = Across(a) \ FirstLeaving(l, k)
    BY <1>1 DEF Others
<1> QED
    BY <1>1, <1>2, <1>3, <1>4, <1>5 DEF n

\* As long as no check ends the loop, the vertices that left are bound to others.
LEMMA LeaversBound ==
    ASSUME FrontierDone, NEW l \in 1..M, NEW a, a = EdgeOf(l), NEW T \in SUBSET (1..a),
           NEW s, Bound(s, T, Settled(a - 1), Across(a)),
           NEW m \in 0..Len(Leaving(l)), \A k \in 1..m : JudgeOf(s, T, l, k) = "go"
    PROVE  Bound(s, T, Settled(a - 1) \cup FirstLeaving(l, m), Across(a) \ FirstLeaving(l, m))
<1> DEFINE Right(k) == Bound(s, T, Settled(a - 1) \cup FirstLeaving(l, k), Across(a) \ FirstLeaving(l, k))
           S == {k \in Nat : k > m \/ Right(k)}
<1>1. /\ IsGraph(graph) /\ a \in EdgeIds /\ T \in SUBSET EdgeIds /\ Across(a) \subseteq Vertices
      /\ Settled(a - 1) \subseteq Vertices
    <2>1. IsGraph(graph) /\ a \in EdgeIds
        BY LevelFacts DEF FrontierDone
    <2> QED
        BY <2>1, FrontierMoves, GraphFacts DEF EdgeIds, Settled, Touched
<1>2. /\ Len(Leaving(l)) \in Nat /\ DOMAIN Leaving(l) = 1..Len(Leaving(l)) /\ m \in Nat
      /\ FirstLeaving(l, 0) = {}
    BY LeavingOrder
<1>3. 0 \in S
    BY <1>2
<1>4. ASSUME NEW k \in 0..(m - 1), Right(k) PROVE Right(k + 1)
    <2> DEFINE v == Leaving(l)[k + 1]
    <2>1. /\ k + 1 \in DOMAIN Leaving(l) /\ k + 1 \in 1..m /\ (k + 1) - 1 = k
        BY <1>2
    <2>2. /\ v \in LeavesAt(a) /\ v \in Vertices
          /\ FirstLeaving(l, k + 1) = FirstLeaving(l, k) \cup {v}
          /\ FirstLeaving(l, k + 1) \subseteq Vertices
          /\ Others(l, k + 1) = Across(a) \ FirstLeaving(l, k + 1)
        <3>1. LeavesAt(a) \subseteq Vertices
            BY <1>1, FrontierMoves
        <3> QED
            BY <2>1, <3>1, LeavingOrder
    <2> HIDE DEF v
    <2>3. /\ Fits(s, T, v)
          /\ \/ s = "forests" \/ \E w \in Others(l, k + 1) : Linked(T, v, w)
             \/ ~Spanning(s) /\ Alone(T, v)
        BY <2>1 DEF JudgeOf, v
    <2>4. ASSUME NEW u \in Settled(a - 1) \cup FirstLeaving(l, k + 1)
          PROVE  /\ Fits(s, T, u)
                 /\ s # "forests" /\ (Spanning(s) \/ ~Alone(T, u)) =>
                        \E w \in Others(l, k + 1) : Linked(T, u, w)
        <3>1. CASE u = v
            BY <2>3, <3>1
        <3>2. CASE u # v
            <4>1. u \in Settled(a - 1) \cup FirstLeaving(l, k) /\ u \in Vertices
                BY <1>1, <2>2, <3>2
            <4>2. /\ Fits(s, T, u)
                  /\ s # "forests" /\ (Spanning(s) \/ ~Alone(T, u)) =>
                        \E w \in Across(a) \ FirstLeaving(l, k) : Linked(T, u, w)
                BY <1>4, <4>1 DEF Bound
            <4>3. ASSUME s # "forests", Spanning(s) \/ ~Alone(T, u)
                  PROVE  \E w \in Others(l, k + 1) : Linked(T, u, w)
                <5>1. PICK w \in Across(a) \ FirstLeaving(l, k) : Linked(T, u, w)
                    BY <4>2, <4>3
                <5>2. CASE w # v
                    BY <2>2, <5>1, <5>2
                <5>3. CASE w = v
                    <6>1. Linked(T, v, u)
                        BY <1>1, <2>2, <4>1, <5>1, <5>3, LinkedEquivalence
                    <6>2. ~Alone(T, v)
                        <7>1. Alone(T, v) => \A b \in T : v \notin Incident(graph, b)
                            BY <1>1, DegreeFacts DEF Alone
                        <7> QED
                            BY <2>2, <3>2, <6>1, <7>1, LinkedAlone
                    <6>3. PICK x \in Others(l, k + 1) : Linked(T, v, x)
                        BY <2>3, <4>3, <6>2
                    <6>4. Linked(T, u, x)
                        BY <1>1, <5>1, <5>3, <6>3, LinkedEquivalence
                    <6> QED
                        BY <6>4
                <5> QED
                    BY <5>2, <5>3
            <4> QED
                BY <4>2, <4>3
        <3> QED
            BY <3>1, <3>2
    <2> QED
        BY <1>4, <2>2, <2>4 DEF Bound
<1>5. \A k \in 0..(m - 1) : k \in S => k + 1 \in S
    BY <1>2, <1>4
<1> HIDE DEF S
<1>6. 0..m \subseteq S
    <2>1. S \in SUBSET Nat
        BY DEF S
    <2> QED
        BY <1>2, <1>3, <1>5, <2>1, InductionTo
<1> QED
    BY <1>2, <1>6 DEF S

\* What the checks before the k-th have seen to, and what the k-th sees.
Checked(s, T, l, k) ==
    /\ k \in DOMAIN Leaving(l)
    /\ Bound(s, T, Settled(EdgeOf(l) - 1) \cup FirstLeaving(l, k - 1),
             Across(EdgeOf(l)) \ FirstLeaving(l, k - 1))

\* A choice is refused only if nothing that is searched for completes it.
LEMMA RefusedRight ==
    ASSUME FrontierDone, NEW l \in 1..M, NEW a, a = EdgeOf(l), NEW T \in SUBSET (1..a),
           NEW s, GoodSearch(s), NEW k \in DOMAIN Leaving(l), JudgeOf(s, T, l, k) = "zero",
           NEW F \in Completing(a, T), Target(s, F)
    PROVE  FALSE
<1> DEFINE v == Leaving(l)[k]
           O == Others(l, k)
<1>1. /\ IsGraph(graph) /\ a \in EdgeIds /\ T \in SUBSET EdgeIds /\ F \in SUBSET EdgeIds
      /\ T \subseteq F
      /\ \A u : u \notin Touched(a + 1, M) => In(F, u) = In(T, u) /\ Out(F, u) = Out(T, u)
    <2>1. IsGraph(graph) /\ a \in EdgeIds /\ a \in 0..M
        BY LevelFacts, GraphFacts DEF FrontierDone, EdgeIds
    <2> QED
        BY <2>1, CompletionDegrees DEF EdgeIds
<1>2. /\ v \in LeavesAt(a) /\ v \in Vertices /\ v \notin Touched(a + 1, M)
      /\ Kept(a) \subseteq O /\ O \subseteq Vertices
    <2>1. LeavesAt(a) \cap Touched(a + 1, M) = {} /\ Across(a) \subseteq Vertices /\ LeavesAt(a) \subseteq Across(a)
        BY <1>1, FrontierMoves, SettledFacts
    <2> QED
        BY <2>1, LeavingOrder
<1> HIDE DEF v, O
<1>3. /\ Alone(F, v) <=> Alone(T, v)
      /\ Fits(s, F, v) <=> Fits(s, T, v)
    BY <1>1, <1>2, FitFacts
<1>4. Fits(s, T, v) /\ Endpoints(s) \subseteq Vertices
    <2>1. Endpoints(s) \subseteq Vertices
        BY DEF Endpoints, GoodSearch, Args, Routes, Branchings
    <2> QED
        BY <1>2, <1>3, <2>1 DEF Target
<1>5. /\ \A w \in O : ~Linked(T, v, w)
      /\ Spanning(s) \/ ~Alone(T, v)
      /\ s # "forests"
      /\ \/ \E w \in O : ~Alone(T, w)
         \/ Endpoints(s) \cap O # {} \/ ~(Endpoints(s) \subseteq Touched(1, a))
         \/ Spanning(s) /\ (O # {} \/ ~(Vertices \subseteq Touched(1, a)))
    BY <1>4 DEF JudgeOf, v, O
<1>6. \A x : Linked(F, v, x) <=> Linked(T, v, x)
    BY <1>1, <1>2, <1>5, ComponentComplete
<1>7. v \in Ends(F)
    BY <1>1, <1>2, <1>3, <1>5, EndsAlone DEF Target
<1>8. \A x \in Ends(F) : Linked(T, v, x)
    <2>1. InOne(F)
        BY <1>5 DEF Target
    <2> QED
        BY <1>1, <1>6, <1>7, <2>1, EndsAlone
<1>9. CASE \E w \in O : ~Alone(T, w)
    <2>1. PICK w \in O : ~Alone(T, w)
        BY <1>9
    <2>2. w \in Ends(F)
        <3>1. w \in Ends(T)
            BY <1>1, <2>1, EndsAlone
        <3> QED
            BY <1>1, <3>1 DEF Ends
    <2> QED
        BY <1>5, <1>8, <2>2
<1>10. Endpoints(s) \subseteq Ends(F) /\ (Spanning(s) => Ends(F) = Vertices)
    BY <1>1, <1>4, FitFacts, EndsAlone DEF Target
<1>11. CASE Endpoints(s) \cap O # {} \/ (Spanning(s) /\ O # {})
    BY <1>2, <1>5, <1>8, <1>10, <1>11
<1>12. CASE ~(Endpoints(s) \subseteq Touched(1, a)) \/ (Spanning(s) /\ ~(Vertices \subseteq Touched(1, a)))
    <2>1. PICK x \in Ends(F) : x \in Vertices /\ x \notin Touched(1, a)
        BY <1>1, <1>10, <1>12, EndsAlone
    <2>2. \A b \in T : x \notin Incident(graph, b)
        BY <2>1 DEF Touched
    <2>3. Linked(T, x, v) /\ x \in Vertices
        BY <1>1, <1>2, <1>8, EndsAlone, LinkedEquivalence
    <2>4. v = x
        BY <2>2, <2>3, LinkedAlone
    <2>5. v \in Touched(1, a)
        BY <1>1, <1>2, FrontierMoves
    <2> QED
        BY <2>1, <2>4, <2>5
<1> QED
    BY <1>5, <1>9, <1>11, <1>12

\* What is accepted is searched for, and nothing else that is completes the choices.
LEMMA AcceptedRight ==
    ASSUME FrontierDone, NEW l \in 1..M, NEW a, a = EdgeOf(l), NEW T \in SUBSET (1..a),
           NEW s, GoodSearch(s), NEW k, Checked(s, T, l, k), JudgeOf(s, T, l, k) = "one"
    PROVE  /\ Target(s, T)
           /\ \A F \in Completing(a, T) : Target(s, F) => F = T
<1> DEFINE v == Leaving(l)[k]
           O == Others(l, k)
           Q == Settled(a - 1) \cup FirstLeaving(l, k - 1)
           W == Across(a) \ FirstLeaving(l, k - 1)
<1>1. /\ IsGraph(graph) /\ a \in EdgeIds /\ T \in SUBSET EdgeIds
      /\ k \in DOMAIN Leaving(l) /\ Bound(s, T, Q, W)
    <2>1. IsGraph(graph) /\ a \in EdgeIds /\ a \in 1..M /\ M \in Nat
        BY LevelFacts, GraphFacts DEF FrontierDone, EdgeIds
    <2>2. T \in SUBSET EdgeIds
        BY <2>1 DEF EdgeIds
    <2>3. k \in DOMAIN Leaving(l) /\ Bound(s, T, Q, W)
        BY DEF Checked
    <2> QED
        BY <2>1, <2>2, <2>3
<1>2. /\ v \in LeavesAt(a) /\ v \in Across(a) /\ v \in Vertices
      /\ Kept(a) \subseteq O /\ O \subseteq Vertices /\ O = W \ {v} /\ v \in W
      /\ Across(a) \subseteq Q \cup {v} \cup O
    <2>1. Across(a) \subseteq Vertices /\ LeavesAt(a) \subseteq Across(a)
        BY <1>1, FrontierMoves
    <2> QED
        BY <1>1, <2>1, LeavingOrder
<1>3. Touched(1, a) \subseteq Q \cup {v} \cup O /\ Q \subseteq Vertices /\ W \subseteq Vertices
    <2>1. Touched(1, a) \subseteq Settled(a - 1) \cup Across(a)
        <3>1. Touched(1, a) = Touched(1, a - 1) \cup Incident(graph, a)
              /\ Incident(graph, a) \subseteq Across(a)
            BY <1>1, TouchedFacts, FrontierMoves
        <3>2. Touched(1, a - 1) \subseteq Touched(1, a) /\ (a - 1) + 1 = a
            BY <1>1, <3>1 DEF EdgeIds
        <3> QED
            BY <3>1, <3>2 DEF Settled, Across
    <2>2. Settled(a - 1) \subseteq Vertices /\ Across(a) \subseteq Vertices
        BY DEF Settled, Across, Touched
    <2>3. FirstLeaving(l, k - 1) \subseteq Vertices
        <3>1. LeavesAt(a) \subseteq Vertices /\ FirstLeaving(l, k - 1) \subseteq FirstLeaving(l, k)
            BY <1>1, LeavingOrder DEF LeavesAt, Touched
        <3> QED
            BY <1>1, <3>1, LeavingOrder
    <2> QED
        BY <1>2, <2>1, <2>2, <2>3
<1> HIDE DEF v, O, Q, W
<1>4. /\ Fits(s, T, v)
      /\ \A w \in O : ~Linked(T, v, w) /\ Alone(T, w)
      /\ Spanning(s) \/ ~Alone(T, v)
      /\ Endpoints(s) \cap O = {} /\ Endpoints(s) \subseteq Touched(1, a)
      /\ Spanning(s) => O = {} /\ Vertices \subseteq Touched(1, a)
      /\ s # "forests"
    BY DEF JudgeOf, v, O
\* Every other end of an edge is linked to v.
<1>5. ASSUME NEW u \in Q, Spanning(s) \/ ~Alone(T, u)
      PROVE  Linked(T, v, u)
    <2>1. PICK w \in W : Linked(T, u, w)
        BY <1>1, <1>4, <1>5 DEF Bound
    <2>2. CASE w = v
        BY <1>1, <1>2, <1>3, <2>1, <2>2, LinkedEquivalence
    <2>3. CASE w # v
        <3>1. w \in O /\ Alone(T, w) /\ Linked(T, w, u)
            BY <1>1, <1>2, <1>3, <1>4, <2>1, <2>3, LinkedEquivalence
        <3>2. \A b \in T : w \notin Incident(graph, b)
            BY <1>1, <3>1, DegreeFacts DEF Alone
        <3>3. u = w
            BY <1>2, <3>1, <3>2, LinkedAlone
        <3>4. ~Spanning(s)
            BY <1>4, <3>1
        <3> QED
            BY <1>5, <3>1, <3>3, <3>4
    <2> QED
        BY <2>2, <2>3
<1>6. ~Alone(T, v)
    <2>1. CASE ~Spanning(s) \/ s # "hamiltonian_cycles"
        BY <1>4, <2>1, FitFacts
    <2>2. CASE s = "hamiltonian_cycles"
        <3>1. Spanning(s) /\ N > 1
            BY <2>2 DEF Spanning, GoodSearch
        <3>2. PICK u \in Vertices : u # v
            BY <3>1, GraphFacts, <1>1 DEF Vertices
        <3>3. u \in Q
            BY <1>3, <1>4, <3>1, <3>2
        <3>5. Linked(T, v, u)
            BY <1>5, <3>1, <3>3
        <3>4. Alone(T, v) => \A b \in T : v \notin Incident(graph, b)
            BY <1>1, DegreeFacts DEF Alone
        <3> QED
            BY <1>2, <3>2, <3>4, <3>5, LinkedAlone
    <2> QED
        BY <2>1, <2>2
<1>7. \A x \in Ends(T) : x \in Q \cup {v}
    <2>1. Ends(T) \subseteq Touched(1, a)
        BY <1>1, GraphFacts DEF Ends, Touched
    <2>2. \A x \in Ends(T) : ~Alone(T, x)
        BY <1>1, EndsAlone
    <2> QED
        BY <1>3, <1>4, <2>1, <2>2
<1>8. \A x \in Ends(T) : Linked(T, v, x) /\ Linked(T, x, v)
    <2>1. \A x \in Ends(T) : ~Alone(T, x) /\ x \in Vertices
        BY <1>1, EndsAlone
    <2>2. \A x \in Ends(T) : Linked(T, v, x)
        BY <1>1, <1>5, <1>7, <2>1, LinkedEquivalence
    <2> QED
        BY <1>1, <1>2, <2>1, <2>2, LinkedEquivalence
<1>9. v \in Ends(T)
    BY <1>1, <1>6, EndsAlone
<1>10. Joint(T)
    <2>1. T # {}
        BY <1>9 DEF Ends
    <2>2. \A b \in T : Tail1(b) \in Ends(T)
        BY DEF Ends, Tail1, Incident
    <2>3. \A b, c \in T : Linked(T, Tail1(b), Tail1(c))
        BY <1>1, <1>8, <2>2, LinkedEquivalence
    <2> QED
        BY <2>1, <2>3 DEF Joint, InOne
<1>11. ASSUME NEW u \in Vertices PROVE Fits(s, T, u) /\ (Spanning(s) => u \in Ends(T))
    <2>1. CASE u = v
        BY <1>4, <1>9, <2>1
    <2>2. CASE u \in Q /\ u # v
        <3>1. Fits(s, T, u)
            BY <1>1, <2>2 DEF Bound
        <3>2. ASSUME Spanning(s) PROVE u \in Ends(T)
            <4>1. Linked(T, u, v)
                BY <1>1, <1>2, <1>5, <2>2, <3>2, LinkedEquivalence
            <4>2. Alone(T, u) => \A b \in T : u \notin Incident(graph, b)
                BY <1>1, DegreeFacts DEF Alone
            <4>3. ~Alone(T, u)
                BY <2>2, <4>1, <4>2, LinkedAlone
            <4> QED
                BY <1>1, <4>3, EndsAlone
        <3> QED
            BY <3>1, <3>2
    <2>3. CASE u \notin Q \cup {v}
        <3>1. u \notin Ends(T)
            BY <1>7, <2>3
        <3>2. Alone(T, u)
            BY <1>1, <3>1, EndsAlone
        <3>3. u \notin Endpoints(s) /\ ~Spanning(s)
            BY <1>3, <1>4, <2>3
        <3> QED
            BY <3>2, <3>3, FitFacts
    <2> QED
        BY <2>1, <2>2, <2>3
<1>12. ASSUME NEW F \in Completing(a, T), Target(s, F) PROVE F = T
    <2>1. F \in SUBSET EdgeIds /\ T \subseteq F
        BY <1>1, GraphFacts, CompletionDegrees DEF EdgeIds
    <2>2. /\ \A x : Linked(F, v, x) <=> Linked(T, v, x)
          /\ \A b \in F : \A x \in Incident(graph, b) : Linked(T, v, x) => b \in T
        BY <1>1, <1>2, <1>4, ComponentComplete
    <2>3. v \in Ends(F)
        BY <1>9, <2>1 DEF Ends
    <2>4. ASSUME NEW b \in F PROVE b \in T
        <3>1. Tail1(b) \in Incident(graph, b) /\ Tail1(b) \in Ends(F)
            BY DEF Tail1, Incident, Ends
        <3>2. InOne(F)
            BY <1>4, <1>12 DEF Target
        <3>3. Linked(F, v, Tail1(b))
            BY <1>1, <2>1, <2>3, <3>1, <3>2, EndsAlone
        <3> QED
            BY <2>2, <3>1, <3>3
    <2> QED
        BY <2>1, <2>4
<1>13. Spanning(s) => Ends(T) = Vertices
    BY <1>1, <1>11, EndsAlone
<1>14. s \in Branchings => Acyclic(T)
    BY <1>1 DEF Bound
<1> QED
    BY <1>10, <1>11, <1>12, <1>13, <1>14 DEF Target, Joint

\* The terminal after the last edge.
Bottom(s) == IF s \in Routes THEN "zero" ELSE "one"

\* When all edges are decided no vertex is bound to one on the frontier.
LEMMA BottomRight ==
    ASSUME IsGraph(graph), NEW T \in SUBSET EdgeIds, NEW s, GoodSearch(s), Bound(s, T, Vertices, {})
    PROVE  Target(s, T) <=> Bottom(s) = "one"
<1>1. \A a \in T : Tail1(a) \in Ends(T)
    BY DEF Ends, Tail1, Incident
<1>2. Ends(T) \subseteq Vertices /\ \A v : v \in Ends(T) <=> ~Alone(T, v)
    BY EndsAlone
<1>3. s # "forests" => T = {}
    BY <1>1, <1>2 DEF Bound
<1>4. s # "forests" /\ Spanning(s) => Vertices = {}
    BY DEF Bound
<1>5. CASE s \in Routes
    BY <1>3, <1>5 DEF Target, Bottom, Routes
<1>6. CASE s \in Branchings
    <2>1. Acyclic(T) /\ \A v \in Vertices : Fits(s, T, v)
        BY <1>6 DEF Bound
    <2>2. s # "forests" => InOne(T)
        BY <1>3 DEF InOne
    <2>3. Spanning(s) => Ends(T) = Vertices
        BY <1>2, <1>6, <2>1, FitFacts DEF Branchings
    <2> QED
        BY <1>6, <2>1, <2>2, <2>3 DEF Target, Bottom, Routes, Branchings
<1> QED
    BY <1>5, <1>6 DEF GoodSearch
-----------------------------------------------------------------------------
(***************************************************************************)
(* The checks of the code.                                                 *)
(***************************************************************************)
\* The edge at which the last vertex enters.
LEMMA AllEntered ==
    ASSUME FrontierDone, NEW l \in 1..M, NEW a, a = EdgeOf(l)
    PROVE  (l > M - AllVerticesEnteringLevel + 1) <=> ~(Vertices \subseteq Touched(1, a))
<1> DEFINE Last(b) == entering_vss[b] # <<>> /\ \A c \in (b + 1)..M : entering_vss[c] = <<>>
           A == AllVerticesEnteringLevel
<1>1. /\ M \in Nat \ {0} /\ EdgeIds = 1..M /\ a \in 1..M /\ IsGraph(graph) /\ a = M - l + 1
    BY GraphFacts, LevelFacts DEF FrontierDone, EdgeIds, EdgeOf
<1>2. \A b \in EdgeIds : entering_vss[b] = <<>> <=> EntersAt(b) = {}
    <2>1. ASSUME NEW b \in EdgeIds PROVE entering_vss[b] = <<>> <=> EntersAt(b) = {}
        <3>1. /\ entering_vss[b] \in Seq(EntersAt(b)) /\ SeqSet(entering_vss[b]) = EntersAt(b)
            BY DEF FrontierDone, IsListing
        <3>2. entering_vss[b] = <<>> <=> Len(entering_vss[b]) = 0
            BY <3>1
        <3>3. Len(entering_vss[b]) = 0 <=> SeqSet(entering_vss[b]) = {}
            <4>1. Len(entering_vss[b]) \in Nat
                BY <3>1
            <4>2. ASSUME Len(entering_vss[b]) # 0 PROVE SeqSet(entering_vss[b]) # {}
                <5>1. 1 \in 1..Len(entering_vss[b])
                    BY <4>1, <4>2
                <5>2. entering_vss[b][1] \in SeqSet(entering_vss[b])
                    BY <5>1 DEF SeqSet
                <5> QED
                    BY <5>2
            <4>3. ASSUME Len(entering_vss[b]) = 0 PROVE SeqSet(entering_vss[b]) = {}
                <5>1. 1..Len(entering_vss[b]) = {}
                    BY <4>3
                <5> QED
                    BY <5>1, Zenon DEF SeqSet
            <4> QED
                BY <4>2, <4>3
        <3> QED
            BY <3>1, <3>2, <3>3
    <2> QED
        BY <2>1
<1>3. \E b \in EdgeIds : Last(b)
    <2> DEFINE E == {b \in 0..M : b \in EdgeIds /\ EntersAt(b) # {}}
    <2>1. 1 \in E
        <3>1. EntersAt(1) = Incident(graph, 1) /\ graph.edges[1][1] \in Incident(graph, 1)
            BY <1>1, TouchedFacts DEF EntersAt, Incident
        <3> QED
            BY <1>1, <3>1
    <2>2. PICK b \in E : \A c \in E : c <= b
        <3>1. E # {} /\ E \in SUBSET (0..M)
            BY <2>1
        <3> HIDE DEF E
        <3> QED
            BY <1>1, <3>1, GreatestElement
    <2>3. \A c \in (b + 1)..M : c \in EdgeIds /\ c \notin E
        BY <1>1, <2>2
    <2> QED
        BY <1>1, <1>2, <2>2, <2>3
<1>4. A \in EdgeIds /\ Last(A)
    BY <1>3 DEF AllVerticesEnteringLevel
<1> HIDE DEF A
<1>5. ASSUME A <= a PROVE Vertices \subseteq Touched(1, a)
    <2>1. ASSUME NEW v \in Vertices PROVE v \in Touched(1, a)
        <3>1. PICK b \in EdgeIds : v \in EntersAt(b)
            BY <1>1, EntersOnce
        <3>2. b <= a
            BY <1>1, <1>2, <1>4, <1>5, <3>1
        <3> QED
            BY <1>1, <3>1, <3>2 DEF EntersAt, Touched
    <2> QED
        BY <2>1
<1>6. ASSUME A > a PROVE ~(Vertices \subseteq Touched(1, a))
    <2>1. PICK v \in EntersAt(A) : TRUE
        BY <1>2, <1>4
    <2>2. v \in Vertices /\ v \notin Touched(1, a)
        BY <1>1, <1>4, <1>6, <2>1 DEF EntersAt, Touched
    <2> QED
        BY <2>2
<1>7. (l > M - A + 1) <=> ~(A <= a)
    BY <1>1, <1>4
<1> QED
    BY <1>1, <1>4, <1>5, <1>6, <1>7 DEF A

\* The edge at which a vertex enters.
LEMMA VertexEntered ==
    ASSUME FrontierDone, NEW l \in 1..M, NEW a, a = EdgeOf(l), NEW v \in Vertices
    PROVE  (l > M - VerticesEnteringLevel(v) + 1) <=> v \notin Touched(1, a)
<1>1. /\ M \in Nat \ {0} /\ EdgeIds = 1..M /\ a \in 1..M /\ IsGraph(graph) /\ a = M - l + 1
    BY GraphFacts, LevelFacts DEF FrontierDone, EdgeIds, EdgeOf
<1>2. PICK c \in EdgeIds : {b \in EdgeIds : v \in EntersAt(b)} = {c}
    BY <1>1, EntersOnce
<1>3. \A b \in EdgeIds : v \in SeqSet(entering_vss[b]) <=> b = c
    BY <1>2 DEF FrontierDone, IsListing
<1>4. VerticesEnteringLevel(v) = c
    <2>1. \A b \in 1..(c - 1) : b \in EdgeIds /\ b # c
        BY <1>1
    <2> QED
        BY <1>3, <2>1 DEF VerticesEnteringLevel
<1>5. v \in Touched(1, a) <=> c <= a
    <2>1. v \in EntersAt(c)
        BY <1>2
    <2> QED
        BY <1>1, <2>1 DEF EntersAt, Touched
<1> QED
    BY <1>1, <1>4, <1>5

LEMMA CyclesCopy ==
    \A e, l, k : Cycles!Judge(e, l, k) =
        LET v == Leaving(l)[k]
            isolated == Indeg(e, v) = 0 /\ Outdeg(e, v) = 0
            passed == Indeg(e, v) = 1 /\ Outdeg(e, v) = 1
        IN  IF ~(isolated \/ passed) THEN "zero"
            ELSE IF SameCompFound(e, l, k) \/ isolated THEN "go"
            ELSE IF NonisolatedFound(e, l, k) THEN "zero" ELSE "one"
BY DEF Cycles!Judge, Cycles!Leaving, Cycles!Indeg, Cycles!Outdeg, Cycles!SameCompFound,
       Cycles!NonisolatedFound, Cycles!Others, Cycles!Comp, Cycles!Degree, Cycles!At,
       Cycles!Frontier, Cycles!FirstLeaving, Cycles!EdgeOf, Cycles!M, Leaving, Indeg, Outdeg,
       SameCompFound, NonisolatedFound, Others, Comp, Degree, At, Frontier, FirstLeaving, EdgeOf, M

LEMMA HamiltonianCopy ==
    \A e, l, k : HamiltonianCycles!Judge(e, l, k) =
        LET v == Leaving(l)[k]
            isolated == Indeg(e, v) = 0 /\ Outdeg(e, v) = 0
            passed == Indeg(e, v) = 1 /\ Outdeg(e, v) = 1
        IN  IF ~(isolated \/ passed) THEN "zero"
            ELSE IF SameCompFound(e, l, k) THEN "go"
            ELSE IF \/ NonisolatedFound(e, l, k)
                    \/ Others(l, k) # {}
                    \/ l > M - AllVerticesEnteringLevel + 1
                 THEN "zero" ELSE "one"
BY DEF HamiltonianCycles!Judge, HamiltonianCycles!Leaving, HamiltonianCycles!Indeg,
       HamiltonianCycles!Outdeg, HamiltonianCycles!SameCompFound,
       HamiltonianCycles!NonisolatedFound, HamiltonianCycles!Others, HamiltonianCycles!Comp,
       HamiltonianCycles!Degree, HamiltonianCycles!At, HamiltonianCycles!Frontier,
       HamiltonianCycles!FirstLeaving, HamiltonianCycles!EdgeOf, HamiltonianCycles!M,
       HamiltonianCycles!Unentered, HamiltonianCycles!AllEnteredLevel,
       HamiltonianCycles!AllVerticesEnteringLevel, HamiltonianCycles!EdgeIds,
       AllVerticesEnteringLevel, EdgeIds, Leaving, Indeg, Outdeg,
       SameCompFound, NonisolatedFound, Others, Comp, Degree, At, Frontier, FirstLeaving, EdgeOf, M

LEMMA PathsCopy ==
    \A e, l, k : Paths!Judge(e, l, k) =
        LET v == Leaving(l)[k]
            isolated == Indeg(e, v) = 0 /\ Outdeg(e, v) = 0
            passed == Indeg(e, v) = 1 /\ Outdeg(e, v) = 1
            fits == IF v = args.s THEN Outdeg(e, v) = 1 /\ Indeg(e, v) = 0
                    ELSE IF v = args.t THEN Indeg(e, v) = 1 /\ Outdeg(e, v) = 0
                    ELSE passed \/ (~args.is_hamiltonian /\ isolated)
            late == IF args.is_hamiltonian
                    THEN l > M - AllVerticesEnteringLevel + 1 \/ Others(l, k) # {}
                    ELSE \/ l > M - VerticesEnteringLevel(args.s) + 1
                         \/ l > M - VerticesEnteringLevel(args.t) + 1
        IN  IF ~fits THEN "zero"
            ELSE IF SameCompFound(e, l, k) \/ Degree(e, v) = 0 THEN "go"
            ELSE IF NonisolatedFound(e, l, k) \/ Others(l, k) \cap {args.s, args.t} # {} THEN "zero"
            ELSE IF late THEN "zero" ELSE "one"
<1>1. /\ Paths!M = M /\ Paths!EdgeIds = EdgeIds
      /\ \A sq : Paths!SeqSet(sq) = SeqSet(sq)
      /\ \A l : Paths!EdgeOf(l) = EdgeOf(l)
      /\ \A l : Paths!Leaving(l) = Leaving(l)
      /\ \A l : Paths!Frontier(l) = Frontier(l)
      /\ \A e, v : Paths!At(e, v) = At(e, v)
    BY DEF Paths!M, Paths!EdgeIds, Paths!SeqSet, Paths!EdgeOf, Paths!Leaving, Paths!Frontier,
           Paths!At, M, EdgeIds, SeqSet, EdgeOf, Leaving, Frontier, At
<1>2. /\ \A e, v : Paths!Indeg(e, v) = Indeg(e, v)
      /\ \A e, v : Paths!Outdeg(e, v) = Outdeg(e, v)
      /\ \A e, v : Paths!Comp(e, v) = Comp(e, v)
    BY <1>1 DEF Paths!Indeg, Paths!Outdeg, Paths!Comp, Indeg, Outdeg, Comp
<1>3. \A l, k : Paths!FirstLeaving(l, k) = FirstLeaving(l, k)
    BY <1>1 DEF Paths!FirstLeaving, FirstLeaving
<1>4. \A l, k : Paths!Others(l, k) = Others(l, k)
    BY <1>1, <1>3 DEF Paths!Others, Others
<1>5. \A e, v : Paths!Degree(e, v) = Degree(e, v)
    BY <1>2 DEF Paths!Degree, Degree
<1>6. /\ \A e, l, k : Paths!SameCompFound(e, l, k) <=> SameCompFound(e, l, k)
      /\ \A e, l, k : Paths!NonisolatedFound(e, l, k) <=> NonisolatedFound(e, l, k)
    BY <1>1, <1>2, <1>4, <1>5
       DEF Paths!SameCompFound, Paths!NonisolatedFound, SameCompFound, NonisolatedFound
<1>7. Paths!AllVerticesEnteringLevel = AllVerticesEnteringLevel
    BY <1>1 DEF Paths!AllVerticesEnteringLevel, AllVerticesEnteringLevel
<1>8. \A v : Paths!VerticesEnteringLevel(v) = VerticesEnteringLevel(v)
    BY <1>1 DEF Paths!VerticesEnteringLevel, VerticesEnteringLevel
<1> QED
    BY <1>1, <1>2, <1>4, <1>5, <1>6, <1>7, <1>8
       DEF Paths!Judge, Paths!DegreeOK, Paths!EndpointExists, Paths!Completed,
           Paths!EnteredLevel, Paths!MinEnteredLevel

LEMMA ForestsCopy ==
    \A e, l, k : Forests!Judge(e, l, k) =
        LET v == Leaving(l)[k]
            isolated == Indeg(e, v) = 0 /\ Outdeg(e, v) = 0
            ok == /\ ~(args.is_spanning /\ isolated)
                  /\ IF args.roots = {} THEN Indeg(e, v) <= 1
                     ELSE IF v \in args.roots THEN Indeg(e, v) = 0 /\ Outdeg(e, v) > 0
                     ELSE Indeg(e, v) = 1 \/ isolated
        IN  IF ok THEN "go" ELSE "zero"
BY DEF Forests!Judge, Forests!Leaving, Forests!Indeg, Forests!Outdeg, Forests!At, Forests!EdgeOf,
       Forests!M, Leaving, Indeg, Outdeg, At, EdgeOf, M

LEMMA TreesCopy ==
    \A e, l, k : Trees!Judge(e, l, k) =
        LET v == Leaving(l)[k]
            fits == /\ ~(args.is_spanning /\ Degree(e, v) = 0)
                    /\ IF v = args.root THEN Indeg(e, v) = 0
                       ELSE ~(Indeg(e, v) = 0 /\ Outdeg(e, v) > 0) /\ Indeg(e, v) <= 1
        IN  IF ~fits THEN "zero"
            ELSE IF SameCompFound(e, l, k) \/ Degree(e, v) = 0 THEN "go"
            ELSE IF NonisolatedFound(e, l, k) THEN "zero"
            ELSE IF args.is_spanning /\ Others(l, k) # {} THEN "zero" ELSE "one"
<1>1. /\ Trees!M = M
      /\ \A l : Trees!EdgeOf(l) = EdgeOf(l)
      /\ \A l : Trees!Leaving(l) = Leaving(l)
      /\ \A l : Trees!Frontier(l) = Frontier(l)
      /\ \A e, v : Trees!At(e, v) = At(e, v)
    BY DEF Trees!M, Trees!EdgeOf, Trees!Leaving, Trees!Frontier, Trees!At, M, EdgeOf, Leaving,
           Frontier, At
<1>2. /\ \A e, v : Trees!Indeg(e, v) = Indeg(e, v)
      /\ \A e, v : Trees!Outdeg(e, v) = Outdeg(e, v)
      /\ \A e, v : Trees!Comp(e, v) = Comp(e, v)
    BY <1>1 DEF Trees!Indeg, Trees!Outdeg, Trees!Comp, Indeg, Outdeg, Comp
<1>3. \A l, k : Trees!FirstLeaving(l, k) = FirstLeaving(l, k)
    BY <1>1 DEF Trees!FirstLeaving, FirstLeaving
<1>4. \A l, k : Trees!Others(l, k) = Others(l, k)
    BY <1>1, <1>3 DEF Trees!Others, Others
<1>5. \A e, v : Trees!Degree(e, v) = Degree(e, v)
    BY <1>2 DEF Trees!Degree, Degree
<1>6. /\ \A e, l, k : Trees!SameCompFound(e, l, k) <=> SameCompFound(e, l, k)
      /\ \A e, l, k : Trees!NonisolatedFound(e, l, k) <=> NonisolatedFound(e, l, k)
    BY <1>1, <1>2, <1>4, <1>5
       DEF Trees!SameCompFound, Trees!NonisolatedFound, SameCompFound, NonisolatedFound
<1> QED
    BY <1>1, <1>2, <1>4, <1>5, <1>6 DEF Trees!Judge, Trees!DegreeOK

\* What a check reads, in terms of the edges taken.
LEMMA CheckReads ==
    ASSUME FrontierDone, NEW l \in 1..M, NEW a, a = EdgeOf(l), NEW d \in DataArrays,
           NEW erased \in SlotType, NEW k \in DOMAIN Leaving(l), NEW T \in SUBSET (1..a),
           DegreesOf(d, T, Across(a)), CompsOf(d, T, Across(a), Touched(1, a))
    PROVE  LET v == Leaving(l)[k]
               e == WithLeft(d, l, k - 1, erased)
           IN  /\ Indeg(e, v) = In(T, v) /\ Outdeg(e, v) = Out(T, v)
               /\ Degree(e, v) = 0 <=> Alone(T, v)
               /\ SameCompFound(e, l, k) <=> \E w \in Others(l, k) : Linked(T, v, w)
               /\ NonisolatedFound(e, l, k) <=> \E w \in Others(l, k) : ~Alone(T, w)
<1> DEFINE v == Leaving(l)[k]
           e == WithLeft(d, l, k - 1, erased)
<1>1. /\ v \in Across(a) /\ At(e, v) = At(d, v)
      /\ \A w \in Others(l, k) : w \in Across(a) /\ At(e, w) = At(d, w)
    BY LeaverFacts
<1>2. IsGraph(graph) /\ T \in SUBSET EdgeIds /\ Across(a) \subseteq Vertices
    <2>1. IsGraph(graph) /\ a \in EdgeIds /\ a \in 1..M /\ M \in Nat
        BY LevelFacts, GraphFacts DEF FrontierDone, EdgeIds
    <2> QED
        BY <2>1, FrontierMoves DEF EdgeIds
<1> HIDE DEF v, e
<1>3. \A w \in Others(l, k) \cup {v} :
        /\ Indeg(e, w) = In(T, w) /\ Outdeg(e, w) = Out(T, w) /\ Comp(e, w) = Comp(d, w)
    BY <1>1 DEF DegreesOf, Indeg, Outdeg, Comp
<1>4. SameCompFound(e, l, k) <=> \E w \in Others(l, k) : Linked(T, v, w)
    <2>1. \A w \in Others(l, k) : (Comp(e, w) = Comp(e, v)) <=> Linked(T, w, v)
        BY <1>1, <1>3 DEF CompsOf
    <2>2. \A w \in Others(l, k) : Linked(T, w, v) <=> Linked(T, v, w)
        BY <1>1, <1>2, LinkedEquivalence
    <2> QED
        BY <2>1, <2>2 DEF SameCompFound, v
<1>5. \A w \in Others(l, k) \cup {v} :
        /\ Degree(e, w) > 0 <=> ~Alone(T, w)
        /\ Degree(e, w) = 0 <=> Alone(T, w)
    BY <1>2, <1>3, DegreeFacts DEF Degree, Alone
<1> QED
    BY <1>3, <1>4, <1>5 DEF NonisolatedFound, v, e

LEMMA CodeJudges ==
    ASSUME FrontierDone, NEW l \in 1..M, NEW a, a = EdgeOf(l), NEW d \in DataArrays,
           NEW k \in DOMAIN Leaving(l), NEW T \in SUBSET (1..a),
           DegreesOf(d, T, Across(a)), CompsOf(d, T, Across(a), Touched(1, a))
    PROVE  /\ CyclesJudged(d, l)[k] = JudgeOf("cycles", T, l, k)
           /\ HamiltonianJudged(d, l)[k] = JudgeOf("hamiltonian_cycles", T, l, k)
           /\ args \in Args("paths") => PathsJudged(d, l)[k] = JudgeOf("paths", T, l, k)
<1> DEFINE v == Leaving(l)[k]
           e == WithLeft(d, l, k - 1, Erased)
           linked == \E w \in Others(l, k) : Linked(T, v, w)
           busy == \E w \in Others(l, k) : ~Alone(T, w)
           late == ~(Vertices \subseteq Touched(1, EdgeOf(l)))
           absent == ~({args.s, args.t} \subseteq Touched(1, EdgeOf(l)))
<1>1. /\ Indeg(e, v) = In(T, v) /\ Outdeg(e, v) = Out(T, v)
      /\ Degree(e, v) = 0 <=> Alone(T, v)
      /\ SameCompFound(e, l, k) <=> linked
      /\ NonisolatedFound(e, l, k) <=> busy
    BY CheckReads, ErasedTypes
<1>2. (l > M - AllVerticesEnteringLevel + 1) <=> late
    BY AllEntered
<1>3. /\ CyclesJudged(d, l)[k] = Cycles!Judge(e, l, k)
      /\ HamiltonianJudged(d, l)[k] = HamiltonianCycles!Judge(e, l, k)
      /\ PathsJudged(d, l)[k] = Paths!Judge(e, l, k)
    BY DEF CyclesJudged, HamiltonianJudged, PathsJudged
<1>8. ASSUME args \in Args("paths")
      PROVE  /\ (\/ l > M - VerticesEnteringLevel(args.s) + 1
                 \/ l > M - VerticesEnteringLevel(args.t) + 1) <=> absent
             /\ absent => late
    <2>1. args.s \in Vertices /\ args.t \in Vertices
        BY <1>8 DEF Args
    <2>2. /\ (l > M - VerticesEnteringLevel(args.s) + 1) <=> args.s \notin Touched(1, EdgeOf(l))
          /\ (l > M - VerticesEnteringLevel(args.t) + 1) <=> args.t \notin Touched(1, EdgeOf(l))
        BY <2>1, VertexEntered
    <2> QED
        BY <2>1, <2>2
<1> HIDE DEF v, e, linked, busy, late, absent
<1>4. Cycles!Judge(e, l, k) =
        IF ~(Alone(T, v) \/ Passed(T, v)) THEN "zero"
        ELSE IF linked \/ Alone(T, v) THEN "go"
        ELSE IF busy THEN "zero" ELSE "one"
    BY <1>1, CyclesCopy DEF Alone, Passed, v
<1>5. HamiltonianCycles!Judge(e, l, k) =
        IF ~(Alone(T, v) \/ Passed(T, v)) THEN "zero"
        ELSE IF linked THEN "go"
        ELSE IF busy \/ Others(l, k) # {} \/ late THEN "zero" ELSE "one"
    BY <1>1, <1>2, HamiltonianCopy DEF Alone, Passed, v
<1>6. JudgeOf("cycles", T, l, k) =
        IF ~(Alone(T, v) \/ Passed(T, v)) THEN "zero"
        ELSE IF linked \/ Alone(T, v) THEN "go"
        ELSE IF busy THEN "zero" ELSE "one"
    BY DEF JudgeOf, Fits, Spanning, Branchings, Endpoints, linked, busy, v
<1>7. JudgeOf("hamiltonian_cycles", T, l, k) =
        IF ~(Alone(T, v) \/ Passed(T, v)) THEN "zero"
        ELSE IF linked THEN "go"
        ELSE IF busy \/ Others(l, k) # {} \/ late THEN "zero" ELSE "one"
    BY DEF JudgeOf, Fits, Spanning, Branchings, Endpoints, linked, busy, late, v
<1>9. ASSUME args \in Args("paths")
      PROVE  Paths!Judge(e, l, k) = JudgeOf("paths", T, l, k)
    <2> DEFINE isolated == Alone(T, v)
               fits == IF v = args.s THEN Begun(T, v) ELSE IF v = args.t THEN Arrived(T, v)
                       ELSE Passed(T, v) \/ (~args.is_hamiltonian /\ isolated)
               ends == Others(l, k) \cap {args.s, args.t} # {}
               more == Others(l, k) # {}
    <2>1. Paths!Judge(e, l, k) =
            IF ~fits THEN "zero"
            ELSE IF linked \/ isolated THEN "go"
            ELSE IF busy \/ ends THEN "zero"
            ELSE IF (IF args.is_hamiltonian THEN late \/ more ELSE absent) THEN "zero" ELSE "one"
        BY <1>1, <1>2, <1>8, <1>9, PathsCopy DEF Alone, Passed, Begun, Arrived, v
    <2>2. fits <=> Fits("paths", T, v)
        BY DEF Fits, OnRoute, Alone, Passed, Begun, Arrived
    <2>3. Spanning("paths") <=> args.is_hamiltonian
        BY DEF Spanning, Branchings
    <2>4. args.is_hamiltonian /\ fits => ~isolated
        BY <2>2 DEF Fits
    <2>5. JudgeOf("paths", T, l, k) =
            IF ~fits THEN "zero"
            ELSE IF linked THEN "go"
            ELSE IF ~args.is_hamiltonian /\ isolated THEN "go"
            ELSE IF busy \/ ends \/ absent \/ (args.is_hamiltonian /\ (more \/ late)) THEN "zero"
            ELSE "one"
        BY <2>2, <2>3 DEF JudgeOf, Endpoints, linked, busy, late, absent, v
    <2>6. absent => late
        BY <1>8, <1>9
    <2> HIDE DEF isolated, fits, ends, more
    <2> QED
        BY <2>1, <2>4, <2>5, <2>6
<1> QED
    BY <1>3, <1>4, <1>5, <1>6, <1>7, <1>9

\* In a graph that is in one piece every vertex has entered once none is left
\* on the frontier.
LEMMA WholeEntered ==
    ASSUME IsGraph(graph), NEW a \in EdgeIds, Whole, Kept(a) = {}
    PROVE  Vertices \subseteq Touched(1, a)
<1> DEFINE S == Touched(1, a)
<1>1. /\ \A b \in EdgeIds : b \in 1..a \/ b \in (a + 1)..M
      /\ S \subseteq Vertices
    BY GraphFacts DEF EdgeIds, Touched
<1>2. ASSUME NEW b \in EdgeIds, Incident(graph, b) \cap S # {}
      PROVE  Incident(graph, b) \subseteq S
    <2>1. Incident(graph, b) \subseteq Vertices
        BY GraphFacts
    <2>2. b \notin (a + 1)..M
        BY <1>1, <1>2 DEF Kept, Touched
    <2> QED
        BY <1>1, <2>1, <2>2 DEF Touched
<1>3. Closed(EdgeIds, S)
    BY <1>1, <1>2 DEF Closed
<1>4. Tail1(a) \in S /\ Tail1(a) \in Vertices
    BY FrontierMoves
<1> HIDE DEF S
<1>5. \A v \in Vertices : v \in S
    BY <1>3, <1>4, LinkedClosed DEF Whole
<1> QED
    BY <1>5 DEF S

LEMMA BranchingJudges ==
    ASSUME FrontierDone, NEW l \in 1..M, NEW a, a = EdgeOf(l), NEW d \in DataArrays,
           NEW k \in DOMAIN Leaving(l), NEW T \in SUBSET (1..a),
           DegreesOf(d, T, Across(a)), CompsOf(d, T, Across(a), Touched(1, a))
    PROVE  /\ ForestsJudged(d, l)[k] = JudgeOf("forests", T, l, k)
           /\ GoodSearch("trees") => TreesJudged(d, l)[k] = JudgeOf("trees", T, l, k)
<1> DEFINE v == Leaving(l)[k]
           e == WithLeft(d, l, k - 1, Blank)
           linked == \E w \in Others(l, k) : Linked(T, v, w)
           busy == \E w \in Others(l, k) : ~Alone(T, w)
           more == Others(l, k) # {}
           late == ~(Vertices \subseteq Touched(1, EdgeOf(l)))
<1>1. /\ Indeg(e, v) = In(T, v) /\ Outdeg(e, v) = Out(T, v)
      /\ Degree(e, v) = 0 <=> Alone(T, v)
      /\ SameCompFound(e, l, k) <=> linked
      /\ NonisolatedFound(e, l, k) <=> busy
    BY CheckReads, ErasedTypes
<1>2. /\ ForestsJudged(d, l)[k] = Forests!Judge(e, l, k)
      /\ TreesJudged(d, l)[k] = Trees!Judge(e, l, k)
    BY DEF ForestsJudged, TreesJudged
<1>3. ASSUME Whole, ~more PROVE ~late
    <2>1. Kept(a) = {} /\ IsGraph(graph) /\ a \in EdgeIds
        BY <1>3, LeavingOrder, LevelFacts DEF FrontierDone
    <2> QED
        BY <1>3, <2>1, WholeEntered
<1> HIDE DEF v, e, linked, busy, more, late
<1>4. Forests!Judge(e, l, k) = IF Fits("forests", T, v) THEN "go" ELSE "zero"
    BY <1>1, ForestsCopy DEF Fits, Alone, v
<1>5. JudgeOf("forests", T, l, k) = IF Fits("forests", T, v) THEN "go" ELSE "zero"
    BY DEF JudgeOf, v
<1>6. Trees!Judge(e, l, k) =
        IF ~Fits("trees", T, v) THEN "zero"
        ELSE IF linked \/ Alone(T, v) THEN "go"
        ELSE IF busy THEN "zero"
        ELSE IF args.is_spanning /\ more THEN "zero" ELSE "one"
    BY <1>1, TreesCopy DEF Fits, more, v
<1>7. JudgeOf("trees", T, l, k) =
        IF ~Fits("trees", T, v) THEN "zero"
        ELSE IF linked THEN "go"
        ELSE IF ~Spanning("trees") /\ Alone(T, v) THEN "go"
        ELSE IF busy \/ (Spanning("trees") /\ (more \/ late)) THEN "zero" ELSE "one"
    BY DEF JudgeOf, Endpoints, linked, busy, more, late, v
<1>8. Spanning("trees") <=> args.is_spanning
    BY DEF Spanning, Branchings
<1>9. Spanning("trees") /\ Fits("trees", T, v) => ~Alone(T, v)
    BY FitFacts
<1>10. GoodSearch("trees") /\ args.is_spanning => Whole
    BY DEF GoodSearch
<1> QED
    BY <1>2, <1>3, <1>4, <1>5, <1>6, <1>7, <1>8, <1>9, <1>10
-----------------------------------------------------------------------------
(***************************************************************************)
(* Each step of the searches that keep components.                         *)
(***************************************************************************)
LEMMA SameTargets ==
    ASSUME UNCHANGED fmVars, args' = args
    PROVE  /\ \A s, F : Target(s, F)' <=> Target(s, F)
           /\ \A s, T, Q, W : Bound(s, T, Q, W)' <=> Bound(s, T, Q, W)
           /\ \A b : Settled(b)' = Settled(b) /\ Kept(b)' = Kept(b)
           /\ \A b, T : Completing(b, T)' = Completing(b, T)
<1>1. /\ \A F, v : Alone(F, v)' <=> Alone(F, v)
      /\ \A F, v : Passed(F, v)' <=> Passed(F, v)
    BY SameFrontier DEF Alone, Passed
<1>2. /\ \A a : Tail1(a)' = Tail1(a)
      /\ \A F : Ends(F)' = Ends(F)
    BY SameFrontier DEF Tail1, Ends
<1>3. \A F, v, w : Linked(F, v, w)' <=> Linked(F, v, w)
    BY SameFrontier
<1>4. Vertices' = Vertices
    BY SameFrontier
<1>5. /\ \A F : InOne(F)' <=> InOne(F)
      /\ \A F : Acyclic(F)' <=> Acyclic(F)
    BY <1>2, <1>3, SameFrontier DEF InOne, Acyclic, Earlier, Head1
<1>6. \A F, u, w, v : OnRoute(F, u, w, v)' <=> OnRoute(F, u, w, v)
    BY <1>1, SameFrontier DEF OnRoute, Begun, Arrived
<1>7. /\ \A s : Spanning(s)' <=> Spanning(s)
      /\ \A s, F, v : Fits(s, F, v)' <=> Fits(s, F, v)
    BY <1>1, <1>6, SameFrontier DEF Spanning, Fits
<1>8. \A s, F : Target(s, F)' <=> Target(s, F)
    BY <1>2, <1>4, <1>5, <1>7 DEF Target
<1>9. \A s, T, Q, W : Bound(s, T, Q, W)' <=> Bound(s, T, Q, W)
    BY <1>1, <1>3, <1>5, <1>7 DEF Bound
<1>10. /\ \A b : Settled(b)' = Settled(b) /\ Kept(b)' = Kept(b)
       /\ \A b, T : Completing(b, T)' = Completing(b, T)
    BY SameFrontier DEF Settled, Kept, Completing
<1> QED
    BY <1>8, <1>9, <1>10

\* The edge of the level, taken or not, keeps bound what was bound.
LEMMA BoundTake ==
    ASSUME IsGraph(graph), NEW a \in EdgeIds, NEW S \in SUBSET (1..(a - 1)), NEW T,
           T = S \/ T = S \cup {a},
           NEW s, Bound(s, S, Settled(a - 1), Kept(a - 1)),
           T = S \/ (s \in Branchings => ~Linked(S, Tail1(a), Head1(a)))
    PROVE  Bound(s, T, Settled(a - 1), Across(a))
<1>1. ASSUME NEW v \in Settled(a - 1) PROVE In(T, v) = In(S, v) /\ Out(T, v) = Out(S, v)
    <2>1. v \notin Incident(graph, a)
        BY SettledFacts
    <2>2. InEdges(T, v) = InEdges(S, v) /\ OutEdges(T, v) = OutEdges(S, v)
        BY <2>1 DEF InEdges, OutEdges, Incident
    <2> QED
        BY <2>2 DEF In, Out
<1>2. \A v \in Settled(a - 1) :
        (Fits(s, T, v) <=> Fits(s, S, v)) /\ (Alone(T, v) <=> Alone(S, v))
    BY <1>1, FitFacts
<1>3. \A v, w : Linked(S, v, w) => Linked(T, v, w)
    BY LinkedMore
<1>4. Kept(a - 1) \subseteq Across(a)
    BY FrontierMoves
<1>5. s \in Branchings => Acyclic(T)
    <2>1. SUFFICES ASSUME s \in Branchings, T = S \cup {a} PROVE Acyclic(T)
        BY DEF Bound
    <2>2. Acyclic(S) /\ (a \notin S => ~Linked(S, Tail1(a), Head1(a))) /\ a \in Nat
        BY <2>1, GraphFacts DEF Bound, EdgeIds
    <2>3. a \notin S /\ a \notin 1..(a - 1) /\ \A b \in S : b \in 1..(a - 1) /\ a \notin 1..(b - 1)
        BY <2>2
    <2>4. Earlier(T, a) = S /\ \A b \in S : Earlier(T, b) = Earlier(S, b)
        BY <2>1, <2>3 DEF Earlier
    <2> QED
        BY <2>1, <2>2, <2>3, <2>4 DEF Acyclic
<1> QED
    BY <1>2, <1>3, <1>4, <1>5 DEF Bound

\* What is answered when the edges up to b are decided and those of T taken.
Sound(s, b, T, ret) ==
    /\ ret \in {"go", "zero", "one"}
    /\ ret = "go" => Bound(s, T, Settled(b), Kept(b))
    /\ ret = "zero" => \A F \in Completing(b, T) : ~Target(s, F)
    /\ ret = "one" => Target(s, T) /\ \A F \in Completing(b, T) : Target(s, F) => F = T

\* The loop over the leaving vertices, as a whole.
LEMMA LoopSound ==
    ASSUME FrontierDone, NEW l \in 1..M, NEW a, a = EdgeOf(l), NEW d, NEW T \in SUBSET (1..a),
           NEW s, GoodSearch(s), Bound(s, T, Settled(a - 1), Across(a)),
           NEW erased, NEW judged, DOMAIN judged = DOMAIN Leaving(l),
           \A k \in DOMAIN Leaving(l) : judged[k] = JudgeOf(s, T, l, k)
    PROVE  Sound(s, a, T, LeaveAll(d, l, judged, erased).ret)
<1> DEFINE all == LeaveAll(d, l, judged, erased)
           n == Len(Leaving(l))
<1>1. /\ n \in Nat /\ DOMAIN Leaving(l) = 1..n
      /\ FirstLeaving(l, n) = LeavesAt(a)
    BY LeavingOrder
<1>2. \/ all.ret = "go" /\ \A k \in DOMAIN judged : judged[k] = "go"
      \/ \E k \in DOMAIN judged :
            /\ all.ret = judged[k] /\ judged[k] # "go"
            /\ \A x \in 1..(k - 1) : judged[x] = "go"
    BY <1>1, LeaveAllFacts
<1>3. a \in EdgeIds /\ IsGraph(graph)
    BY LevelFacts DEF FrontierDone
<1> HIDE DEF all, n
<1>4. CASE all.ret = "go" /\ \A k \in DOMAIN judged : judged[k] = "go"
    <2>1. n \in 0..n /\ \A k \in 1..n : JudgeOf(s, T, l, k) = "go"
        BY <1>1, <1>4
    <2>2. Bound(s, T, Settled(a - 1) \cup FirstLeaving(l, n), Across(a) \ FirstLeaving(l, n))
        BY <2>1, LeaversBound DEF n
    <2>3. Settled(a) = Settled(a - 1) \cup LeavesAt(a) /\ Kept(a) = Across(a) \ LeavesAt(a)
        BY <1>3, SettledFacts, FrontierMoves
    <2>4. Bound(s, T, Settled(a), Kept(a))
        BY <1>1, <2>2, <2>3
    <2> QED
        BY <1>4, <2>4 DEF Sound, all
<1>5. ASSUME NEW k \in DOMAIN judged, all.ret = judged[k], judged[k] # "go",
             \A x \in 1..(k - 1) : judged[x] = "go"
      PROVE  Sound(s, a, T, all.ret)
    <2>1. /\ k \in DOMAIN Leaving(l) /\ k - 1 \in 0..n
          /\ 1..(k - 1) \subseteq DOMAIN Leaving(l)
          /\ all.ret = JudgeOf(s, T, l, k) /\ JudgeOf(s, T, l, k) # "go"
        BY <1>1, <1>5
    <2>2. \A x \in 1..(k - 1) : JudgeOf(s, T, l, x) = "go"
        BY <1>5, <2>1
    <2>3. Bound(s, T, Settled(a - 1) \cup FirstLeaving(l, k - 1), Across(a) \ FirstLeaving(l, k - 1))
        BY <2>1, <2>2, LeaversBound DEF n
    <2>4. Checked(s, T, l, k)
        BY <2>1, <2>3 DEF Checked
    <2>5. JudgeOf(s, T, l, k) \in {"zero", "one"}
        BY <2>1 DEF JudgeOf
    <2>6. CASE JudgeOf(s, T, l, k) = "zero"
        BY <2>1, <2>6, RefusedRight DEF Sound
    <2>7. CASE JudgeOf(s, T, l, k) = "one"
        BY <2>1, <2>4, <2>7, AcceptedRight DEF Sound
    <2> QED
        BY <2>5, <2>6, <2>7
<1> QED
    BY <1>2, <1>4, <1>5 DEF all

\* An edge whose ends are linked already completes no forest.
LEMMA ClosingEdge ==
    ASSUME IsGraph(graph), NEW a \in EdgeIds, NEW S \in SUBSET (1..(a - 1)), NEW s \in Branchings,
           Linked(S, Tail1(a), Head1(a))
    PROVE  Sound(s, a, S \cup {a}, "zero")
<1>1. ASSUME NEW F \in Completing(a, S \cup {a}) PROVE ~Acyclic(F)
    <2>1. S \subseteq Earlier(F, a) /\ a \in F
        BY DEF Completing, Earlier
    <2>2. Linked(Earlier(F, a), Tail1(a), Head1(a))
        BY <2>1, LinkedMore
    <2> QED
        BY <2>1, <2>2 DEF Acyclic
<1> QED
    BY <1>1 DEF Sound, Target

\* The searches that keep components, where each terminal of theirs is right.
ComponentSearch ==
    /\ search \in Routes \cup Branchings
    /\ search = "hamiltonian_cycles" => N > 1
    /\ search = "trees" /\ args.is_spanning => Whole

AnswersInv ==
    ComponentSearch /\ verdict # "none" =>
        /\ GoodSearch(search)
        /\ taken \in SUBSET EdgeIds
        /\ Sound(search, M - level, taken, verdict)

LEMMA SameAnswers ==
    ASSUME UNCHANGED fmVars, args' = args
    PROVE  /\ \A s, b, T, ret : Sound(s, b, T, ret)' <=> Sound(s, b, T, ret)
           /\ \A s : GoodSearch(s)' <=> GoodSearch(s)
           /\ EdgeIds' = EdgeIds /\ M' = M /\ (Whole' <=> Whole)
<1>1. EdgeIds' = EdgeIds /\ M' = M /\ N' = N /\ Vertices' = Vertices
    BY SameFrontier
<1>2. /\ Args("paths")' = Args("paths") /\ Args("forests")' = Args("forests")
      /\ Args("trees")' = Args("trees")
    BY <1>1 DEF Args
<1>3. \A s, b, T, ret : Sound(s, b, T, ret)' <=> Sound(s, b, T, ret)
    BY SameTargets DEF Sound
<1>4. Whole' <=> Whole
    BY <1>1, SameFrontier DEF Whole
<1>5. \A s : GoodSearch(s)' <=> GoodSearch(s)
    <2>1. \A s \in {"paths", "forests", "trees"} : args' \in Args(s)' <=> args \in Args(s)
        BY <1>2
    <2> QED
        BY <1>1, <1>4, <2>1 DEF GoodSearch
<1> QED
    BY <1>1, <1>3, <1>4, <1>5

\* The loop over the leaving vertices runs, unless the edge closes a cycle.
Looped(value) ==
    \E judged, erased :
        /\ Follow(LeaveAll(Made(data, level, value), level, judged, erased), value, Bottom(search))
        /\ DOMAIN judged = DOMAIN Leaving(level)
        /\ \A k \in DOMAIN Leaving(level) : judged[k] = JudgeOf(search, Taken1(value), level, k)

Closing == Linked(taken, Tail1(EdgeOf(level)), Head1(EdgeOf(level)))
Refused(value) ==
    \E b : Follow([ret |-> "zero", data |-> b], value, Bottom(search))

\* What the component numbers of the ends of the edge say.
LEMMA ClosingRead ==
    ASSUME FrontierDone, NEW l \in 1..M, NEW a, a = EdgeOf(l), NEW s, s # "degrees",
           NEW d, NEW T, ArrayOf(d, l, T, s), NEW b,
           b = Entered(d, l) \/ b = CountEdge(Entered(d, l), l)
    PROVE  Comp(b, TailOf(l)) = Comp(b, HeadOf(l)) <=> Linked(T, Tail1(a), Head1(a))
<1>1. a \in EdgeIds /\ a - 1 = M - l /\ TailOf(l) = Tail1(a) /\ HeadOf(l) = Head1(a)
    BY LevelFacts DEF FrontierDone
<1>2. /\ d \in DataArrays /\ T \in SUBSET (1..(a - 1)) /\ DegreesOf(d, T, Kept(a - 1))
      /\ CompsOf(d, T, Kept(a - 1), Touched(1, a - 1))
    BY <1>1 DEF ArrayOf
<1>3. /\ Entered(d, l) \in DataArrays
      /\ DegreesOf(Entered(d, l), T, Across(a)) /\ CompsOf(Entered(d, l), T, Across(a), Touched(1, a))
    BY <1>2, EnteredKeeps, EnteredFacts
<1>4. CompsOf(CountEdge(Entered(d, l), l), T, Across(a), Touched(1, a))
    BY <1>2, <1>3, CountEdgeKeeps
<1>5. Tail1(a) \in Across(a) /\ Head1(a) \in Across(a)
    BY <1>1, FrontierMoves DEF FrontierDone
<1> QED
    BY <1>1, <1>3, <1>4, <1>5 DEF CompsOf

LEMMA ChildRead ==
    ASSUME FrontierDone, ArrayInv, GoodSearch(search), NEW value \in {0, 1}, GetChild(value)
    PROVE  \/ Looped(value) /\ (value = 1 /\ search \in Branchings => ~Closing)
           \/ Refused(value) /\ value = 1 /\ search \in Branchings /\ Closing
<1> DEFINE l == level
           d == Made(data, l, value)
           T == Taken1(value)
<1>1. \/ search = "cycles" /\ Cycles!Child(value)
      \/ search = "hamiltonian_cycles" /\ HamiltonianCycles!Child(value)
      \/ search = "paths" /\ Paths!Child(value)
      \/ search = "forests" /\ Forests!Child(value)
      \/ search = "trees" /\ Trees!Child(value)
    BY DEF GetChild, GoodSearch, Routes, Branchings
<1>2. verdict = "go"
    BY <1>1, CyclesChild, HamiltonianCyclesChild, PathsChild, ForestsChild, TreesChild
<1>3. l \in 1..M /\ ArrayOf(data, l, taken, search) /\ search # "degrees"
    BY <1>1, <1>2 DEF ArrayInv
<1>4. /\ d \in DataArrays /\ T \in SUBSET (1..EdgeOf(l))
      /\ DegreesOf(d, T, Across(EdgeOf(l)))
      /\ CompsOf(d, T, Across(EdgeOf(l)), Touched(1, EdgeOf(l)))
    BY <1>3, MadeArray DEF Taken1
<1>5. \A k \in DOMAIN Leaving(l) :
        /\ CyclesJudged(d, l)[k] = JudgeOf("cycles", T, l, k)
        /\ HamiltonianJudged(d, l)[k] = JudgeOf("hamiltonian_cycles", T, l, k)
        /\ args \in Args("paths") => PathsJudged(d, l)[k] = JudgeOf("paths", T, l, k)
        /\ ForestsJudged(d, l)[k] = JudgeOf("forests", T, l, k)
        /\ GoodSearch("trees") => TreesJudged(d, l)[k] = JudgeOf("trees", T, l, k)
    BY <1>3, <1>4, CodeJudges, BranchingJudges
<1>6. /\ DOMAIN CyclesJudged(d, l) = DOMAIN Leaving(l)
      /\ DOMAIN HamiltonianJudged(d, l) = DOMAIN Leaving(l)
      /\ DOMAIN PathsJudged(d, l) = DOMAIN Leaving(l)
      /\ DOMAIN ForestsJudged(d, l) = DOMAIN Leaving(l)
      /\ DOMAIN TreesJudged(d, l) = DOMAIN Leaving(l)
    BY JudgedDomains
<1>7. ASSUME NEW judged, NEW erased,
             Follow(LeaveAll(d, l, judged, erased), value, Bottom(search)),
             DOMAIN judged = DOMAIN Leaving(l),
             \A k \in DOMAIN Leaving(l) : judged[k] = JudgeOf(search, T, l, k)
      PROVE  Looped(value)
    BY <1>7 DEF Looped
<1>8. /\ Bottom("cycles") = "zero" /\ Bottom("hamiltonian_cycles") = "zero"
      /\ Bottom("paths") = "zero" /\ Bottom("forests") = "one" /\ Bottom("trees") = "one"
    BY DEF Bottom, Routes
<1>9. \A b : b = Entered(data, l) \/ b = CountEdge(Entered(data, l), l) =>
            (Comp(b, TailOf(l)) = Comp(b, HeadOf(l)) <=> Closing)
    BY <1>3, ClosingRead DEF Closing
<1> HIDE DEF d, T
<1>10. CASE search = "cycles" /\ Cycles!Child(value)
    <2>1. Follow(LeaveAll(d, l, CyclesJudged(d, l), Erased), value, "zero")
        BY <1>10, CyclesChild DEF d
    <2> QED
        BY <1>5, <1>6, <1>7, <1>8, <1>10, <2>1 DEF Branchings
<1>11. CASE search = "hamiltonian_cycles" /\ HamiltonianCycles!Child(value)
    <2>1. Follow(LeaveAll(d, l, HamiltonianJudged(d, l), Erased), value, "zero")
        BY <1>11, HamiltonianCyclesChild DEF d
    <2> QED
        BY <1>5, <1>6, <1>7, <1>8, <1>11, <2>1 DEF Branchings
<1>12. CASE search = "paths" /\ Paths!Child(value)
    <2>1. Follow(LeaveAll(d, l, PathsJudged(d, l), Erased), value, "zero")
        BY <1>12, PathsChild DEF d
    <2>2. args \in Args("paths")
        BY <1>12 DEF GoodSearch
    <2> QED
        BY <1>5, <1>6, <1>7, <1>8, <1>12, <2>1, <2>2 DEF Branchings
<1>13. CASE search = "forests" /\ Forests!Child(value)
    <2> DEFINE b == CountEdge(Entered(data, l), l)
    <2>1. \/ /\ ~(value = 1 /\ Comp(b, TailOf(l)) = Comp(b, HeadOf(l)))
             /\ Follow(LeaveAll(d, l, ForestsJudged(d, l), Blank), value, "one")
          \/ /\ value = 1 /\ Comp(b, TailOf(l)) = Comp(b, HeadOf(l))
             /\ Follow([ret |-> "zero", data |-> b], value, "one")
        BY <1>13, ForestsChild DEF d
    <2>2. Comp(b, TailOf(l)) = Comp(b, HeadOf(l)) <=> Closing
        BY <1>9
    <2> HIDE DEF b
    <2>3. CASE /\ ~(value = 1 /\ Closing)
               /\ Follow(LeaveAll(d, l, ForestsJudged(d, l), Blank), value, "one")
        BY <1>5, <1>6, <1>7, <1>8, <1>13, <2>3
    <2>4. CASE value = 1 /\ Closing /\ Follow([ret |-> "zero", data |-> b], value, "one")
        BY <1>8, <1>13, <2>4 DEF Refused, Branchings
    <2> QED
        BY <2>1, <2>2, <2>3, <2>4
<1>14. CASE search = "trees" /\ Trees!Child(value)
    <2> DEFINE b == Entered(data, l)
    <2>1. \/ /\ ~(value = 1 /\ Comp(b, TailOf(l)) = Comp(b, HeadOf(l)))
             /\ Follow(LeaveAll(d, l, TreesJudged(d, l), Blank), value, "one")
          \/ /\ value = 1 /\ Comp(b, TailOf(l)) = Comp(b, HeadOf(l))
             /\ Follow([ret |-> "zero", data |-> b], value, "one")
        BY <1>14, TreesChild DEF d
    <2>2. Comp(b, TailOf(l)) = Comp(b, HeadOf(l)) <=> Closing
        BY <1>9
    <2> HIDE DEF b
    <2>3. CASE /\ ~(value = 1 /\ Closing)
               /\ Follow(LeaveAll(d, l, TreesJudged(d, l), Blank), value, "one")
        BY <1>5, <1>6, <1>7, <1>8, <1>14, <2>3
    <2>4. CASE value = 1 /\ Closing /\ Follow([ret |-> "zero", data |-> b], value, "one")
        BY <1>8, <1>14, <2>4 DEF Refused, Branchings
    <2> QED
        BY <2>1, <2>2, <2>3, <2>4
<1> QED
    BY <1>1, <1>10, <1>11, <1>12, <1>13, <1>14

LEMMA ChildAnswers ==
    ASSUME FrontierDone, ArrayInv, AnswersInv, ComponentSearch, verdict = "go",
           NEW value \in {0, 1}, GetChild(value)
    PROVE  AnswersInv'
<1> DEFINE l == level
           a == EdgeOf(l)
           T == Taken1(value)
           s == search
<1>1. UNCHANGED fmVars /\ search' = s /\ args' = args
    BY DEF GetChild
<1>2. /\ GoodSearch(s) /\ Sound(s, M - l, taken, "go")
    BY DEF AnswersInv
<1>3. \/ Looped(value) /\ (value = 1 /\ s \in Branchings => ~Closing)
      \/ Refused(value) /\ value = 1 /\ s \in Branchings /\ Closing
    BY <1>2, ChildRead
<1>4. /\ l \in 1..M /\ ArrayOf(data, l, taken, s) /\ IsGraph(graph) /\ s # "degrees"
    BY <1>2 DEF ArrayInv, FrontierDone, GoodSearch, Routes, Branchings
<1>5. /\ a \in EdgeIds /\ a - 1 = M - l /\ a = M - (l - 1) /\ M \in Nat
      /\ l = 1 => a = M
    <2>1. a \in EdgeIds /\ a - 1 = M - l /\ M \in Nat
        BY <1>4, LevelFacts, GraphFacts
    <2>2. a = M - (l - 1) /\ (l = 1 => a = M)
        BY <1>4, <2>1 DEF EdgeOf
    <2> QED
        BY <2>1, <2>2
<1>6. T \in SUBSET (1..a)
    BY <1>4, MadeArray DEF Taken1
<1>7. T \in SUBSET EdgeIds
    BY <1>5, <1>6 DEF EdgeIds
<1>8. Bound(s, taken, Settled(a - 1), Kept(a - 1)) /\ taken \in SUBSET (1..(a - 1))
    BY <1>2, <1>4, <1>5 DEF Sound, ArrayOf
<1>9. IF value = 1 THEN T = taken \cup {a} ELSE T = taken
    BY DEF Taken1
<1>10. \A all, bottom : Follow(all, value, bottom) =>
            /\ level' = l - 1 /\ taken' = T
            /\ verdict' = IF all.ret = "go" /\ l = 1 THEN bottom ELSE all.ret
    BY DEF Follow, Taken1
<1>11. Closing <=> Linked(taken, Tail1(a), Head1(a))
    BY DEF Closing
<1> HIDE DEF a, T
<1>12. ASSUME Looped(value), value = 1 /\ s \in Branchings => ~Closing
       PROVE  level' = l - 1 /\ taken' = T /\ Sound(s, a, T, verdict')
    <2>1. PICK judged, erased :
            /\ Follow(LeaveAll(Made(data, l, value), l, judged, erased), value, Bottom(s))
            /\ DOMAIN judged = DOMAIN Leaving(l)
            /\ \A k \in DOMAIN Leaving(l) : judged[k] = JudgeOf(s, T, l, k)
        BY <1>12 DEF Looped, T
    <2> DEFINE ret == LeaveAll(Made(data, l, value), l, judged, erased).ret
    <2>2. Bound(s, T, Settled(a - 1), Across(a))
        BY <1>4, <1>5, <1>8, <1>9, <1>11, <1>12, BoundTake
    <2>3. Sound(s, a, T, ret)
        <3>1. a = EdgeOf(l)
            BY DEF a
        <3> QED
            BY <1>2, <1>4, <1>6, <2>1, <2>2, <3>1, LoopSound
    <2>4. /\ level' = l - 1 /\ taken' = T
          /\ verdict' = IF ret = "go" /\ l = 1 THEN Bottom(s) ELSE ret
        BY <1>10, <2>1
    <2> HIDE DEF ret
    <2>5. ASSUME ret = "go", l = 1 PROVE Sound(s, a, T, Bottom(s))
        <3>1. a = M /\ Settled(M) = Vertices /\ Kept(M) = {}
            BY <1>4, <1>5, <2>5, SettledFacts, TouchedFacts DEF Kept
        <3>2. Completing(a, T) = {T}
            BY <1>7, <3>1 DEF Completing, EdgeIds
        <3>3. Bound(s, T, Vertices, {})
            BY <2>3, <2>5, <3>1 DEF Sound
        <3>4. Target(s, T) <=> Bottom(s) = "one"
            BY <1>2, <1>4, <1>7, <3>3, BottomRight
        <3>5. Bottom(s) \in {"zero", "one"}
            BY DEF Bottom
        <3> QED
            BY <3>2, <3>4, <3>5 DEF Sound
    <2> QED
        BY <2>3, <2>4, <2>5
<1>13. ASSUME Refused(value), value = 1, s \in Branchings, Closing
       PROVE  level' = l - 1 /\ taken' = T /\ Sound(s, a, T, verdict')
    <2>1. level' = l - 1 /\ taken' = T /\ verdict' = "zero"
        BY <1>10, <1>13 DEF Refused
    <2>2. Sound(s, a, taken \cup {a}, "zero")
        BY <1>4, <1>5, <1>8, <1>11, <1>13, ClosingEdge
    <2> QED
        BY <1>9, <1>13, <2>1, <2>2
<1>14. level' = l - 1 /\ taken' = T /\ Sound(s, a, T, verdict')
    BY <1>3, <1>12, <1>13
<1>15. /\ \A t, b, S, r : Sound(t, b, S, r)' <=> Sound(t, b, S, r)
       /\ \A t : GoodSearch(t)' <=> GoodSearch(t)
       /\ EdgeIds' = EdgeIds /\ M' = M
    BY <1>1, SameAnswers
<1> QED
    BY <1>1, <1>2, <1>5, <1>7, <1>14, <1>15 DEF AnswersInv

LEMMA AnswersStep ==
    ASSUME DoneInv, StartInv, ArrayInv, AnswersInv, [NextGraphSearch]_vars
    PROVE  AnswersInv'
<1>1. CASE ConstructFM /\ UNCHANGED <<search, args>>
    <2>1. phase # "done"
        BY <1>1 DEF ConstructFM, Construct, ComputeEntering, ComputeLeaving, Enter, Record,
                    Leave, NextEdge
    <2>2. search' = "none"
        BY <1>1, <2>1 DEF StartInv
    <2> QED
        BY <2>2 DEF AnswersInv, ComponentSearch, Routes, Branchings
<1>2. CASE GetRoot
    <2>1. /\ UNCHANGED fmVars /\ verdict' = "go" /\ FrontierDone /\ level' = M /\ taken' = {}
          /\ args' \in Args(search')
        BY <1>2 DEF GetRoot, Root, DoneInv
    <2>2. M' = M /\ Vertices' = Vertices /\ \A b, c : Touched(b, c)' = Touched(b, c)
        BY <2>1, SameFrontier
    <2>3. Settled(0) = {} /\ M - M = 0
        BY <2>1, GraphFacts, TouchedFacts DEF Settled, FrontierDone
    <2>4. Settled(0)' = Settled(0)
        BY <2>2 DEF Settled
    <2>5. \A s, W : Bound(s, {}, {}, W)'
        BY DEF Bound, Acyclic
    <2>6. Sound(search, M - level, taken, verdict)'
        BY <2>1, <2>2, <2>3, <2>4, <2>5 DEF Sound
    <2>7. ComponentSearch' => GoodSearch(search)'
        <3>1. /\ Args("paths")' = Args("paths") /\ Args("forests")' = Args("forests")
              /\ Args("trees")' = Args("trees")
            BY <2>2 DEF Args
        <3>2. search' \in {"paths", "forests", "trees"} => args' \in Args(search)'
            <4>1. \A x \in {"paths", "forests", "trees"} : search' = x => args' \in Args(x)
                BY <2>1
            <4> QED
                BY <3>1, <4>1
        <3> QED
            BY <3>2 DEF ComponentSearch, GoodSearch
    <2> QED
        BY <2>1, <2>6, <2>7 DEF AnswersInv
<1>3. ASSUME NEW value \in {0, 1}, GetChild(value)
      PROVE  AnswersInv'
    <2>1. UNCHANGED fmVars /\ search' = search
        BY <1>3 DEF GetChild
    <2>2. N' = N
        BY <2>1, SameFrontier
    <2>3. CASE ComponentSearch
        <3>1. verdict = "go"
            <4>1. \/ search = "cycles" /\ Cycles!Child(value)
                  \/ search = "hamiltonian_cycles" /\ HamiltonianCycles!Child(value)
                  \/ search = "paths" /\ Paths!Child(value)
                  \/ search = "forests" /\ Forests!Child(value)
                  \/ search = "trees" /\ Trees!Child(value)
                BY <1>3, <2>3 DEF GetChild, ComponentSearch, Routes, Branchings
            <4> QED
                BY <4>1, CyclesChild, HamiltonianCyclesChild, PathsChild, ForestsChild, TreesChild
        <3> QED
            BY <1>3, <2>3, <3>1, ChildAnswers DEF DoneInv, ArrayInv
    <2>4. CASE ~ComponentSearch
        <3>1. (Whole' <=> Whole) /\ args' = args
            BY <1>3, <2>1, SameAnswers DEF GetChild
        <3> QED
            BY <2>1, <2>2, <2>4, <3>1 DEF AnswersInv, ComponentSearch
    <2> QED
        BY <2>3, <2>4
<1>4. CASE UNCHANGED vars
    <2>1. /\ UNCHANGED fmVars /\ level' = level /\ taken' = taken
          /\ verdict' = verdict /\ search' = search /\ args' = args
        BY <1>4 DEF vars, searchVars
    <2>2. /\ \A t, b, S, r : Sound(t, b, S, r)' <=> Sound(t, b, S, r)
          /\ \A t : GoodSearch(t)' <=> GoodSearch(t)
          /\ EdgeIds' = EdgeIds /\ M' = M /\ (Whole' <=> Whole)
        BY <2>1, SameAnswers
    <2>3. N' = N
        BY <2>1, SameFrontier
    <2> QED
        BY <2>1, <2>2, <2>3 DEF AnswersInv, ComponentSearch
<1> QED
    BY <1>1, <1>2, <1>3, <1>4 DEF NextGraphSearch, ZeroArc, OneArc

\* The families of the three search modules are the targets.
LEMMA RouteFamilies ==
    ASSUME IsGraph(graph)
    PROVE  /\ \A F \in SUBSET EdgeIds : Cycles!IsDirectedCycle(F) <=> Target("cycles", F)
           /\ \A F \in SUBSET EdgeIds :
                HamiltonianCycles!IsHamiltonianCycle(F) <=> Target("hamiltonian_cycles", F)
           /\ args \in Args("paths") =>
                \A F \in SUBSET EdgeIds : Paths!IsSTPath(F) <=> Target("paths", F)
<1>1. \A F : Cycles!IsDirectedCycle(F) <=>
                \E k \in 1..N : \E p \in Orders(k) : Cardinality(F) = k /\ Pairs(F) = Circuit(p)
    <2>1. /\ \A F : Cycles!Cardinality(F) = Cardinality(F)
          /\ \A k : Cycles!Orders(k) = Orders(k)
          /\ \A p : Cycles!Circuit(p) = Circuit(p)
          /\ \A F : Cycles!Pairs(F) = Pairs(F)
          /\ Cycles!N = N
        BY DEF Cycles!Cardinality, Cycles!Orders, Cycles!Circuit, Cycles!Steps, Cycles!Pairs,
               Cycles!N, Cycles!Vertices, Cardinality, Orders, Circuit, Steps, Pairs, N, Vertices
    <2> QED
        BY <2>1 DEF Cycles!IsDirectedCycle
<1>2. \A F : HamiltonianCycles!IsHamiltonianCycle(F) <=>
                \E p \in Orders(N) : Cardinality(F) = N /\ Pairs(F) = Circuit(p)
    <2>1. /\ \A F : HamiltonianCycles!Cardinality(F) = Cardinality(F)
          /\ \A k : HamiltonianCycles!Orders(k) = Orders(k)
          /\ \A p : HamiltonianCycles!Circuit(p) = Circuit(p)
          /\ \A F : HamiltonianCycles!Pairs(F) = Pairs(F)
          /\ HamiltonianCycles!N = N
        BY DEF HamiltonianCycles!Cardinality, HamiltonianCycles!Orders, HamiltonianCycles!Circuit,
               HamiltonianCycles!Steps, HamiltonianCycles!Pairs, HamiltonianCycles!N,
               HamiltonianCycles!Vertices, Cardinality, Orders, Circuit, Steps, Pairs, N, Vertices
    <2> QED
        BY <2>1 DEF HamiltonianCycles!IsHamiltonianCycle
<1>3. ASSUME NEW F
      PROVE  Paths!IsSTPath(F) <=>
                /\ args.s # args.t /\ args.s \in Ends(F) /\ args.t \in Ends(F)
                /\ Cardinality(Ends(F)) = Cardinality(F) + 1
                /\ args.is_hamiltonian => Cardinality(F) + 1 = N
                /\ \E p \in [1..(Cardinality(F) + 1) -> Ends(F)] :
                        p[1] = args.s /\ p[Cardinality(F) + 1] = args.t /\ Pairs(F) = Steps(p)
    <2>1. /\ \A G : Paths!Cardinality(G) = Cardinality(G)
          /\ \A p : Paths!Steps(p) = Steps(p)
          /\ Paths!Pairs(F) = Pairs(F)
          /\ Paths!N = N
        BY DEF Paths!Cardinality, Paths!Steps, Paths!Pairs, Paths!N, Cardinality, Steps, Pairs, N
    <2>2. Paths!Ends(F) = Ends(F)
        BY DEF Paths!Ends, Paths!Incident, Ends, Incident
    <2>3. {args.s, args.t} \subseteq Ends(F) <=> args.s \in Ends(F) /\ args.t \in Ends(F)
        OBVIOUS
    <2> QED
        BY <2>1, <2>2, <2>3 DEF Paths!IsSTPath
<1> QED
    BY <1>1, <1>2, <1>3, Targets

LEMMA BranchingFamilies ==
    ASSUME IsGraph(graph)
    PROVE  /\ args \in Args("forests") =>
                \A F \in SUBSET EdgeIds : Forests!IsRootedForest(F) <=> Target("forests", F)
           /\ args \in Args("trees") =>
                \A F \in SUBSET EdgeIds : Trees!IsRootedTree(F) <=> Target("trees", F)
<1>1. /\ \A F : Forests!Cardinality(F) = Cardinality(F) /\ Trees!Cardinality(F) = Cardinality(F)
      /\ \A F : Forests!Ends(F) = Ends(F) /\ Trees!Ends(F) = Ends(F)
      /\ \A F, R : Forests!Reached(F, R) = Reached(F, R) /\ Trees!Reached(F, R) = Reached(F, R)
      /\ Forests!Vertices = Vertices /\ Trees!Vertices = Vertices
    <2>1. Forests!Vertices = Vertices /\ Trees!Vertices = Vertices
        BY DEF Forests!Vertices, Trees!Vertices, Forests!N, Trees!N, Vertices, N
    <2>2. \A F : Forests!Cardinality(F) = Cardinality(F) /\ Trees!Cardinality(F) = Cardinality(F)
        BY DEF Forests!Cardinality, Trees!Cardinality, Cardinality
    <2>3. \A F : Forests!Ends(F) = Ends(F) /\ Trees!Ends(F) = Ends(F)
        BY DEF Forests!Ends, Trees!Ends, Forests!Incident, Trees!Incident, Ends, Incident
    <2>4. \A F, R : Forests!Reached(F, R) = Reached(F, R) /\ Trees!Reached(F, R) = Reached(F, R)
        BY <2>1 DEF Forests!Reached, Trees!Reached, Reached
    <2> QED
        BY <2>1, <2>2, <2>3, <2>4
<1>2. ASSUME NEW F
      PROVE  Forests!Sources(F) = {v \in Ends(F) : Source(F, v)}
    BY <1>1 DEF Forests!Sources, Forests!InEdges, Source, Head1
<1>3. ASSUME args \in Args("forests"), NEW F \in SUBSET EdgeIds
      PROVE  Forests!IsRootedForest(F) <=> Target("forests", F)
    <2> DEFINE R == Forests!Sources(F)
    <2>1. R = {v \in Ends(F) : Source(F, v)}
        BY <1>2
    <2>2. Forests!IsRootedForest(F) <=>
            /\ Ends(F) \subseteq Reached(F, R)
            /\ Cardinality(F) = Cardinality(Ends(F)) - Cardinality(R)
            /\ args.roots # {} => R = args.roots
            /\ args.is_spanning => Ends(F) = Vertices
        BY <1>1 DEF Forests!IsRootedForest, Forests!IsBranching
    <2> HIDE DEF R
    <2> QED
        BY <1>3, <2>1, <2>2, ForestTarget
<1>4. ASSUME args \in Args("trees"), NEW F \in SUBSET EdgeIds
      PROVE  Trees!IsRootedTree(F) <=> Target("trees", F)
    <2>1. Trees!IsRootedTree(F) <=>
            /\ F # {} => args.root \in Ends(F)
            /\ Ends(F) \subseteq Reached(F, {args.root})
            /\ F # {} => Cardinality(F) = Cardinality(Ends(F)) - 1
            /\ args.is_spanning => Ends(F) = Vertices
        BY <1>1 DEF Trees!IsRootedTree, Trees!IsTreeFromRoot
    <2> QED
        BY <1>4, <2>1, TreeTarget
<1> QED
    BY <1>3, <1>4

\* What the search modules call completions.
LEMMA CompletionCopies ==
    /\ EdgeIds \ Cycles!Decided = EdgeIds \ (1..(M - level))
    /\ EdgeIds \ HamiltonianCycles!Decided = EdgeIds \ (1..(M - level))
    /\ EdgeIds \ Paths!Decided = EdgeIds \ (1..(M - level))
    /\ EdgeIds \ Forests!Decided = EdgeIds \ (1..(M - level))
    /\ EdgeIds \ Trees!Decided = EdgeIds \ (1..(M - level))
    /\ Cycles!EdgeIds = EdgeIds /\ HamiltonianCycles!EdgeIds = EdgeIds /\ Paths!EdgeIds = EdgeIds
    /\ Forests!EdgeIds = EdgeIds /\ Trees!EdgeIds = EdgeIds
BY DEF Cycles!EdgeIds, Cycles!Decided, Cycles!M, HamiltonianCycles!EdgeIds,
       HamiltonianCycles!Decided, HamiltonianCycles!M, Paths!EdgeIds, Paths!Decided, Paths!M,
       Forests!EdgeIds, Forests!Decided, Forests!M, Trees!EdgeIds, Trees!Decided, Trees!M,
       EdgeIds, M

\* The verdict of a search is right when what it says of all completions is.
LEMMA VerdictsRight ==
    ASSUME IsGraph(graph), AnswersInv, ComponentSearch
    PROVE  /\ search = "cycles" => Cycles!CycleVerdictRight
           /\ search = "hamiltonian_cycles" => HamiltonianCycles!HamVerdictRight
           /\ search = "paths" => Paths!PathVerdictRight
           /\ search = "forests" => Forests!ForestVerdictRight
           /\ search = "trees" => Trees!VerdictRight(Trees!IsRootedTree)
<1> DEFINE C == Completing(M - level, taken)
           Right(R) == (verdict = "zero" => R = {}) /\ (verdict = "one" => R = {taken})
<1>1. taken \in C
    <2>1. taken = taken \cup {} /\ {} \in SUBSET (EdgeIds \ (1..(M - level)))
        OBVIOUS
    <2> QED
        BY <2>1 DEF Completing
<1>2. verdict # "none" => GoodSearch(search) /\ \A F \in C : F \in SUBSET EdgeIds
    BY DEF Completing, AnswersInv
<1>3. /\ Cycles!Completions(Cycles!IsDirectedCycle) = {F \in C : Cycles!IsDirectedCycle(F)}
      /\ HamiltonianCycles!Completions(HamiltonianCycles!IsHamiltonianCycle)
            = {F \in C : HamiltonianCycles!IsHamiltonianCycle(F)}
      /\ Paths!Completions(Paths!IsSTPath) = {F \in C : Paths!IsSTPath(F)}
      /\ Forests!Completions(Forests!IsRootedForest) = {F \in C : Forests!IsRootedForest(F)}
      /\ Trees!Completions(Trees!IsRootedTree) = {F \in C : Trees!IsRootedTree(F)}
    BY CompletionCopies
       DEF Cycles!Completions, HamiltonianCycles!Completions, Paths!Completions,
           Forests!Completions, Trees!Completions, Completing
<1>4. /\ verdict = "zero" => \A F \in C : ~Target(search, F)
      /\ verdict = "one" => Target(search, taken) /\ \A F \in C : Target(search, F) => F = taken
    BY DEF AnswersInv, Sound
<1> HIDE DEF C
<1>5. ASSUME NEW R, verdict # "none" => R = {F \in C : Target(search, F)}
      PROVE  Right(R)
    BY <1>1, <1>4, <1>5
<1>6. CASE search = "cycles"
    <2>1. verdict # "none" =>
            Cycles!Completions(Cycles!IsDirectedCycle) = {F \in C : Target(search, F)}
        BY <1>2, <1>3, <1>6, RouteFamilies
    <2>2. Right(Cycles!Completions(Cycles!IsDirectedCycle))
        BY <1>5, <2>1
    <2> QED
        BY <1>6, <2>2 DEF Cycles!CycleVerdictRight, Cycles!VerdictRight
<1>7. CASE search = "hamiltonian_cycles"
    <2>1. verdict # "none" =>
            HamiltonianCycles!Completions(HamiltonianCycles!IsHamiltonianCycle)
                = {F \in C : Target(search, F)}
        BY <1>2, <1>3, <1>7, RouteFamilies
    <2>2. Right(HamiltonianCycles!Completions(HamiltonianCycles!IsHamiltonianCycle))
        BY <1>5, <2>1
    <2> QED
        BY <1>7, <2>2 DEF HamiltonianCycles!HamVerdictRight, HamiltonianCycles!VerdictRight
<1>8. CASE search = "paths"
    <2>1. verdict # "none" =>
            Paths!Completions(Paths!IsSTPath) = {F \in C : Target(search, F)}
        BY <1>2, <1>3, <1>8, RouteFamilies DEF GoodSearch
    <2>2. Right(Paths!Completions(Paths!IsSTPath))
        BY <1>5, <2>1
    <2> QED
        BY <1>8, <2>2 DEF Paths!PathVerdictRight, Paths!VerdictRight
<1>9. CASE search = "forests"
    <2>1. verdict # "none" =>
            Forests!Completions(Forests!IsRootedForest) = {F \in C : Target(search, F)}
        BY <1>2, <1>3, <1>9, BranchingFamilies DEF GoodSearch
    <2>2. Right(Forests!Completions(Forests!IsRootedForest))
        BY <1>5, <2>1
    <2> QED
        BY <1>9, <2>2 DEF Forests!ForestVerdictRight, Forests!VerdictRight
<1>10. CASE search = "trees"
    <2>1. verdict # "none" =>
            Trees!Completions(Trees!IsRootedTree) = {F \in C : Target(search, F)}
        BY <1>2, <1>3, <1>10, BranchingFamilies DEF GoodSearch
    <2>2. Right(Trees!Completions(Trees!IsRootedTree))
        BY <1>5, <2>1
    <2> QED
        BY <1>10, <2>2 DEF Trees!VerdictRight
<1> QED
    BY <1>6, <1>7, <1>8, <1>9, <1>10

LEMMA AnswersInvariance == SpecGraphSearch => [](IsGraph(graph) /\ AnswersInv)
<1>1. InitGraphSearch => AnswersInv
    BY DEF InitGraphSearch, AnswersInv, ComponentSearch, Routes, Branchings
<1>2. DoneInv /\ StartInv /\ ArrayInv /\ AnswersInv /\ [NextGraphSearch]_vars => AnswersInv'
    BY AnswersStep
<1>3. IInv => IsGraph(graph)
    BY DEF IInv, TypeOK
<1> QED
    BY <1>1, <1>2, <1>3, SearchInvariance, SearchConstructs, Invariance, PTL DEF SpecGraphSearch

(***************************************************************************)
(* For every digraph: each terminal of the search for directed cycles is   *)
(* right, and of the search for Hamiltonian cycles when there is more than *)
(* one vertex.  The terminal 1 is returned exactly when the edges taken    *)
(* are one directed cycle, through every vertex if that is asked for, and  *)
(* 0 only when no further choice gives one, though the search looks at the *)
(* degrees and the component numbers of the frontier alone.                *)
(***************************************************************************)
THEOREM CycleSearchCorrect == SpecGraphSearch => []CyclesRight
<1>1. IsGraph(graph) /\ AnswersInv => CyclesRight
    BY VerdictsRight DEF CyclesRight, ComponentSearch, Routes
<1> QED
    BY <1>1, AnswersInvariance, PTL

(***************************************************************************)
(* For every digraph and every pair of vertices: each terminal of the      *)
(* search for paths from s to t is right.  The terminal 1 is returned      *)
(* exactly when the edges taken are one simple directed path from s to t,  *)
(* through every vertex if that is asked for, and 0 only when no further   *)
(* choice gives one.  In particular nothing is accepted when s is t, and a *)
(* path is not accepted before s and t have entered the frontier.          *)
(***************************************************************************)
THEOREM PathSearchCorrect == SpecGraphSearch => []PathsRight
<1>1. IsGraph(graph) /\ AnswersInv => PathsRight
    BY VerdictsRight DEF PathsRight, ComponentSearch, Routes
<1> QED
    BY <1>1, AnswersInvariance, PTL

(***************************************************************************)
(* For every digraph, all roots and every choice of spanning or not: each  *)
(* terminal of the search for rooted forests is right, and of the search   *)
(* for trees from a root, spanning ones on connected graphs.  A choice is  *)
(* refused when its edge joins what is joined already, or when a vertex    *)
(* leaves that breaks the shape asked for, and never when a forest or a    *)
(* tree of the kind can still result; what is accepted is one, reached     *)
(* from its roots, though no check looks for directed cycles or paths.     *)
(***************************************************************************)
THEOREM TreeSearchCorrect == SpecGraphSearch => []TreesRight
<1>1. ASSUME IsGraph(graph), AnswersInv PROVE TreesRight
    <2>1. search = "forests" => Forests!ForestVerdictRight
        BY <1>1, VerdictsRight DEF ComponentSearch, Branchings
    <2>2. Trees!Connected <=> Whole
        <3>1. Trees!Vertices = Vertices /\ Trees!EdgeIds = EdgeIds
              /\ \A a : Trees!Incident(graph, a) = Incident(graph, a)
            BY DEF Trees!Vertices, Trees!N, Trees!EdgeIds, Trees!M, Trees!Incident, Vertices, N,
                   EdgeIds, M, Incident
        <3>2. \A F, v, w : Trees!Linked(F, v, w) <=> Linked(F, v, w)
            BY <3>1 DEF Trees!Linked, Linked
        <3> QED
            BY <3>1, <3>2 DEF Trees!Connected, Whole
    <2>3. search = "trees" /\ (args.is_spanning => Whole) => Trees!VerdictRight(Trees!IsRootedTree)
        BY <1>1, VerdictsRight DEF ComponentSearch, Branchings
    <2>4. search = "trees" => Trees!TreeVerdictRight
        BY <2>3 DEF Trees!TreeVerdictRight
    <2>5. search = "trees" => Trees!SpanningTreeVerdictRight
        BY <2>2, <2>3 DEF Trees!SpanningTreeVerdictRight
    <2> QED
        BY <2>1, <2>4, <2>5 DEF TreesRight
<1> QED
    BY <1>1, AnswersInvariance, PTL
=============================================================================
