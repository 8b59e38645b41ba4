--------------------------- MODULE FrontierSearch ---------------------------
(***************************************************************************)
(* What the six frontier-based specifications (spec/Frontier*.hpp) share:  *)
(* a top-down search that decides the edges in order and keeps, for each   *)
(* vertex on the frontier, its degrees and the number of its component in  *)
(* an array indexed by the slots of FrontierManager.  A search first runs  *)
(* the constructor of FrontierManager, then getRoot, then getChild once    *)
(* for each level until a terminal is returned (see GraphSearch).          *)
(*                                                                         *)
(* Level l of the code is edge M - l + 1 here.  The variable "taken" is a  *)
(* history: the edges taken so far; no getChild reads it.                  *)
(***************************************************************************)
EXTENDS FrontierManager

VARIABLES
    data,     \* the DirectedFrontierData array of the node
    level,    \* the level of the node
    taken,    \* the edges whose 1-arc was followed
    verdict   \* "none" before getRoot, "go", or the terminal reached

searchVars == <<data, level, taken, verdict>>

Slots == 0..(max_frontier_size - 1)
Blank == [indeg |-> 0, outdeg |-> 0, comp |-> 0]
Erased == [indeg |-> -1, outdeg |-> -1, comp |-> -1]

InitSearch ==
    /\ data = <<>>
    /\ level = 0
    /\ taken = {}
    /\ verdict = "none"

\* The constructor of FrontierManager, inside that of the search.
ConstructFM == Construct /\ UNCHANGED searchVars

\* setArraySize(getMaxFrontierSize()) and getRoot().
Root ==
    /\ data' = [p \in Slots |-> Blank]
    /\ level' = M
    /\ taken' = {}
    /\ verdict' = "go"
-----------------------------------------------------------------------------
(***************************************************************************)
(* The parts of getChild.                                                  *)
(***************************************************************************)
EdgeOf(l) == M - l + 1
TailOf(l) == graph.edges[EdgeOf(l)][1]
HeadOf(l) == graph.edges[EdgeOf(l)][2]
Entering(l) == entering_vss[EdgeOf(l)]
Leaving(l) == leaving_vss[EdgeOf(l)]
Frontier(l) == frontier_vss[EdgeOf(l)]

At(d, v) == d[vertex_to_pos[v]]
Indeg(d, v) == At(d, v).indeg
Outdeg(d, v) == At(d, v).outdeg
Comp(d, v) == At(d, v).comp
Degree(d, v) == Indeg(d, v) + Outdeg(d, v)
\* The vertices of vs whose slot is p.
InSlot(vs, p) == {v \in vs : vertex_to_pos[v] = p}

\* The vertices that enter at the level start isolated, in components of
\* their own.
Entered(d, l) ==
    [p \in DOMAIN d |->
        IF InSlot(SeqSet(Entering(l)), p) = {} THEN d[p]
        ELSE [indeg |-> 0, outdeg |-> 0,
              comp |-> CHOOSE v \in InSlot(SeqSet(Entering(l)), p) : TRUE]]

\* The 1-arc: the degrees of the ends of the edge.
CountEdge(d, l) ==
    [d EXCEPT ![vertex_to_pos[HeadOf(l)]].indeg = @ + 1,
              ![vertex_to_pos[TailOf(l)]].outdeg = @ + 1]

\* Mutation: only the end of the edge is renumbered, not its whole component.
JoinedEndOnly(d, l) ==
    LET c1 == Comp(d, TailOf(l))
        c2 == Comp(d, HeadOf(l))
    IN  IF c1 < c2 THEN [d EXCEPT ![vertex_to_pos[TailOf(l)]].comp = c2]
                   ELSE [d EXCEPT ![vertex_to_pos[HeadOf(l)]].comp = c1]

\* The 1-arc: the component with the smaller number gets the larger number,
\* on the whole frontier.
Joined(d, l) ==
    LET c1 == Comp(d, TailOf(l))
        c2 == Comp(d, HeadOf(l))
        cmin == IF c1 < c2 THEN c1 ELSE c2
        cmax == IF c1 < c2 THEN c2 ELSE c1
    IN  [p \in DOMAIN d |->
            IF InSlot(Frontier(l), p) # {} /\ d[p].comp = cmin
            THEN [d[p] EXCEPT !.comp = cmax]
            ELSE d[p]]

\* The first k vertices that leave.
FirstLeaving(l, k) == {Leaving(l)[x] : x \in 1..k}

\* Mutation: those that left before it are looked at again.
OthersWithLeft(l, k) == Frontier(l) \ {Leaving(l)[k]}

\* When the k-th leaving vertex is checked, the other vertices on the
\* frontier that have not left before it.
Others(l, k) == Frontier(l) \ FirstLeaving(l, k)

SameCompFound(d, l, k) ==
    \E w \in Others(l, k) : Comp(d, w) = Comp(d, Leaving(l)[k])

\* Mutation: edges elsewhere are not looked for.
NonisolatedIgnored(d, l, k) == FALSE
NonisolatedFound(d, l, k) == \E w \in Others(l, k) : Degree(d, w) > 0

\* The data of the first k vertices that leave are erased.
WithLeft(d, l, k, erased) ==
    [p \in DOMAIN d |-> IF InSlot(FirstLeaving(l, k), p) = {} THEN d[p] ELSE erased]

\* The loop over the leaving vertices: judged[k] is "go", or the terminal that
\* the check of the k-th one returns when those before it have been erased.
\* The first that is a terminal ends the loop.
LeaveAll(d, l, judged, erased) ==
    LET Ended(k) == judged[k] # "go" /\ \A x \in 1..(k - 1) : judged[x] = "go"
    IN  IF \A k \in DOMAIN judged : judged[k] = "go"
        THEN [ret |-> "go", data |-> WithLeft(d, l, Len(Leaving(l)), erased)]
        ELSE LET k == CHOOSE k \in DOMAIN judged : Ended(k)
             IN  [ret |-> judged[k], data |-> WithLeft(d, l, k - 1, erased)]

\* getChild() is followed: child is what it returns and leaves in the array,
\* bottom the terminal it returns after level 1.
Follow(child, value, bottom) ==
    /\ data' = child.data
    /\ level' = level - 1
    /\ taken' = IF value = 1 THEN taken \cup {EdgeOf(level)} ELSE taken
    /\ verdict' = IF child.ret = "go" /\ level = 1 THEN bottom ELSE child.ret
-----------------------------------------------------------------------------
(***************************************************************************)
(* Reference notions, on sets of edges.                                    *)
(***************************************************************************)
Decided == {a \in EdgeIds : a <= M - level}
Ends(F) == UNION {Incident(graph, a) : a \in F}
InEdges(F, v) == {a \in F : graph.edges[a][2] = v}
OutEdges(F, v) == {a \in F : graph.edges[a][1] = v}
In(F, v) == Cardinality(InEdges(F, v))
Out(F, v) == Cardinality(OutEdges(F, v))

\* u and v are joined by the edges of F, directions ignored.
Linked(F, u, v) ==
    \A S \in SUBSET Vertices :
        (u \in S /\ \A a \in F : Incident(graph, a) \cap S # {} => Incident(graph, a) \subseteq S)
            => v \in S

\* The vertices that the directed edges of F reach from those of R.
Reached(F, R) ==
    {v \in Vertices :
        \A S \in SUBSET Vertices :
            (R \subseteq S /\ \A a \in F : graph.edges[a][1] \in S => graph.edges[a][2] \in S)
                => v \in S}

\* The sequences of k distinct vertices, and the edges along one of them.
Orders(k) == {p \in [1..k -> Vertices] : \A x, y \in 1..k : p[x] = p[y] => x = y}
Steps(p) == {<<p[k], p[k + 1]>> : k \in 1..(Len(p) - 1)}
Circuit(p) == Steps(p) \cup {<<p[Len(p)], p[1]>>}
Pairs(F) == {graph.edges[a] : a \in F}

\* The sets of a family that agree with the decisions made so far.
Completions(InFamily(_)) ==
    {F \in {taken \cup G : G \in SUBSET (EdgeIds \ Decided)} : InFamily(F)}

\* A terminal is right: 0 when no completion is in the family, 1 when the
\* one completion that takes no further edge is (zero-suppression).
VerdictRight(InFamily(_)) ==
    /\ verdict = "zero" => Completions(InFamily) = {}
    /\ verdict = "one" => Completions(InFamily) = {taken}

\* The vertices on the frontier once the node's level has been reached.
OnFrontier == IF level = M THEN {} ELSE remaining_vss[EdgeOf(level + 1)]

\* The array says of each vertex on the frontier what the taken edges say.
DegreesKept ==
    \A v \in OnFrontier : /\ Indeg(data, v) = In(taken, v)
                          /\ Outdeg(data, v) = Out(taken, v)
ComponentsKept ==
    \A v, w \in OnFrontier : (Comp(data, v) = Comp(data, w)) <=> Linked(taken, v, w)
=============================================================================
