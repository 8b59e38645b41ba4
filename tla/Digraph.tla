------------------------------ MODULE Digraph ------------------------------
(***************************************************************************)
(* tdzdd::Digraph as graphset.cc uses it: addEdge() collects named edges   *)
(* and update() numbers the vertices and the edges.  Edge number a of the  *)
(* code (from 0) is index a + 1 here.  Vertex colours and the per-edge     *)
(* "final" flags, which no search of digraphillion reads, are left out.    *)
(***************************************************************************)
EXTENDS Integers, Sequences, SequencesExt

\* The list of edge names without the repetitions: the first one is kept.
UniqueEdges(edgeNames) ==
    FoldLeft(LAMBDA kept, e : IF Contains(kept, e) THEN kept ELSE Append(kept, e),
             <<>>, edgeNames)

PushNew(stack, s) == IF Contains(stack, s) THEN stack ELSE Append(stack, s)

\* Mutation: the tail is pushed first.
PushTailFirst(stack, e) == PushNew(PushNew(stack, e[1]), e[2])

\* The head of an edge is pushed before its tail.
PushEnds(stack, e) == PushNew(PushNew(stack, e[2]), e[1])

\* The stack of vertex names after the edges are scanned from the last to
\* the first: the vertex that leaves last is at the bottom.
LeavingStack(edge2name) == FoldLeft(PushEnds, <<>>, Reverse(edge2name))

\* Vertices are numbered from 1 while the stack is popped.
Name2Vertex(stack) ==
    [s \in ToSet(stack) |->
        Len(stack) + 1 - (CHOOSE k \in DOMAIN stack : stack[k] = s)]

\* vMax looks at the heads of the edges only.
MaxHead(edges) ==
    FoldLeft(LAMBDA m, e : IF m < e[2] THEN e[2] ELSE m, 0, edges)

\* update(): the graph [n, edges] that the searches read, n being
\* vertexSize() and edges[a + 1] the pair (edgeInfo(a).v1, edgeInfo(a).v2).
Update(edgeNames) ==
    LET edge2name == UniqueEdges(edgeNames)
        number    == Name2Vertex(LeavingStack(edge2name))
        edges     == [a \in DOMAIN edge2name |->
                        <<number[edge2name[a][1]], number[edge2name[a][2]]>>]
    IN  [n |-> MaxHead(edges), edges |-> edges]
=============================================================================
