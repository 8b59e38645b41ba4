-------------------------- MODULE UniverseTraversal --------------------------
(***************************************************************************)
(* DiGraphSet._traverse of digraphillion/graphset.py: puts the edges of a  *)
(* universe in the order in which a walk over the vertices completes them. *)
(* One turn of the loop is an operator on the record w of its variables:   *)
(*   edges     indexed_edges                                               *)
(*   kind      the traversal                                               *)
(*   u         the vertex that is visited                                  *)
(*   visited   visited_vertices                                            *)
(*   sorted    sorted_edges                                                *)
(*   degree    of the greedy walk                                          *)
(*   heap      of the greedy walk, as a set of <<degree, degree, vertex>>: *)
(*             a second copy of an entry would only be popped and skipped  *)
(*   queue     queue_or_stack                                              *)
(*   error     "walking" until the walk ends, then "none" or an exception  *)
(***************************************************************************)
EXTENDS Integers, Sequences, SequencesExt, FiniteSets, FiniteSetsExt, Functions

Endpoints(edges) == UNION {{e[1], e[2]} : e \in edges}
Neighbors(edges, u) == {v \in Endpoints(edges) : <<u, v>> \in edges \/ <<v, u>> \in edges}
Backward(e) == <<e[2], e[1]>>

\* sorted(): the k-th has k - 1 before it.
Ascending(S) == [k \in 1..Cardinality(S) |-> CHOOSE x \in S : Cardinality({y \in S : y < x}) = k - 1]

StartWalk(edges, kind, source) ==
    [edges |-> edges, kind |-> kind, u |-> source, visited |-> {}, sorted |-> <<>>,
     degree |-> [v \in Endpoints(edges) |-> Cardinality(Neighbors(edges, v))],
     heap |-> {}, queue |-> <<>>,
     error |-> IF source \notin Endpoints(edges) THEN "AssertionError"
               ELSE IF kind \notin {"greedy", "bfs", "dfs"} THEN "ValueError"
               ELSE "walking"]

\* The edge between u and v as the universe has it.
EdgeOf(w, v) == IF <<w.u, v>> \in w.edges THEN <<w.u, v>> ELSE <<v, w.u>>

\* heapq compares tuples.
Before(x, y) ==
    \/ x[1] < y[1]
    \/ x[1] = y[1] /\ x[2] < y[2]
    \/ x[1] = y[1] /\ x[2] = y[2] /\ x[3] < y[3]

Unvisited(w) == Endpoints(w.edges) \ w.visited

\* The walk ends: every edge must have been met.
Ended(w) ==
    [w EXCEPT !.error = IF ToSet(w.sorted) = w.edges THEN "none" ELSE "AssertionError"]

(***************************************************************************)
(* greedy                                                                  *)
(***************************************************************************)
\* A neighbour v of the vertex visited; degrees change as the loop goes.
GreedyMeet(w, v) ==
    LET d1 == [w.degree EXCEPT ![v] = @ - 1]
        d2 == [d1 EXCEPT ![w.u] = @ - 1]
        e == EdgeOf(w, v)
        pushed == IF d2[v] = 0 THEN {}
                  ELSE {<<d2[v], d2[x], x>> : x \in Neighbors(w.edges, v) \ w.visited}
    IN  IF v \notin w.visited THEN [w EXCEPT !.degree = d1]
        ELSE [w EXCEPT
                !.degree = d2,
                !.sorted = @ \o <<e>> \o (IF Backward(e) \in w.edges THEN <<Backward(e)>> ELSE <<>>),
                !.heap = @ \cup pushed]

\* Mutation: the first of the heap is visited, again or not.
FirstOfHeap(w, heap) ==
    IF heap = {} THEN [w EXCEPT !.u = Min(Unvisited(w))]
    ELSE LET first == CHOOSE x \in heap : \A y \in heap : x = y \/ Before(x, y)
         IN  [w EXCEPT !.heap = heap \ {first}, !.u = first[3]]

\* The heap is popped until it gives a vertex not visited.
NextFromHeap(w, heap) ==
    LET new == {x \in heap : x[3] \notin w.visited}
        first == CHOOSE x \in new : \A y \in new : x = y \/ Before(x, y)
    IN  IF new = {} THEN [w EXCEPT !.heap = {}, !.u = Min(Unvisited(w))]
        ELSE [w EXCEPT !.heap = {y \in heap : Before(first, y)}, !.u = first[3]]

VisitGreedy(w) ==
    LET near == Ascending(Neighbors(w.edges, w.u))
        met == FoldLeft(GreedyMeet, [w EXCEPT !.visited = @ \cup {w.u}], near)
        pushed == {<<met.degree[w.u], met.degree[v], v>> : v \in Range(near) \ met.visited}
        left == [met EXCEPT !.heap = @ \cup pushed]
    IN  IF Unvisited(left) = {} THEN Ended(left) ELSE NextFromHeap(left, left.heap)

(***************************************************************************)
(* bfs and dfs                                                             *)
(***************************************************************************)
\* Mutation: a vertex that waits already is put in the queue again.
NewVerticesAgain(w, seen) == Ascending(Neighbors(w.edges, w.u) \ seen)

NewVertices(w, seen) == Ascending(Neighbors(w.edges, w.u) \ (seen \cup ToSet(w.queue)))

\* The next vertex has not been visited.
GoOn(w, u, queue) ==
    [w EXCEPT !.u = u, !.queue = queue,
              !.error = IF u \in w.visited THEN "AssertionError" ELSE @]

IsQueue(w) == w.kind = "bfs"

Visit(w) ==
    LET seen == w.visited \cup {w.u}
        met == Ascending(Neighbors(w.edges, w.u) \cap seen)
        rest == w.queue \o NewVertices(w, seen)
        left == [w EXCEPT !.visited = seen,
                          !.sorted = @ \o [k \in DOMAIN met |-> EdgeOf(w, met[k])]]
        queue == IF rest = <<>> /\ Unvisited(left) # {}
                 THEN <<Min(Unvisited(left))>> ELSE rest
    IN  CASE queue = <<>> -> Ended(left)
          [] queue # <<>> /\ IsQueue(w) -> GoOn(left, Head(queue), Tail(queue))
          [] queue # <<>> /\ ~IsQueue(w) -> GoOn(left, Last(queue), Front(queue))

Turn(w) == IF w.kind = "greedy" THEN VisitGreedy(w) ELSE Visit(w)
=============================================================================
