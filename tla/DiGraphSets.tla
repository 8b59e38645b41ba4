----------------------------- MODULE DiGraphSets -----------------------------
(***************************************************************************)
(* A program that uses digraphillion: the class variables of DiGraphSet    *)
(* and setset that hold the universe, a few DiGraphSet objects, a loop     *)
(* over one of them.  A call is one step, that of set_universe() one step  *)
(* for every vertex its traversal visits.                                  *)
(*                                                                         *)
(* What a caller gives: an edge is a tuple <<u, v>> or, with a weight,     *)
(* <<u, v, w>>; an argument is a pair <<type, x>>, of type "graph" (a set  *)
(* of edges), "edge", "vertex" or "DiGraphSet" (the name of an object).    *)
(***************************************************************************)
EXTENDS SetsetCalls, UniverseTraversal, Digraph, Subdigraphs

CONSTANTS
    Objects,     \* the DiGraphSet objects
    Looped,      \* the one a loop is over
    Lists,       \* universes given as lists, traversed as they are
    Walks,       \* sets of edges, universes that are traversed
    Traversals,
    Arguments,   \* items, constraints and graphs that callers give
    Questions,   \* searches, as pairs <<kind, argument>>
    Starts,      \* NoSource or a source of a traversal
    Dumps,       \* dumps of setsets that callers have
    MaxEdges,    \* objects are used in universes of so many edges
    MaxGraphs,   \* how many graphs the objects have in all
    MaxLooped    \* how many graphs an object has that is looped over

Vertex == Nat \ {0}
\* An edge as a caller writes it, with or without its weight.
IsEdge(e) == e \in Seq(Int) /\ Len(e) \in 2..3 /\ e[1] \in Vertex /\ e[2] \in Vertex

ASSUME DiGraphSetsAssumption ==
    /\ Looped \in Objects /\ ElemLimit \in Nat
    /\ Traversals \subseteq {"greedy", "bfs", "dfs"} /\ Starts \subseteq Nat
    /\ \A edges \in Walks : IsFiniteSet(edges) /\ edges \subseteq Vertex \X Vertex
    /\ \A list \in Lists :
        list \in Seq(Seq(Int)) /\ \A k \in DOMAIN list : IsEdge(list[k])
    /\ \A x \in Arguments :
        /\ x[1] \in {"graph", "edge", "vertex"}
        /\ x[1] = "edge" => IsEdge(x[2])
    /\ \A d \in Dumps : IsFiniteSet(UNION d) /\ UNION d \subseteq Nat \ {0}

VARIABLES
    elems,       \* setset._int2obj
    numElems,    \* num_elems() of the C++ side
    vertices,    \* DiGraphSet._vertices
    weights,     \* DiGraphSet._weights
    accepted,    \* the last set_universe() raised nothing
    objects,     \* the setset of every object, a family of sets of numbers
    loop,        \* the generator of a loop over an object
    call,        \* the last call and what it gave
    walk         \* the traversal of a set_universe() that goes on

universeVars == <<elems, numElems, vertices, weights, accepted>>
vars == <<universeVars, objects, loop, call, walk>>

NoSource == 0
Fatal == "runtime_error"
NoCall == [op |-> "none"]
NoLoop == [stage |-> "none"]
NoWalk == [error |-> "none"]
NoObjects == [o \in Objects |-> {}]

Init ==
    /\ elems = <<>> /\ numElems = 0
    /\ vertices = {} /\ weights = <<>> /\ accepted = TRUE
    /\ objects = NoObjects
    /\ loop = NoLoop /\ call = NoCall /\ walk = NoWalk

Returned(op, on, arg, error, result) ==
    call' = [op |-> op, on |-> on, arg |-> arg, error |-> error, result |-> result]

\* A call that leaves an object as `out` says.
Leaves(op, on, arg, out) ==
    /\ objects' = [objects EXCEPT ![on] = out.family]
    /\ Returned(op, on, arg, out.error, out.result)
    /\ UNCHANGED <<universeVars, loop, walk>>

\* A call that changes nothing.
Answers(op, on, arg, error, result) ==
    /\ Returned(op, on, arg, error, result)
    /\ UNCHANGED <<universeVars, objects, loop, walk>>

Fresh(f) == UNION f \subseteq 1..numElems
-----------------------------------------------------------------------------
(***************************************************************************)
(* The universe                                                            *)
(***************************************************************************)
Short(e) == SubSeq(e, 1, 2)
WeightsOf(list) ==
    LET heavy == {k \in DOMAIN list : Len(list[k]) > 2}
    IN  [e \in {Short(list[k]) : k \in heavy} |->
            list[CHOOSE k \in heavy : Short(list[k]) = e][3]]

\* Mutation: the weights of the universe before are kept.
GiveUniverseAdding(arg, sorted, heavy) ==
    LET t == SetTables(elems, numElems, sorted)
    IN  /\ elems' = t.elems
        /\ numElems' = t.n
        /\ vertices' = Endpoints(ToSet(sorted))
        /\ weights' = heavy @@ weights
        /\ accepted' = (t.error = "none")
        /\ Returned("set_universe", "class", arg, t.error, {})
        /\ UNCHANGED <<objects, loop>>

\* The end of set_universe(): the edges in their order go to setset.
GiveUniverse(arg, sorted, heavy) ==
    LET t == SetTables(elems, numElems, sorted)
    IN  /\ elems' = t.elems
        /\ numElems' = t.n
        /\ vertices' = Endpoints(ToSet(sorted))
        /\ weights' = heavy
        /\ accepted' = (t.error = "none")
        /\ Returned("set_universe", "class", arg, t.error, {})
        /\ UNCHANGED <<objects, loop>>

\* _vertices and _weights are emptied before anything can go wrong.
RefuseUniverse(arg, heavy, error) ==
    /\ vertices' = {}
    /\ weights' = heavy
    /\ accepted' = FALSE
    /\ Returned("set_universe", "class", arg, error, {})
    /\ UNCHANGED <<elems, numElems, objects, loop>>

\* set_universe(list, traversal="as-is")
SetUniverseAsIs(list) ==
    LET edges == [k \in DOMAIN list |-> Short(list[k])]
        repeated == {k \in DOMAIN edges : \E j \in 1..(k - 1) : edges[j] = edges[k]}
        arg == [edges |-> ToSet(edges), repeated |-> repeated # {},
                traversal |-> "as-is", source |-> NoSource]
    IN  /\ IF repeated # {}
           THEN RefuseUniverse(arg, WeightsOf(SubSeq(list, 1, Min(repeated) - 1)), "KeyError")
           ELSE GiveUniverse(arg, edges, WeightsOf(list))
        /\ UNCHANGED walk

\* set_universe(edges, traversal, source); without a source, the least vertex.
SetUniverse(edges, traversal, source) ==
    LET arg == [edges |-> edges, repeated |-> FALSE, traversal |-> traversal, source |-> source]
        start == IF source = NoSource THEN Min(Endpoints(edges)) ELSE source
        w == StartWalk(edges, traversal, start)
    IN  IF edges = {} /\ source = NoSource
        THEN RefuseUniverse(arg, <<>>, "IndexError") /\ UNCHANGED walk
        ELSE IF w.error = "walking"
        THEN /\ walk' = [w |-> w, arg |-> arg, error |-> "walking"]
             /\ vertices' = {} /\ weights' = <<>> /\ accepted' = FALSE
             /\ UNCHANGED <<elems, numElems, objects, loop, call>>
        ELSE RefuseUniverse(arg, <<>>, w.error) /\ UNCHANGED walk

VisitVertex ==
    LET w == Turn(walk.w)
    IN  /\ walk # NoWalk
        /\ CASE w.error = "walking" ->
                  /\ walk' = [walk EXCEPT !.w = w]
                  /\ UNCHANGED <<universeVars, objects, loop, call>>
             [] w.error = "none" ->
                  GiveUniverse(walk.arg, w.sorted, <<>>) /\ walk' = NoWalk
             [] OTHER ->
                  RefuseUniverse(walk.arg, <<>>, w.error) /\ walk' = NoWalk

\* universe()
Universe ==
    IF TablesAgree(elems, numElems)
    THEN Answers("universe", "class", 0, "none",
                 {IF elems[i] \in DOMAIN weights THEN Append(elems[i], weights[elems[i]])
                  ELSE elems[i] : i \in DOMAIN elems})
    ELSE Answers("universe", "class", 0, "AssertionError", {})
-----------------------------------------------------------------------------
(***************************************************************************)
(* Arguments                                                               *)
(***************************************************************************)
\* Mutation: only the edge as it is written is looked for.
ConvEdgeAsWritten(e) ==
    IF Known(elems, Short(e)) THEN Obj2Int(elems, Short(e)) ELSE 0

\* _conv_edge, then _conv_elem of setset: a number, 0 for a KeyError.
ConvEdge(e) ==
    CASE Known(elems, Short(e)) -> Obj2Int(elems, Short(e))
      [] ~Known(elems, Short(e)) /\ Known(elems, Backward(e)) -> Obj2Int(elems, Backward(e))
      [] OTHER -> 0

Around(v) == {i \in DOMAIN elems : v \in {elems[i][1], elems[i][2]}}

\* _conv_arg: an argument in numbers, or the exception.
ConvArg(x) ==
    CASE x[1] = "DiGraphSet" -> x
      [] x[1] = "graph" -> IF \E e \in x[2] : ConvEdge(e) = 0 THEN <<"error", "KeyError">>
                           ELSE <<"graph", {ConvEdge(e) : e \in x[2]}>>
      [] x[1] = "edge" -> IF ConvEdge(x[2]) = 0 THEN <<"error", "KeyError">>
                          ELSE <<"edge", ConvEdge(x[2])>>
      [] x[1] = "vertex" ->
            CASE x[2] \notin vertices -> <<"error", "KeyError">>
              [] x[2] \in vertices /\ ~TablesAgree(elems, numElems) ->
                    <<"error", "AssertionError">>
              [] OTHER -> <<"vertex", Around(x[2])>>
-----------------------------------------------------------------------------
(***************************************************************************)
(* Calls that change an object                                             *)
(***************************************************************************)
Bounded ==
    /\ FoldFunction(LAMBDA f, n : Cardinality(f) + n, 0, objects') <= MaxGraphs
    /\ Len(elems') <= MaxEdges

Add(o, x) ==
    LET item == ConvArg(x)
        f == objects[o]
    IN  Leaves("add", o, x,
            CASE item[1] = "error" -> Raises(f, item[2])
              [] item[1] = "vertex" -> Raises(f, "TypeError")
              [] OTHER -> Gives(AddTo(f, item), {}))

\* The edges of a vertex are removed one by one until one is in no graph.
RemoveEach(f, numbers) ==
    FoldLeft(LAMBDA r, i : IF r.error = "none" THEN RemoveFrom(r.family, numElems, <<"edge", i>>)
                           ELSE r,
             Gives(f, {}), Ascending(numbers))

Removes(o, x) ==
    LET item == ConvArg(x)
        f == objects[o]
    IN  Leaves("remove", o, x,
            CASE item[1] = "error" -> Raises(f, item[2])
              [] item[1] = "vertex" -> RemoveEach(f, item[2])
              [] OTHER -> RemoveFrom(f, numElems, item))

Discard(o, x) ==
    LET item == ConvArg(x)
        f == objects[o]
    IN  Leaves("discard", o, x,
            CASE item[1] = "error" -> Raises(f, item[2])
              [] item[1] = "vertex" ->
                    Gives(FoldSet(LAMBDA i, r : DiscardFrom(r, numElems, <<"edge", i>>), f, item[2]), {})
              [] OTHER -> Gives(DiscardFrom(f, numElems, item), {}))

\* The set is out of the object when it turns out to have no name.
Pop(o) ==
    \E out \in Pops(objects[o]) :
        Leaves("pop", o, 0,
            IF Nameable(elems, out.result) THEN out ELSE Raises(out.family, "IndexError"))

Clear(o) == Leaves("clear", o, 0, Gives({}, {}))

\* The edge is looked for in both directions, but setset.flip is given it as
\* the caller wrote it, and makes an element of what it does not know.
Flip(o, x) ==
    LET item == ConvArg(x)
        t == ConvElem(elems, numElems, x[2])
        f == objects[o]
    IN  /\ CASE item[1] = "error" -> Leaves("flip", o, x, Raises(f, item[2]))
             [] item[1] \in {"graph", "vertex"} -> Leaves("flip", o, x, Raises(f, "TypeError"))
             [] item[1] = "edge" ->
                  /\ elems' = t.elems /\ numElems' = t.n
                  /\ objects' = IF t.error # "none" THEN objects
                                ELSE [objects EXCEPT ![o] = FlipElem(f, Obj2Int(t.elems, x[2]))]
                  /\ Returned("flip", o, x, t.error, {})
                  /\ UNCHANGED <<vertices, weights, accepted, loop, walk>>

\* update(), intersection_update() and the like
Update4 == {"union", "intersection", "difference", "symmetric_difference"}
UpdateWith(o, op, others) ==
    Leaves("update", o, <<op, others>>,
           Gives(UpdateForMulti(op, objects, o, others)[o], {}))

DivideUpdate(o, op, p) ==
    /\ objects[p] # {}
    /\ Leaves(op, o, p, Gives(DivideBy(op, objects[o], objects[p]), {}))

\* o = p.copy(), o = DiGraphSet.loads(dump)
Copy(o, p) == Leaves("copy", o, p, Gives(objects[p], {}))

Loads(o, dump) ==
    /\ numElems' = NewElems(numElems, dump)
    /\ objects' = [objects EXCEPT ![o] = dump]
    /\ Returned("loads", o, dump, "none", {})
    /\ UNCHANGED <<elems, vertices, weights, accepted, loop, walk>>
-----------------------------------------------------------------------------
(***************************************************************************)
(* Calls that give something                                               *)
(***************************************************************************)
IsIn(o, x) ==
    LET item == ConvArg(x)
    IN  CASE item[1] = "error" -> Answers("contains", o, x, item[2], {})
          [] item[1] = "vertex" ->
                Answers("contains", o, x, "none",
                        \E i \in item[2] : InFamily(objects[o], <<"edge", i>>))
          [] OTHER -> Answers("contains", o, x, "none", InFamily(objects[o], item))

Choice(o) ==
    \E out \in Chosen(objects[o]) :
        IF Nameable(elems, out.result) THEN Answers("choice", o, 0, out.error, out.result)
        ELSE Answers("choice", o, 0, "IndexError", {})

\* union() and the like
CombinedWith(o, op, others) ==
    Answers("combined", o, <<op, others>>, "none",
            DoForMulti(op, objects[o], [k \in DOMAIN others |-> objects[others[k]]]))

Quotients(o, op, p) ==
    /\ objects[p] # {}
    /\ Answers(IF op = "quotient" THEN "quotients" ELSE "remainders", o, p, "none",
               DivideBy(op, objects[o], objects[p]))

SelectedBy(o, op, p) == Answers(op, o, p, "none", Selected(op, objects[o], objects[p]))
ComparedWith(o, op, p) == Answers(op, o, p, "none", Compared(op, objects[o], objects[p]))

\* Sets of numbers past num_elems() are out of the bounds of hitting().
TransformedBy(o, op) ==
    /\ Fresh(objects[o])
    /\ Answers(op, o, 0, "none", Transformed(op, objects[o], numElems))

SizedBy(o, op, size) ==
    LET out == Sized(op, objects[o], size)
    IN  Answers(op, o, size, out.error, out.result)

Length(o) == Fresh(objects[o]) /\ Answers("len", o, 0, "none", Cardinality(objects[o]))

Including(o, x) ==
    LET item == ConvArg(x)
        f == objects[o]
    IN  CASE item[1] = "error" -> Answers("including", o, x, item[2], {})
          [] item[1] = "DiGraphSet" ->
                Answers("including", o, x, "none", Supersets(f, objects[item[2]]))
          [] item[1] = "graph" -> Answers("including", o, x, "none", Supersets(f, {item[2]}))
          [] item[1] = "edge" -> Answers("including", o, x, "none", SupersetsOfElem(f, item[2]))
          [] item[1] = "vertex" ->
                Answers("including", o, x, "none", Supersets(f, {{i} : i \in item[2]}))

Excluding(o, x) ==
    LET item == ConvArg(x)
        f == objects[o]
    IN  CASE item[1] = "error" -> Answers("excluding", o, x, item[2], {})
          [] item[1] = "DiGraphSet" ->
                Answers("excluding", o, x, "none", f \ Supersets(f, objects[item[2]]))
          [] item[1] = "graph" -> Answers("excluding", o, x, "none", f \ Supersets(f, {item[2]}))
          [] item[1] = "edge" -> Answers("excluding", o, x, "none", NonSupersetsOfElem(f, item[2]))
          [] item[1] = "vertex" ->
                Answers("excluding", o, x, "none", f \ Supersets(f, {{i} : i \in item[2]}))

Included(o, x) ==
    LET item == ConvArg(x)
        f == objects[o]
    IN  CASE item[1] = "error" -> Answers("included", o, x, item[2], {})
          [] item[1] = "DiGraphSet" ->
                Answers("included", o, x, "none", SubsetsOf(f, objects[item[2]]))
          [] item[1] = "graph" -> Answers("included", o, x, "none", SubsetsOf(f, {item[2]}))
          [] OTHER -> Answers("included", o, x, "TypeError", {})

\* DiGraphSet([graph, graph]) and DiGraphSet({"include": in, "exclude": ex})
FromGraphs(g, h) ==
    LET items == {ConvArg(<<"graph", g>>), ConvArg(<<"graph", h>>)}
    IN  IF <<"error", "KeyError">> \in items THEN Answers("graphs", "class", {g, h}, "KeyError", {})
        ELSE Answers("graphs", "class", {g, h}, "none", {i[2] : i \in items})

FromConstraints(in, ex) ==
    LET i == ConvArg(<<"graph", in>>)
        x == ConvArg(<<"graph", ex>>)
        out == ConstrainedSets(numElems, i[2], x[2])
    IN  IF "error" \in {i[1], x[1]}
        THEN Answers("constraints", "class", <<in, ex>>, "KeyError", {})
        ELSE Answers("constraints", "class", <<in, ex>>, out.error, out.result)
-----------------------------------------------------------------------------
(***************************************************************************)
(* Searches                                                                *)
(***************************************************************************)
\* The graph that a Search* function builds of the universe.
SearchGraph == Update(elems)
Number(v) == Name2Vertex(LeavingStack(elems))[v]

\* graphs() makes a range (r[0], r[-1] + 1, r[1] - r[0]) of a list.
DegreeRange(r) == {d \in r[1]..Last(r) : Len(r) = 1 \/ (d - r[1]) % (r[2] - r[1]) = 0}

\* What the search for `kind` finds in the graph g among the sets of `space`.
SubdigraphsFound(g, kind, arg, space) ==
    LET edges(s) == {g.edges[i] : i \in s}
    IN  CASE kind = "cycles" -> {s \in space : IsCycle(edges(s))}
          [] kind = "hamiltonian" ->
                {s \in space : IsCycle(edges(s)) /\ Spans(edges(s), 1..g.n)}
          [] kind = "paths" -> {s \in space : IsPath(edges(s), Number(arg[1]), Number(arg[2]))}
          [] kind = "forests" ->
                {s \in space : IsForest(edges(s)) /\ Sources(edges(s)) = {Number(v) : v \in arg}}
          [] kind = "trees" -> {s \in space : IsTree(edges(s), Number(arg))}
          [] kind = "indegree" ->
                {s \in space : In(edges(s), Number(arg[1])) \in DegreeRange(arg[2])}

\* What the class methods of the searches have in common: they check the edges
\* of the universe and then, as `refusal` says, the vertices that are named.
\* getVertex() does not have a vertex that passes and is in no edge, a root or
\* one of a universe that setset refused: its exception ends the program.  The
\* search space is an object, or every graph.
SearchFor(kind, arg, on, named, refusal) ==
    LET space == IF on = "class" THEN SUBSET (1..numElems) ELSE objects[on]
        ends == Endpoints(ToSet(elems))
        error == IF ~(TablesAgree(elems, numElems) /\ ends \subseteq vertices) THEN "AssertionError"
                 ELSE IF refusal # "none" THEN refusal
                 ELSE IF named \subseteq ends THEN "none"
                 ELSE Fatal
    IN  /\ Fresh(space)
        /\ Answers(kind, on, arg, error,
                   IF error = "none" THEN SubdigraphsFound(SearchGraph, kind, arg, space) ELSE {})

RefusalOfVertices(named, error) == IF named \subseteq vertices THEN "none" ELSE error

DirectedCycles(arg, on) == SearchFor("cycles", arg, on, {}, "none")
HamiltonianCycles(arg, on) == SearchFor("hamiltonian", arg, on, {}, "none")
StPaths(arg, on) ==
    LET named == {arg[1], arg[2]}
    IN  SearchFor("paths", arg, on, named, RefusalOfVertices(named, "AssertionError"))
RootedForests(arg, on) ==
    SearchFor("forests", arg, on, arg, RefusalOfVertices(arg, "AssertionError"))
\* rooted_trees() does not look at its root.
RootedTrees(arg, on) == SearchFor("trees", arg, on, {arg}, "none")
WithInDegree(arg, on) ==
    SearchFor("indegree", arg, on, {arg[1]}, RefusalOfVertices({arg[1]}, "KeyError"))

Search(kind, arg, on) ==
    \/ kind = "cycles" /\ DirectedCycles(arg, on)
    \/ kind = "hamiltonian" /\ HamiltonianCycles(arg, on)
    \/ kind = "paths" /\ StPaths(arg, on)
    \/ kind = "forests" /\ RootedForests(arg, on)
    \/ kind = "trees" /\ RootedTrees(arg, on)
    \/ kind = "indegree" /\ WithInDegree(arg, on)
-----------------------------------------------------------------------------
(***************************************************************************)
(* Loops.  A generator does nothing before its first turn; then it keeps a *)
(* family of its own, and names a set when it gives it, by the table that  *)
(* there is then.  The record of a loop:                                   *)
(*   left      the sets it has still to give, by their numbers             *)
(*   heavy     the weights of the numbers                                  *)
(*   given     the graphs it has given, in their order                     *)
(* and, which the code does not keep, what there was at the first turn:    *)
(*   family    of the object                                               *)
(*   universe  the edges by their numbers, and prices, the weights of some *)
(*   steady    all turns that named a set found this universe              *)
(***************************************************************************)
BeginLoop(kind) ==
    /\ Cardinality(objects[Looped]) <= MaxLooped
    /\ \A o \in Objects \ {Looped} : objects[o] = {}
    /\ loop' = [stage |-> "made", kind |-> kind, left |-> {}, heavy |-> <<>>, given |-> <<>>,
                family |-> {}, universe |-> <<>>, prices |-> <<>>, steady |-> TRUE]
    /\ UNCHANGED <<universeVars, objects, call, walk>>

FirstSets(l) ==
    {s \in l.left :
        /\ l.kind = "min" => \A t \in l.left : Weight(s, l.heavy) <= Weight(t, l.heavy)
        /\ l.kind = "max" => \A t \in l.left : Weight(s, l.heavy) >= Weight(t, l.heavy)}

\* What there was is forgotten once a turn finds another universe.
Unsteady(l) ==
    [l EXCEPT !.steady = FALSE, !.given = <<>>, !.family = {}, !.universe = <<>>, !.prices = <<>>]

\* Mutation: a set is taken from the object as it is at this turn.
GiveNextLive(l) ==
    LET left == l.left \cap objects[Looped]
        m == IF l.steady /\ elems # l.universe THEN Unsteady(l) ELSE l
    IN  IF left = {} THEN loop' = [l EXCEPT !.stage = "ended"]
        ELSE \E s \in FirstSets([l EXCEPT !.left = left]) :
            loop' = IF Nameable(elems, s)
                    THEN [m EXCEPT !.stage = "running", !.left = @ \ {s},
                                   !.given = IF m.steady THEN Append(@, Named(elems, s)) ELSE @]
                    ELSE [m EXCEPT !.stage = "IndexError"]

\* The rest of a turn: the next set, if there is one, under its names.
GiveNext(l) ==
    LET m == IF l.steady /\ elems # l.universe THEN Unsteady(l) ELSE l
    IN  IF l.left = {} THEN loop' = [l EXCEPT !.stage = "ended"]
        ELSE \E s \in FirstSets(l) :
            loop' = IF Nameable(elems, s)
                    THEN [m EXCEPT !.stage = "running", !.left = @ \ {s},
                                   !.given = IF m.steady THEN Append(@, Named(elems, s)) ELSE @]
                    ELSE [m EXCEPT !.stage = "IndexError"]

FirstTurn ==
    /\ loop.stage = "made"
    /\ Fresh(objects[Looped])
    /\ IF loop.kind \in {"min", "max"} /\ ~(DOMAIN weights \subseteq ToSet(elems))
       THEN loop' = [loop EXCEPT !.stage = "KeyError"]
       ELSE GiveNext([stage |-> loop.stage, kind |-> loop.kind, left |-> objects[Looped],
                      heavy |-> IF loop.kind = "any" THEN <<>>
                                ELSE WeightsByNumber(elems, numElems, weights),
                      given |-> <<>>, family |-> objects[Looped], universe |-> elems,
                      prices |-> IF loop.kind = "any" THEN <<>> ELSE weights,
                      steady |-> TRUE])
    /\ UNCHANGED <<universeVars, objects, call, walk>>

OtherTurn ==
    /\ loop.stage = "running"
    /\ GiveNext(loop)
    /\ UNCHANGED <<universeVars, objects, call, walk>>

\* The program leaves the loop.
LeaveLoop ==
    /\ loop # NoLoop
    /\ loop' = NoLoop
    /\ UNCHANGED <<universeVars, objects, call, walk>>
-----------------------------------------------------------------------------
Selections == Arguments \cup {<<"DiGraphSet", o>> : o \in Objects}
OtherLists == {<<>>} \cup {<<o>> : o \in Objects} \cup {<<o, p>> : o, p \in Objects}
Multis == {"union", "intersection", "difference", "symmetric_difference"}
Graphs == {x[2] : x \in {y \in Arguments : y[1] = "graph"}}

Mutate(o) ==
    \/ \E x \in Arguments : Add(o, x) \/ Removes(o, x) \/ Discard(o, x) \/ Flip(o, x)
    \/ Pop(o)
    \/ Clear(o)
    \/ \E op \in Multis, others \in OtherLists : UpdateWith(o, op, others)
    \/ \E op \in {"quotient", "remainder"}, p \in Objects : DivideUpdate(o, op, p)
    \/ \E p \in Objects \ {o} : Copy(o, p)
    \/ \E dump \in Dumps : Loads(o, dump)

Ask(o) ==
    \/ Choice(o)
    \/ Length(o)
    \/ \E x \in Arguments : IsIn(o, x)
    \/ \E x \in Selections : Including(o, x) \/ Excluding(o, x) \/ Included(o, x)
    \/ \E op \in Multis, others \in OtherLists : CombinedWith(o, op, others)
    \/ \E p \in Objects :
        \/ \E op \in {"quotient", "remainder"} : Quotients(o, op, p)
        \/ \E op \in {"join", "meet", "subgraphs", "supergraphs", "non_subgraphs", "non_supergraphs"} :
                SelectedBy(o, op, p)
        \/ \E op \in {"isdisjoint", "issubset", "issuperset", "lt", "gt", "eq", "ne"} :
                ComparedWith(o, op, p)
    \/ \E op \in {"invert", "minimal", "maximal", "blocking", "complement"} : TransformedBy(o, op)
    \/ \E op \in {"smaller", "larger", "graph_size"}, size \in -1..2 : SizedBy(o, op, size)

AskClass ==
    \/ Universe
    \/ \E g, h \in Graphs : FromGraphs(g, h) \/ FromConstraints(g, h)

\* Loops are explored apart, with the calls that could disturb them while they
\* go on: pop(), which takes graphs out of the object, and set_universe().
\* Objects are used in the universes that are given as lists; others are
\* traversed from the start.
Idle == call = NoCall /\ walk = NoWalk
Listed ==
    \/ elems = <<>>
    \/ \E list \in Lists \ {<<>>} : IsPrefix([k \in DOMAIN list |-> Short(list[k])], elems)
Disturbed == loop.stage \in {"made", "running"}
CallObjects ==
    /\ Idle /\ Listed
    /\ \/ Disturbed /\ Pop(Looped)
       \/ /\ loop = NoLoop
          /\ \/ \E o \in Objects : (Mutate(o) /\ Bounded) \/ Ask(o)
             \/ AskClass
             \/ \E q \in Questions, on \in Objects \cup {"class"} : Search(q[1], q[2], on)

CallUniverse ==
    /\ Idle
    /\ \/ (loop = NoLoop \/ Disturbed) /\ \E list \in Lists : SetUniverseAsIs(list)
       \/ /\ elems = <<>> /\ objects = NoObjects /\ loop = NoLoop
          /\ \E edges \in Walks, traversal \in Traversals, start \in Starts :
                SetUniverse(edges, traversal, start)

Loop ==
    /\ Idle /\ Listed
    /\ \/ loop = NoLoop /\ \E kind \in {"any", "min", "max"} : BeginLoop(kind)
       \/ loop # NoLoop /\ (FirstTurn \/ OtherTurn \/ LeaveLoop)

Return ==
    /\ call # NoCall
    /\ call.error # Fatal
    /\ call' = NoCall
    /\ UNCHANGED <<universeVars, objects, loop, walk>>

\* The program has ended; it may be run again.
Restart ==
    /\ call # NoCall
    /\ call.error = Fatal
    /\ elems' = <<>> /\ numElems' = 0
    /\ vertices' = {} /\ weights' = <<>> /\ accepted' = TRUE
    /\ objects' = NoObjects
    /\ call' = NoCall
    /\ UNCHANGED <<loop, walk>>

Next == VisitVertex \/ CallObjects \/ CallUniverse \/ Loop \/ Return \/ Restart

Spec == Init /\ [][Next]_vars
-----------------------------------------------------------------------------
(***************************************************************************)
(* Properties                                                              *)
(***************************************************************************)
\* Numbers without a name become edges <<i>> of their own.
EdgeOfNumber(i) == IF i \in DOMAIN elems THEN elems[i] ELSE <<i>>
GraphOfSet(s) == {EdgeOfNumber(i) : i \in s}

ReplyInGraphs ==
    CASE call.op = "none" \/ call.error # "none" \/ call.op \in {"contains", "len", "universe"} -> call
      [] call.op \in {"isdisjoint", "issubset", "issuperset", "lt", "gt", "eq", "ne"} -> call
      [] call.op \in {"pop", "choice"} -> [call EXCEPT !.result = GraphOfSet(@)]
      [] OTHER -> [call EXCEPT !.result = {GraphOfSet(s) : s \in @}]

Collections == INSTANCE GraphCollections WITH
    universe <- {EdgeOfNumber(i) : i \in 1..numElems},
    graphs <- [o \in Objects |-> {GraphOfSet(s) : s \in objects[o]}],
    reply <- ReplyInGraphs

(***************************************************************************)
(* Every call does and answers what it promises in terms of graphs, though *)
(* it works on numbers that the universe, the order of its edges and the   *)
(* calls before it give to edges, and though _conv_arg, excluding() and    *)
(* remove() rewrite what they are given.  The one call of which less is    *)
(* promised is flip() of an edge that the universe has the other way round.*)
(***************************************************************************)
CallsAsPromised == Collections!Spec

(***************************************************************************)
(* The two sides of a universe agree, unless a dump with a larger number   *)
(* has been loaded, and no edge has two numbers: what _check_universe()    *)
(* asserts holds whatever set_universe() was refused half-way and whatever *)
(* flip() added.                                                           *)
(***************************************************************************)
NumbersAgree ==
    /\ IsInjective(elems)
    /\ numElems >= Len(elems)
    /\ numElems > Len(elems) =>
        \E d \in Dumps : numElems = Max((UNION d) \cup {0})

(***************************************************************************)
(* After a set_universe() that raised nothing, the vertices that callers   *)
(* may name are those of the edges setset knows, and the weights are of    *)
(* edges it knows: otherwise min_iter() and every search would raise.      *)
(***************************************************************************)
VerticesAgree ==
    accepted => /\ vertices = Endpoints(ToSet(elems))
                /\ DOMAIN weights \subseteq ToSet(elems)

(***************************************************************************)
(* Whatever universes came and went, were refused or grew by a call, the   *)
(* tables of setset, the count of the C++ side and the vertices and        *)
(* weights of DiGraphSet are those of one universe.                        *)
(***************************************************************************)
UniverseAgrees == NumbersAgree /\ VerticesAgree

(***************************************************************************)
(* In the graph that the searches are given, whatever the universe, the    *)
(* vertices are numbered 1..vertexSize() in the order in which their last  *)
(* edges come, though update() sorts them by a stack and vMax only looks at*)
(* heads: the frontier rests on it.                                        *)
(***************************************************************************)
NumberedInLeavingOrder ==
    LET edges == SearchGraph.edges
        ends(a) == {edges[a][1], edges[a][2]}
        last(v) == Max({a \in DOMAIN edges : v \in ends(a)})
    IN  call.op \in {"set_universe", "flip"} =>
            /\ UNION {ends(a) : a \in DOMAIN edges} = 1..SearchGraph.n
            /\ \A v, w \in 1..SearchGraph.n : v < w => last(v) <= last(w)

(***************************************************************************)
(* Which universes have to be refused and how: a repeated edge, no edge to *)
(* start at, a source that is no vertex, more edges than there may be      *)
(* elements.                                                               *)
(***************************************************************************)
RefusalOf(arg) ==
    LET walked == arg.traversal # "as-is"
    IN  IF arg.repeated THEN "KeyError"
        ELSE IF walked /\ arg.edges = {} /\ arg.source = NoSource THEN "IndexError"
        ELSE IF walked /\ arg.source # NoSource /\ arg.source \notin Endpoints(arg.edges)
             THEN "AssertionError"
        ELSE IF Cardinality(arg.edges) > ElemLimit THEN "RuntimeError" ELSE "none"

\* The edges that a walk does not list once: bfs and dfs list one of two between
\* the same vertices (graphset.py:1953), greedy a self-loop twice (1930-1932).
BothWays(arg) ==
    /\ arg.traversal \in {"bfs", "dfs"}
    /\ \E e \in arg.edges : e[1] # e[2] /\ Backward(e) \in arg.edges
LoopsTwice(arg) == arg.traversal = "greedy" /\ \E e \in arg.edges : e[1] = e[2]

(***************************************************************************)
(* set_universe() refuses the universes it has to, as it has to, and takes *)
(* over every edge of another once, whichever of its walks lists them: no  *)
(* walk misses or repeats an edge or visits a vertex twice.  That a walk   *)
(* of the kind BothWays or LoopsTwice may fail in addition is an exception *)
(* and no promise: EveryEdgeMet is what the code says, and is not so.      *)
(***************************************************************************)
UniversesRefused ==
    call.op = "set_universe" =>
        /\ \/ call.error = RefusalOf(call.arg)
           \/ BothWays(call.arg) /\ call.error = "AssertionError"
           \/ LoopsTwice(call.arg) /\ call.error = "ValueError"
        /\ call.error = "none" =>
                ToSet(elems) = call.arg.edges /\ Len(elems) = Cardinality(call.arg.edges)

(***************************************************************************)
(* A breadth-first or depth-first walk from a vertex meets every edge, as  *)
(* _traverse asserts at its end (graphset.py:1968), whatever the edges.    *)
(***************************************************************************)
EveryEdgeMet ==
    call.op = "set_universe" =>
        (call.error = "AssertionError" => RefusalOf(call.arg) = "AssertionError")

(***************************************************************************)
(* Any walk over a connected graph puts every edge (but self-loops) next to*)
(* one before it, from the source on, which keeps frontiers small.  The    *)
(* breadth-first one orders edges by their distance from the source.       *)
(***************************************************************************)
\* How many edges v is away from start; one more than there are vertices if
\* no edges lead there.
Distance(edges, start, v) ==
    LET n == Cardinality(Endpoints(edges))
        within[d \in 0..n] ==
            IF d = 0 THEN {start}
            ELSE within[d - 1] \cup UNION {Neighbors(edges, u) : u \in within[d - 1]}
    IN  Min({d \in 0..n : v \in within[d]} \cup {n + 1})

OrderedByWalk ==
    LET arg == call.arg
        edges == arg.edges
        start == IF arg.source = NoSource THEN Min(Endpoints(edges)) ELSE arg.source
        far == [k \in DOMAIN elems |->
                    Max({Distance(edges, start, v) : v \in {elems[k][1], elems[k][2]}})]
    IN  call.op = "set_universe" /\ call.error = "none" /\ arg.traversal # "as-is" =>
            /\ Connected(edges) =>
                    \A k \in DOMAIN elems :
                        LET before == {e \in ToSet(SubSeq(elems, 1, k)) : e[1] # e[2]}
                        IN  before # {} => start \in Endpoints(before) /\ Connected(before)
            /\ arg.traversal = "bfs" =>
                    \A k \in 1..(Len(elems) - 1) : far[k] <= far[k + 1]

(***************************************************************************)
(* What a caller gets of a loop, in graphs: those that the object had at   *)
(* the first turn, though pop() and clear() change it meanwhile, each once *)
(* and in the end all of them; from min_iter() and max_iter() none before  *)
(* a lighter or heavier one by the weights that its edges had then, though *)
(* the universe may have got others since.  This is promised to a loop     *)
(* that finds the universe it began in at each turn that gives a graph.    *)
(* Any other gives sets of the numbers it began with under the names of    *)
(* another universe (setset.py:127), and these may be any graphs.          *)
(***************************************************************************)
\* What an edge costs, 1 if the universe did not say.
PriceIn(universe, prices) ==
    [e \in ToSet(universe) |-> IF e \in DOMAIN prices THEN prices[e] ELSE 1]

GivesAll(l) ==
    LET known == {s \in l.family : Nameable(l.universe, s)}
        graphs == {Named(l.universe, s) : s \in known}
        yet(k) == graphs \ {l.given[j] : j \in 1..(k - 1)}
        price(g) == Weight(g, PriceIn(l.universe, l.prices))
    IN  /\ IsInjective(l.given)
        /\ ToSet(l.given) \subseteq graphs
        /\ l.stage = "ended" => ToSet(l.given) = graphs /\ known = l.family
        /\ l.stage = "IndexError" => known # l.family
        /\ \A k \in DOMAIN l.given : \A g \in yet(k) :
                /\ l.kind = "min" => price(l.given[k]) <= price(g)
                /\ l.kind = "max" => price(l.given[k]) >= price(g)

LoopGivesAll == loop # NoLoop /\ loop.steady => GivesAll(loop)

(***************************************************************************)
(* A walk comes to an end: each of its turns visits a vertex that none has *)
(* visited, though a vertex may wait in the heap many times.               *)
(***************************************************************************)
WalkVisitsNew == walk # NoWalk => walk.w.u \in Unvisited(walk.w)

\* A walk visits each vertex once and lists the edges as it goes.
WalksRight == OrderedByWalk /\ WalkVisitsNew
=============================================================================
