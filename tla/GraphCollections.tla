--------------------------- MODULE GraphCollections ---------------------------
(***************************************************************************)
(* What DiGraphSet promises, in terms of graphs: a graph is a set of edges *)
(* of the universe, an object a set of graphs, a call a step that says     *)
(* what it was given, what it answered and what became of the objects.     *)
(* Numbers of elements do not appear.  An edge without a name, <<i>>, may  *)
(* come from another universe.                                             *)
(***************************************************************************)
EXTENDS FamilyAlgebra, Subdigraphs, Sequences, SequencesExt

CONSTANT Objects

VARIABLES universe, graphs, reply

vars == <<universe, graphs, reply>>

NoReply == [op |-> "none"]

Init == universe = {} /\ graphs = [o \in Objects |-> {}] /\ reply = NoReply

Names(g) == {e \in g : Len(e) = 2}
NoNameless(gs) == UNION gs = Names(UNION gs)

\* A caller may write an edge backwards.  A vertex may be refused, by a call
\* that then changes nothing; so may not an edge that exists.
Reverse2(e) == <<e[2], e[1]>>
TheEdge(e) == IF e \in universe THEN e ELSE Reverse2(e)
Incident(v) == {e \in Names(universe) : v \in {e[1], e[2]}}

Exists(x) ==
    CASE x[1] = "edge" -> TheEdge(x[2]) \in universe
      [] x[1] = "graph" -> \A e \in x[2] : TheEdge(e) \in universe
      [] OTHER -> TRUE

\* The graphs an argument stands for when graphs are selected by it.
Patterns(x) ==
    CASE x[1] = "DiGraphSet" -> graphs[x[2]]
      [] x[1] = "graph" -> {{TheEdge(e) : e \in x[2]}}
      [] x[1] = "edge" -> {{TheEdge(x[2])}}
      [] x[1] = "vertex" -> {{e} : e \in Incident(x[2])}

Has(gs, x) ==
    IF x[1] = "graph" THEN Patterns(x) \subseteq gs ELSE SupersetsOf(gs, Patterns(x)) # {}

\* Taking edges out of every graph also takes out those of other universes.
Without(gs, edges) == {(g \cap universe) \ edges : g \in gs}

Dropped(gs, x) ==
    IF x[1] = "graph" THEN gs \ Patterns(x) ELSE Without(gs, UNION Patterns(x))

Merge(op, gs, hs) ==
    CASE op = "union" -> gs \cup hs
      [] op = "intersection" -> gs \cap hs
      [] op = "difference" -> gs \ hs
      [] op = "symmetric_difference" -> SymDiff(gs, hs)

Merged(gs, op, others) ==
    FoldLeft(LAMBDA a, o : Merge(op, a, graphs[o]), gs, others)

Becomes(o, gs) ==
    /\ graphs' = [graphs EXCEPT ![o] = gs]
    /\ universe' = universe

Unchanged == UNCHANGED <<universe, graphs>>
-----------------------------------------------------------------------------
(***************************************************************************)
(* Calls that change an object r.on                                        *)
(***************************************************************************)
Add(r) ==
    LET gs == graphs[r.on]
    IN  /\ (r.error = "none") <=> (Exists(r.arg) /\ r.arg[1] # "vertex")
        /\ IF r.error # "none" THEN Unchanged
           ELSE Becomes(r.on, IF r.arg[1] = "graph" THEN gs \cup Patterns(r.arg)
                              ELSE Joined(gs, Patterns(r.arg)))

Discard(r) ==
    /\ r.error = "none" => Exists(r.arg)
    /\ r.error # "none" => r.arg[1] = "vertex" \/ ~Exists(r.arg)
    /\ IF r.error # "none" \/ (r.arg[1] = "vertex" /\ Patterns(r.arg) = {}) THEN Unchanged
       ELSE Becomes(r.on, Dropped(graphs[r.on], r.arg))

\* remove() is refused when there is nothing to remove; the edges of a vertex
\* up to the first that no graph has are gone.
Removal(r) ==
    LET gs == graphs[r.on]
        around == Incident(r.arg[2])
        absent == {e \in around : SupersetsOf(gs, {{e}}) = {}}
    IN  CASE ~Exists(r.arg) -> r.error # "none" /\ Unchanged
          [] Exists(r.arg) /\ r.arg[1] # "vertex" ->
                IF Has(gs, r.arg) THEN r.error = "none" /\ Becomes(r.on, Dropped(gs, r.arg))
                ELSE r.error = "KeyError" /\ Unchanged
          [] Exists(r.arg) /\ r.arg[1] = "vertex" ->
                IF r.error = "none" /\ around # {}
                THEN Becomes(r.on, Without(gs, around))
                ELSE \/ Unchanged
                     \/ \E gone \in (SUBSET (around \ absent)) \ {{}} :
                            Becomes(r.on, Without(gs, gone)) /\ r.error = "KeyError"

Pop(r) ==
    LET gs == graphs[r.on]
    IN  IF gs = {} THEN r.error = "KeyError" /\ Unchanged
        ELSE \E g \in gs : /\ Becomes(r.on, gs \ {g})
                           /\ IF NoNameless({g}) THEN r.error = "none" /\ r.result = g
                              ELSE r.error = "IndexError"

Clear(r) == r.error = "none" /\ Becomes(r.on, {})

\* An edge of the universe is flipped in every graph, anything else refused.
\* Of an edge that the universe has the other way round no more is promised
\* than that the other objects are left alone: flip() finds it (graphset.py:986)
\* and then hands on what the caller wrote (988), against 978 and 984.
Flip(r) ==
    LET written == r.arg[1] = "edge" /\ r.arg[2] \in universe
    IN  CASE written -> r.error = "none" /\ Becomes(r.on, Flipped(graphs[r.on], {r.arg[2]}))
          [] ~written /\ (r.arg[1] # "edge" \/ ~Exists(r.arg)) -> r.error # "none" /\ Unchanged
          [] OTHER -> \A o \in Objects \ {r.on} :
                            NoNameless(graphs[o]) => graphs'[o] = graphs[o]

\* The updates leave in the object what union() and the like would return; the
\* symmetric difference does unless the object comes second among the others.
Update(r) ==
    \/ Becomes(r.on, Merged(graphs[r.on], r.arg[1], r.arg[2]))
    \/ /\ r.arg[1] = "symmetric_difference"
       /\ Len(r.arg[2]) > 1 /\ r.on = Last(r.arg[2])
       /\ Becomes(r.on, {})

Quotients(op, gs, hs) ==
    IF op = "quotient" THEN Quotient(UNION gs, gs, hs) ELSE Remainder(UNION gs, gs, hs)

Copy(r) == Becomes(r.on, graphs[r.arg])

\* An object that is loaded does not change the others.
Loads(r) ==
    /\ Names(universe') = Names(universe)
    /\ \A o \in Objects \ {r.on} : graphs'[o] = graphs[o]
-----------------------------------------------------------------------------
(***************************************************************************)
(* Calls that give something of r.on                                       *)
(***************************************************************************)
Selected(op, gs, hs) ==
    CASE op = "join" -> Joined(gs, hs)
      [] op = "meet" -> Met(gs, hs)
      [] op \in {"subgraphs", "included"} -> SubsetsOf(gs, hs)
      [] op \in {"supergraphs", "including"} -> SupersetsOf(gs, hs)
      [] op = "non_subgraphs" -> gs \ SubsetsOf(gs, hs)
      [] op \in {"non_supergraphs", "excluding"} -> gs \ SupersetsOf(gs, hs)

Size(op, gs, n) ==
    CASE op = "smaller" -> {g \in gs : Cardinality(g) < n}
      [] op = "larger" -> {g \in gs : Cardinality(g) > n}
      [] op = "graph_size" -> {g \in gs : Cardinality(g) = n}

Alone(op, gs) ==
    CASE op = "invert" -> (SUBSET universe) \ gs
      [] op = "minimal" -> Minimal(gs)
      [] op = "maximal" -> Maximal(gs)
      [] op = "blocking" -> Transversals(universe, gs)
      [] op = "complement" -> {universe \ g : g \in gs}

Relates(op, gs, hs) ==
    CASE op = "isdisjoint" -> gs \cap hs = {}
      [] op = "issubset" -> gs \subseteq hs
      [] op = "issuperset" -> hs \subseteq gs
      [] op = "lt" -> gs \subseteq hs /\ gs # hs
      [] op = "gt" -> hs \subseteq gs /\ gs # hs
      [] op = "eq" -> gs = hs
      [] op = "ne" -> gs # hs

\* Which subgraphs a search is for.
Sought(kind, arg, g) ==
    CASE kind = "cycles" -> IsCycle(g)
      [] kind = "hamiltonian" -> IsCycle(g) /\ Spans(g, Ends(universe))
      [] kind = "paths" -> IsPath(g, arg[1], arg[2])
      [] kind = "forests" -> IsForest(g) /\ Sources(g) = arg
      [] kind = "trees" -> IsTree(g, arg)
      [] kind = "indegree" -> In(g, arg[1]) \in ToSet(arg[2])

Selections == {"including", "excluding", "included"}
Operations == {"join", "meet", "subgraphs", "supergraphs", "non_subgraphs", "non_supergraphs"}
Sizes == {"smaller", "larger", "graph_size"}
Transformations == {"invert", "minimal", "maximal", "blocking", "complement"}
Relations == {"isdisjoint", "issubset", "issuperset", "lt", "gt", "eq", "ne"}
Searches == {"cycles", "hamiltonian", "paths", "forests", "trees", "indegree"}

\* What r answers when nothing is wrong; blocking() of no graph, a size of 0
\* and non_supergraphs() by graphs one in another are not promised.
Answer(r) ==
    LET gs == graphs[r.on]
    IN  CASE r.op = "contains" -> r.result = Has(gs, r.arg)
          [] r.op = "choice" -> r.result \in gs
          [] r.op = "len" -> r.result = Cardinality(gs)
          [] r.op = "combined" -> r.result = Merged(gs, r.arg[1], r.arg[2])
          [] r.op \in {"quotients", "remainders"} ->
                r.result = Quotients(IF r.op = "quotients" THEN "quotient" ELSE "remainder",
                                     gs, graphs[r.arg])
          [] r.op \in Selections -> r.result = Selected(r.op, gs, Patterns(r.arg))
          [] r.op \in Operations ->
                \/ r.op = "non_supergraphs" /\ Minimal(graphs[r.arg]) # graphs[r.arg]
                \/ r.result = Selected(r.op, gs, graphs[r.arg])
          [] r.op \in Sizes -> r.arg = 0 \/ r.result = Size(r.op, gs, r.arg)
          [] r.op \in Transformations ->
                (r.op = "blocking" /\ gs = {}) \/ r.result = Alone(r.op, gs)
          [] r.op \in Relations -> r.result = Relates(r.op, gs, graphs[r.arg])

\* A call that answers raises when an argument is not of the universe, and
\* changes nothing.
Ask(r) ==
    /\ Unchanged
    /\ r.error = "none" => Answer(r)
    /\ r.op \in Selections \cup {"contains"} /\ ~Exists(r.arg) => r.error # "none"

Class(r) ==
    /\ Unchanged
    /\ r.error = "none" =>
        CASE r.op = "universe" -> {SubSeq(e, 1, 2) : e \in r.result} = universe
          [] r.op = "graphs" -> r.result = {{TheEdge(e) : e \in g} : g \in r.arg}
          [] r.op = "constraints" ->
                r.result = {g \in SUBSET universe :
                                /\ {TheEdge(e) : e \in r.arg[1]} \subseteq g
                                /\ {TheEdge(e) : e \in r.arg[2]} \cap g = {}}

Search(r) ==
    /\ Unchanged
    /\ r.error = "none" =>
            r.result = {g \in IF r.on = "class" THEN SUBSET universe ELSE graphs[r.on] :
                            Sought(r.op, r.arg, g)}

\* A new universe: the objects of the old one lose their meaning, unless the
\* universe is refused before it is looked into.
SetUniverse(r) ==
    \/ r.error = "none" /\ universe' = r.arg.edges
    \/ r.error = "RuntimeError"
    \/ r.error \notin {"none", "RuntimeError"} /\ Unchanged

Changes == {"update", "quotient", "remainder"}

Call ==
    LET r == reply'
    IN  /\ reply = NoReply
        /\ r # NoReply
        /\ CASE r.op = "add" -> Add(r)
             [] r.op = "discard" -> Discard(r)
             [] r.op = "remove" -> Removal(r)
             [] r.op = "pop" -> Pop(r)
             [] r.op = "clear" -> Clear(r)
             [] r.op = "flip" -> Flip(r)
             [] r.op = "update" -> Update(r)
             [] r.op \in {"quotient", "remainder"} ->
                    Becomes(r.on, Quotients(r.op, graphs[r.on], graphs[r.arg]))
             [] r.op = "copy" -> Copy(r)
             [] r.op = "loads" -> Loads(r)
             [] r.op = "set_universe" -> SetUniverse(r)
             [] r.op \in Searches -> Search(r)
             [] r.op \in {"universe", "graphs", "constraints"} -> Class(r)
             [] OTHER -> Ask(r)

\* A program that ends loses everything.
Return ==
    /\ reply # NoReply
    /\ reply' = NoReply
    /\ IF reply.error = "runtime_error" THEN Init' ELSE Unchanged

Next == Call \/ Return

Spec == Init /\ [][Next]_vars
=============================================================================
