---------------------------- MODULE GraphSearch ----------------------------
(***************************************************************************)
(* The searches of graphset.cc: a Search* function constructs a search on  *)
(* the graph of the universe and hands it to tdzdd, which calls getRoot    *)
(* once and then getChild for the nodes and arcs it meets.  One path from  *)
(* the root is followed here, any path.                                    *)
(*                                                                         *)
(* FrontierManager does not look at the arguments of a search, so they are *)
(* chosen when its constructor is done.                                    *)
(***************************************************************************)
EXTENDS FrontierSearch

CONSTANTS
    Searches,  \* the searches called
    Ranges,    \* the ranges of degrees a caller gives, as sets
    MaxDegreeVertices  \* bounds the graphs whose degrees are constrained

VARIABLES
    search,    \* the search under way
    args       \* its arguments

vars == <<fmVars, searchVars, search, args>>

Cycles == INSTANCE DirectedSingleCycle
HamiltonianCycles == INSTANCE DirectedHamiltonianCycle
Paths == INSTANCE DirectedSTPath WITH
    s <- args.s, t <- args.t, isHamiltonian <- args.is_hamiltonian
Forests == INSTANCE RootedForest WITH
    roots <- args.roots, is_spanning <- args.is_spanning
Trees == INSTANCE RootedTree WITH
    root <- args.root, isSpanning <- args.is_spanning
Degrees == INSTANCE DegreeSpecified WITH
    in_constraints <- args.indeg, out_constraints <- args.outdeg

\* graphs() constrains the in-degrees in a search of their own and then the
\* out-degrees in another; a vertex not named may have any degree.
AnyDegree == 0..M
Constraints == [Vertices -> Ranges \cup {AnyDegree}]
Unconstrained == {[v \in Vertices |-> AnyDegree]}

Args(x) ==
    CASE x = "paths"   -> [s : Vertices, t : Vertices, is_hamiltonian : BOOLEAN]
      [] x = "forests" -> [roots : SUBSET Vertices, is_spanning : BOOLEAN]
      [] x = "trees"   -> [root : Vertices, is_spanning : BOOLEAN]
      [] x = "degrees" -> [indeg : Constraints, outdeg : Unconstrained]
                              \cup [indeg : Unconstrained, outdeg : Constraints]
      [] OTHER         -> {<<>>}

InitGraphSearch ==
    /\ Init
    /\ InitSearch
    /\ search = "none"
    /\ args = <<>>

GetRoot ==
    /\ phase = "done"
    /\ verdict = "none"
    /\ search' \in Searches
    /\ search' = "degrees" => N <= MaxDegreeVertices
    /\ args' \in Args(search')
    /\ Root
    /\ UNCHANGED fmVars

GetChild(value) ==
    /\ \/ search = "cycles" /\ Cycles!Child(value)
       \/ search = "hamiltonian_cycles" /\ HamiltonianCycles!Child(value)
       \/ search = "paths" /\ Paths!Child(value)
       \/ search = "forests" /\ Forests!Child(value)
       \/ search = "trees" /\ Trees!Child(value)
       \/ search = "degrees" /\ Degrees!Child(value)
    /\ UNCHANGED <<fmVars, search, args>>

ZeroArc == GetChild(0)
OneArc == GetChild(1)

NextGraphSearch ==
    \/ ConstructFM /\ UNCHANGED <<search, args>>
    \/ GetRoot
    \/ ZeroArc
    \/ OneArc

SpecGraphSearch == InitGraphSearch /\ [][NextGraphSearch]_vars
-----------------------------------------------------------------------------
(***************************************************************************)
(* Each terminal of each search is right, as its module says: the diagram  *)
(* that results holds exactly the cycles, paths, forests, trees or         *)
(* subgraphs asked for.  Hamiltonian cycles are right on every graph of    *)
(* more than one vertex.  Trees that need not span are right on every      *)
(* graph, spanning ones on connected graphs, where every vertex enters     *)
(* before a tree is complete.                                              *)
(***************************************************************************)
CyclesRight ==
    /\ search = "cycles" => Cycles!CycleVerdictRight
    /\ search = "hamiltonian_cycles" /\ N > 1 => HamiltonianCycles!HamVerdictRight

PathsRight == search = "paths" => Paths!PathVerdictRight

TreesRight ==
    /\ search = "forests" => Forests!ForestVerdictRight
    /\ search = "trees" => Trees!TreeVerdictRight /\ Trees!SpanningTreeVerdictRight

DegreesRight == search = "degrees" => Degrees!DegreeVerdictRight

(***************************************************************************)
(* While a search goes on, the slot of each frontier vertex holds its      *)
(* degrees and a component number equal for linked vertices only, though   *)
(* slots of vertices that left have been reused.  The degree search keeps  *)
(* no components.                                                          *)
(***************************************************************************)
DataRight == verdict = "go" => DegreesKept /\ (search # "degrees" => ComponentsKept)

(***************************************************************************)
(* "If true, trees must be composed of all vertices": what rooted_trees    *)
(* says of is_spanning, on every graph.                                    *)
(***************************************************************************)
SpanningTreesSpan == search = "trees" => Trees!SpanningTreesSpan

(***************************************************************************)
(* "For {1: 2, 6: range(2)}, the degree of vertex 1 is 2": graphs() gives  *)
(* every subgraph with the degrees asked for, so a choice that such a      *)
(* subgraph completes is not refused, whatever the ranges.                 *)
(***************************************************************************)
NoAdmissibleRefused == search = "degrees" => Degrees!NoAdmissibleRefused
=============================================================================
