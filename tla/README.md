# digraphillion in TLA+

digraphillion keeps very large sets of directed graphs as zero-suppressed
binary decision diagrams (ZDDs). A Python class `DiGraphSet` talks through a C
extension to a C++ layer; searches such as "all directed cycles" build a ZDD by
deciding the edges of the universe one after the other while remembering, for
the vertices on the frontier between decided and undecided edges, just enough
to tell which terminal to reach. This directory holds TLA+ modules for that
program, model-checking configurations for TLC, and proofs for TLAPS.

Paths below are relative to the root of the repository; C++ is in
`src/src/`, Python in `src/digraphillion/`.

## 1. The system

| component | state | operations | calls |
|---|---|---|---|
| `DiGraphSet` (`graphset.py`) | the vertex/edge order of the universe (class state) | universe, constructors, cycles, paths, trees, forests, graphs, set algebra | `setset.py`, extension |
| `setset` (`setset.py`) | object-to-number and number-to-object tables (class state), weights | universe, algebra, iteration, dump and load | extension |
| extension (`pydigraphillion.cc`) | one C++ `setset` per object, iterators | one function per method, GIL released in dump, load and iteration | `setset.cc`, `graphset.cc` |
| `setset` (`setset.cc`) | a root of a ZDD, iterators | algebra, random / weighted / plain iteration, updates | `zdd.cc` |
| ZDD algorithms (`zdd.cc`) | `num_elems_`, `max_elem_`, static memo tables | hitting, minimal, maximal, (non-)sub/supersets, choose, costs, dump, load | SAPPORO |
| SAPPORO classes (`ZBDD.cc`, `BDD.cc`) | a counted reference to a node | algebra with the operation cache | `bddc.c` |
| SAPPORO core (`bddc.c`) | node table, unique tables, reference counts with an overflow table, free list, operation cache | getnode, apply, copy, free, garbage collection, enlargement | – |
| search drivers (`graphset.cc`) | – | build the graph, run a search against a search space, convert the result | `Digraph.hpp`, specs, tdzdd, SAPPORO |
| `Digraph` (`Digraph.hpp`) | edge names, numbered edges, vertex numbers | addEdge, update, getters | – |
| `FrontierManager` (`spec/FrontierManager.hpp`) | entering / leaving / frontier / remaining vertices of each edge, slot tables | the constructor, getters | `Digraph.hpp` |
| six searches (`spec/Frontier*.hpp`) | an array of (in-degree, out-degree, component) per node | constructor, getRoot, getChild | `FrontierManager` |
| tdzdd (`subsetting/`) | node tables, work lists | top-down construction and subsetting, reduction, evaluation | searches |

How they interact: a Python call ends in a `Search*` function of `graphset.cc`.
It adds the edges of the universe to a `Digraph`, calls `update()`, constructs
the search (which constructs a `FrontierManager`), and hands it to tdzdd, which
calls `getRoot` once and then `getChild` for each node, level and arc it meets,
in breadth-first order, each time on a copy of the parent's array. The result
is reduced and rebuilt node by node in SAPPORO's table. Nothing in this chain is
concurrent; threads meet the code only where the extension releases the GIL.

What is hard about each part, and what makes it correct:

* *Digraph*: renumbering by leaving order, `vertexSize()` taken from heads only.
  Correct when the numbered graph is the given one and 1..n are all used.
* *FrontierManager*: slots reused through a stack while one table serves all
  edges, array size measured apart from the slots handed out, self-loops.
  Correct when slots are never shared or lost, fit the array, and the recorded
  frontiers are those of the graph.
* *Searches*: leaving vertices are judged one by one against the ones that are
  left, terminal 1 is returned with edges still undecided, vertices may still
  have to enter. Correct when each terminal is what the taken edges deserve.
* *SAPPORO core*: a garbage collection may start in any `getnode`; nodes with
  count zero live on and are revived; the cache holds uncounted references.
  Correct when every live reference denotes the same family for ever.
* *zdd.cc, ZBDD.cc*: recursions over two diagrams whose cases are tried in a
  certain order, stacks per element that are emptied by level, memo tables keyed by
  node numbers that outlive the nodes. Correct when each result is the family its
  definition on sets of sets says.
* *BDD.cc, import and export*: vectors of functions are single diagrams whose upper
  variables number the elements; files name levels, not variables. Correct when
  equal vectors are equal diagrams and what is read is what was written, or
  nothing, with every reference given back.
* *setset.py / graphset.py / the extension*: the universe is class state shared by
  all objects, on the Python side and on the C++ side; updates take several
  arguments and may raise at any; a loop is a generator that reads the class state at
  each turn. Correct when the two sides agree on numbers, and each call does
  to sets of graphs what its documentation says, or raises.
* *tdzdd*: nodes still to be expanded keep pointers into rows that move and are
  swept; levels are skipped; counts outgrow the words chosen for them. Correct when
  the diagram keeps its meaning through construction, subsetting and
  reduction, storage given back is never used, and the construction ends.

The full list of hazards, each at its line, is in `PROJECT.json`.

## 2. The modules

Searches (C++):

| module | models |
|---|---|
| `Digraph` | `Digraph::update()` as operators: repetitions dropped, vertices numbered in leaving order, number of vertices |
| `FrontierManager` | the constructor of `FrontierManager`, one action per iteration of each of its loops |
| `LeastNumber` | least and greatest numbers of a set, induction up to a number: what all proofs by induction rest on |
| `FrontierSearch` | what the six searches share: data array, component merging, the loop over leaving vertices, the reference notions |
| `DirectedSingleCycle`, `DirectedHamiltonianCycle`, `DirectedSTPath`, `RootedForest`, `RootedTree`, `DegreeSpecified` | one search each: its getChild, and the family it should build |
| `GraphSearch` | the `Search*` functions: the searches composed over one `FrontierManager`, their arguments, getRoot, and one path of getChild calls |
| `GraphSearchProofs` | theorems about the constructor of `FrontierManager` and about the searches: their arrays, the terminals of the degree search, then those of the searches that keep components |

Decision diagrams of tdzdd:

| module | models |
|---|---|
| `DdSpecs` | specifications: `SapporoZdd`, automata like the searches, and what `BinaryOperation`, `Lookahead` and `Unreduction` make of others |
| `DdTables` | `NodeTable`: rows, identifiers, the indices of higher and lower levels; one level of `DdReducer` |
| `TopDown` | one level of `DdBuilder` and of `ZddSubsetter`, and `DdSweeper` |
| `PathCounter` | `countFast()` and `BigNumber` |
| `DdStructure` | a search from its specification to a ZBDD: `zddSubset`, `zddReduce`, `evaluate`, `ToZBDD`; or a count; one level per step |

SAPPORO:

| module | models |
|---|---|
| `ZbddFamilies` | abstract: each ZBDD object stands for a family of sets, operations give the right family or bddnull |
| `SapporoNodes` | the core as a machine: node table, free list, counts, apply with its stack, getnode, collection, enlargement, cache; implements `ZbddFamilies` |
| `SapporoNodesProofs` | lemmas about node tables: references and their counts, what can be reached from the objects, what an edge stands for in a table in order, how the operations go into halves; theorems about the table, the counts, the free list and the cache |
| `SapporoApplyProofs` | theorems about the results: canonicity, the answers of the cache, the refinement of `ZbddFamilies` |
| `RefCounts` | abstract: a number per node, however large |
| `RfcOverflow`, `RfcOverflowProofs` | the counts: 16-bit fields with an overflow table, implements `RefCounts`; theorems |
| `ZbddAlgorithms` | the algorithms of the class ZBDD over families |
| `BddVectors`, `ZbddVectors` | BDD operations, vectors of BDDs (BDDV), vectors of ZBDDs (ZBDDV), product terms, intersection with skip marks |
| `DdFiles` | export and the four imports, a line per step |
| `SapporoVectors` | programs that compute with these, and processes that exchange files |

Sets of sets, and Python:

| module | models |
|---|---|
| `FamilyAlgebra` | reference: the algebra of families, element by element |
| `ZddAlgorithms` | the algorithms of `zdd.cc` |
| `FamilyProofs` | lemmas: each algorithm of `ZbddAlgorithms` and `ZddAlgorithms` on families computes the operation of `FamilyAlgebra` |
| `Setsets` | an object of the C++ class `setset`, its operations and iterators |
| `SetsetsProofs` | theorems about it; lemmas about relations, probabilities, iterators, dumping and loading |
| `SetsetCalls` | the methods of the extension: checks, exceptions, what they leave in the object; the class variables of `setset.py` |
| `UniverseTraversal` | `DiGraphSet._traverse`, one turn of its loop per step |
| `Subdigraphs` | reference: the kinds of graphs the searches look for |
| `GraphCollections` | abstract: what `DiGraphSet` promises, in terms of sets of graphs |
| `DiGraphSets` | a program that uses digraphillion: universes, objects, a loop; implements `GraphCollections` |
| `DiGraphSetsProofs` | theorems about it: universes, walks, loops, the numbering of vertices |

`MCGraphSearch` (with all small digraphs), `MCSapporoNodes`, `MCSetsets`,
`MCDiGraphSets`, `MCDdStructure` and `MCSapporoVectors` are the instances TLC checks.

How they are composed: `DiGraphSets` uses for its searches the families that
`searches` shows the `Frontier*.hpp` searches to accept (`Subdigraphs`), for the
conversion to diagrams and back what `decision_diagrams` shows, for its
sets of sets the algebra that `family_algebra` shows `zdd.cc` and `ZBDD.cc` to compute, and
its numbering of the graph is `Digraph`. `Setsets` takes from `SapporoNodes` that diagrams are
canonical and that intersection, union, difference, OffSet, OnSet0 and Change
are right.

### From code to model

*Edge numbers.* Edge index k of the code (from 0) is k + 1; level l of tdzdd is
edge M - l + 1. `vector`s of vertices whose order no reader uses
(`frontier_vss_`, `remaining_vss_`) are sets, `entering_vss_` and
`leaving_vss_` are sequences.

*FrontierManager.* `ComputeEntering` and `ComputeLeaving` are the iterations of
`constructEnteringAndLeavingVss()`; `Enter`, `Record`, `Leave` and `NextEdge`
are the parts of the body of the loop in `construct()`. The local variables of
the C++ functions (`entered_vs`/`leaved_vs`, `unused`, `current_vs`) are
variables of the module.

*Searches.* A search state is the graph with its frontier tables, the array
`data`, the level, and which search runs with which arguments. The frontier
tables do not depend on the search, so `GraphSearch` chooses search and arguments
when they are built. `ZeroArc` and `OneArc` follow a call of
`getChild(data, level, value)`. tdzdd expands both arcs; the model follows one,
nondeterministically, which visits every pair (path, node) and not only one
path per merged node: it is the semantics of the diagram that is checked.
`taken`, the arcs followed so far, is a history variable that no getChild reads.
`verdict` is the terminal. The loop over the leaving vertices (`LeaveAll`) is written
without recursion: `judged[k]` is what the check of the k-th one says when those before it have been
erased, and the first that says a terminal ends the loop. `assert` is not modelled: the extension is built with
`NDEBUG`, as Python extensions are.

*Diagrams of tdzdd.* A step of `DdStructure` is one level of `construct`,
`subset`, `reduce` or `evaluate`, as the loops of `DdStructure.hpp` call them. A
`SpecNode` that waits is an entry of `dd.work`: the state of the
specification, the column of the input it belongs to and the branch it was
scheduled for (`srcPtr`), whose row must still be there when it is patched. Two entries of a column
are merged when their states are equal (`FirstLike`). `DdSweeper` and the reducer empty
rows in the model where the code frees them, so a use after that is a state
TLC can see (`PointersLive`, `RowsLive`). A specification is an automaton whose moves
are data; the searches of `Frontier*.hpp` are such automata, with `data` as the state. Words
of `BigNumber` have `WordBits` bits (63 in the code).

*SapporoNodes.* The program (`Assign`, `Call`) runs only when no operation is under
way; then the machine takes over, one action per exit or turn of `apply()`
(`ReturnTrivial`, `ChangeAtTop`, `ReturnCached`, `Descend`, `SecondHalf`,
`BothHalves`, `Overflow`), of `getzbddp()`/`getnode()` (`Eliminate`, `Share`,
`Allocate`, `Enlarge`, `StartGc`) and of `bddgc()`/`gc1()` (`Scan`, `FollowEdge`,
`GcSucceeded`, `NodeTableOverflow`). `stack` is the C stack: a frame holds the
locals of one `apply()`, and `pc` says which call it waits for. Edges are numbers
with a sign bit as in the code, since operand order, cache slots and
canonicity depend on them. `malloc()` may fail whenever it is called.
`FamilyOf(f)` is the family an edge stands for; through it the machine implements
`ZbddFamilies` (`Refinement`).

*RfcOverflow.* `SapporoNodes` gives each node a count without bound; this module
says why it may. `IncField` and `DecField` are the macros `B_RFC_INC_NP` and
`B_RFC_DEC_NP` below the limit, `IncEntry`, `NewEntry` and `DecEntry` are
`rfc_inc_ovf()` and `rfc_dec_ovf()`; the loop that copies the table into a larger
one is a step per entry (`Copy`, `Copied`), so that the counts are seen to be right
while one half of the entries is in the old table and one half in the new. `Place` is
where the loop over `nx2` ends. Sizes are powers of two in the code, which makes
its mask the remainder of the model. Nothing is ever taken out of the
table, so the entry of a node that was collected waits for the next node with
its number; that is why `DecField` down to 0 and up again is in the model.
The one thing assumed of the rest of SAPPORO is that no count of 0 is decremented
(`B_RFC_DEC_NP` exits), which `CountsExact` of `SapporoNodes` shows.

*ZBDD.cc and zdd.cc.* A diagram is written as the family it stands for, its top
variable and cofactors as operators on it; canonicity makes the two the same
thing. The recursions are those of the code, case by case in its order. Memo
tables and the cache are left out: `SapporoNodes` has the cache, and a memo table
answers what the function returned, as long as no collection renumbers nodes
(see 7). Variable v has level max_elem + 1 - v, as `new_elems()` makes them.
Probabilities are fractions of `Unit1`; `rand_xor128()` is any number.
`Setsets` has one object that changes, any family as the second operand, the
result of the last question in `asked` and `result`, and one iterator at a time.

*BDDs, vectors, files.* A BDD is a term; attributed edges are left out and where the
code asks for the sign of an edge the model asks for the value at 0. `order` is
`VarID`: variables are made at any level. In a file nodes are named by addresses that `Layouts` chooses,
because importing looks them up by hashing; one line is one step, the file may
end within any line and memory may run out at any node. What an import holds is a bag of references, which must be empty when it
ends without a result (`ImportBalanced`). The marks of `SetZSkip` sit in the
cache and may vanish at any step. So do results of shifts, which `apply()` finds by operand and distance
(`shifts`): any of them may be there at the next shift by as much, or have been overwritten, also after
`BDD_NewVarOfLev`, which moves the levels they were made for and leaves the cache as it is.
The model gives such a stale result as the code does. `CallsRight` then says nothing (`StaleShift`: with the results
go the orders of levels they were made under), and it does speak of every shift that finds only results of the present order.

*Python.* One call is one step of `DiGraphSets`, except `set_universe`, which is one
step per visited vertex, and a loop, which is one step per turn. Of a loop, `left` and `heavy` are what the iterator holds;
`given` is what the caller got, `family`, `universe` and `prices` what the object, the universe and the weights were at the first
turn: history, which is forgotten (`Unsteady`) once a turn finds another universe. `call` holds what was called, with which arguments, the
result or the exception; `Return` forgets it. A `RuntimeError` that leaves C++ through C ends the program, which may
start again (`Restart`). `elems` is `_int2obj`, `numElems` is `num_elems()` of the C++ side,
`weights`, `vertices` the class variables of `DiGraphSet`. `Fresh(f)` guards calls that would read a
table of `num_elems() + 1` entries at an element of a larger earlier universe: they are undefined.

*References.* `IsDirectedCycle`, `IsHamiltonianCycle`, `IsSTPath`,
`IsRootedForest`, `IsRootedTree` and `DegreesInRange` define the families
independently of the search, from sequences of vertices and from reachability;
`FamilyAlgebra` and `Subdigraphs` define the operations and kinds of graphs without
recursion on diagrams.
`VerdictRight` compares: a search may return 0 only when no way to decide the
remaining edges gives a member, and 1 only when the one completion in the family
is the set taken so far (the remaining edges are zero-suppressed). Since every
path ends at a terminal (level 0 at the latest), the diagram is exactly the family.

## 3. The runs

The searches run on the graphs of `MCGraphSearch`: all edge lists up to the
bounds, loops and antiparallel edges included, up to the names of vertices. The
vertices are numbered by `Update`, so every numbering a search can see occurs.

| run | instance | shows |
|---|---|---|
| `searches` | 4 vertices, 1–4 edges, loops; cycles, Hamiltonian cycles, paths (all s, t, both modes), forests (all sets of roots, both modes), trees (all roots, both modes); on 3 vertices degrees in ranges {1}, {1,2} or free, per vertex | all invariants of the frontier; terminals right (Hamiltonian cycles on more than one vertex, spanning trees on connected graphs); each slot holds its vertex's degrees and component |
| `decision_diagrams` | 5 levels, offset 6, words of one bit; automata of two states, unions, intersections, search spaces that are fresh or from a larger universe | results right, meaning kept by every level of every phase, no freed row used, reduced, counts right; ends unless a stale set is read |
| `zbdd_operations` | 2 variables, table of 2 growing to 3, cache of 1, 2 objects, all six operations | canonicity, a truthful cache, every operation right and no other object affected |
| `zbdd_collection` | 3 variables, table of 4, 2 objects, union and change | counts exact and free list exact through cascading collections and failed allocations |
| `reference_counts` | four nodes, limit of the field 2, counts to 4, table of 2 growing to 8 and 32 | each count right, also at the limit and while the table is copied; every entry is found; probing ends |
| `family_algebra` | all families over 3 elements, second operands of at most 3 sets | every operation, selection, stream, relation and iterator as defined |
| `bdd_vectors` | functions of 3 variables (4 after a new one), vectors of at most 7 elements, files of at most 6 nodes, families over nine levels for skip marks | every operation right element by element, but for shifts answered from other levels; equal vectors are equal diagrams; files read back or give nothing, references balanced |
| `digraph_sets` | universes of at most 4 edges over 4 vertices in the lists and all sets of at most 4 edges walked, 3 traversals, 2 objects, a loop | numbers agree, calls do what `GraphCollections` promises, a loop that finds its universe at each turn gives what its object had, refusals where they should be, order by walk |
| `rooted_tree_span`, `degree_lower_bound`, `cached_null`, `universe_both_ways` | small | the code disagrees with its documentation, see 5 |

*Bounds.* Four edges over four vertices contain every way in which two
components meet, close and leave: a cycle of length 4, two 2-cycles side by
side, a path with a branch, a tree beside a cycle, two vertices that leave at
one edge, a slot reused while another vertex is on the frontier, and frontiers
of sizes 1 to 4. Ranges of degrees multiply with the vertices, hence three of
them. Node tables are minute so that every
third allocation fills them: with three nodes over three variables a collection
takes a chain of two, a dead node is revived by `getnode` and by the cache, and
an allocation fails while the first half of the result is held (two variables
are not enough for that: there is only one node on level 1). One cache slot makes
every entry collide; objects are interchangeable (`SYMMETRY`, no liveness is
checked). `zbdd_collection` follows in-place operations only, and changes only by a
variable that occurs in no set of the operand (`CONSTRAINT BuiltUp`): which object
takes the result matters to nothing the run checks, and every family can still
be built up, united and dropped.
The nodes of `reference_counts` (1, 2, 9, 33) share places: 1, 9 and 33 in
tables of 2 and 8, 1 and 33 also in one of 32, where 2 stands in their way, so that
chains wrap, cross and are copied in another order than they were made. The
code starts with a table of 4 (`B_RFCT_SPC0`), which would need more nodes to be
enlarged twice.
Five levels let an edge skip three of them and rows be swept two at a time; with words of
one bit the counts of a universe of five take up to six words, so every case of a count that outgrows
its neighbours occurs. Three elements give 256 families, among them every shape of
diagram on three levels; second operands of at most three sets have every terminal case
of each recursion. Vectors of up to seven elements have every length between powers of
two below eight. In `digraph_sets` the universe shrinks, grows, is refused and
replaced while two objects still hold numbers of the old one; `MaxEdges` bounds the universe
in which objects are used, `MaxGraphs` how many graphs the objects have in all, and the loop is explored with objects of at
most `MaxLooped` graphs and disturbed, while it goes on, by `pop()` on its object and by `set_universe()`, the two that
could change what it gives.

`CHECK_DEADLOCK FALSE` stands where the program
stops: a constructor returns, a search ends at a terminal, a count is done, `err()` exits.

*Fairness.* `DdStructure` has weak fairness of `Advance`: the loops of
`construct_`, `zddSubset`, `zddReduce` and `evaluate` are sequential code that nothing
outside can stop between two levels. Under it `Finishes` says that a search or count
that does not read a stale set comes to an end, whatever levels are skipped. `Advance` describes the same steps as the loop
actions by what they change, since a step is enabled exactly when its guard holds.
No other module states a liveness property: the constructor, the copying and the
searches are loops with a bound that decreases at every step, and what the interpreter calls next
is nobody's obligation.

Where a run's property is a conjunction (`AnswersRight`, `CallsRight`, `WalksRight`, ...) its
conjuncts are definitions of their own, each with what it claims. Each property has in `PROJECT.json` a mutant, a plausible bug, under which TLC
finds it violated. The mutated operators are in the modules, marked "Mutation".

## 4. What is proved

The first part of `GraphSearchProofs` proves, for every set `Graphs` of digraphs that satisfy
`GraphsAssumption` (vertices 1..n, each on some edge, at least one edge — what
`Digraph::update()` produces from a nonempty list, by `UpdateGivesGraph` of `DiGraphSetsProofs`):

* `TypeCorrect`: `Spec => []TypeOK`
* `SlotsCorrect`: `Spec => [](SlotsDistinct /\ SlotsAccounted)`; `unused.back()` is
  never applied to an empty vector and no two frontier vertices share a slot
* `SlotsFit`: `Spec => []SlotsBounded`; `data[vertexToPos(v)]` is inside the array
  of `getMaxFrontierSize()` elements
* `FrontierCorrect`: `Spec => []FrontierExact`
* `TablesCorrect`: `Spec => []SlotTablesAgree`
* `VerticesEnterAndLeaveOnce`: `Spec => []EnterLeaveOnce`

*The argument.* None of these is inductive. `IInv` adds what the lists built by
the first two loops contain (`ListsInv`: edge a lists exactly the vertices with
an edge at a and none before, or none after), where the loops are
(`ControlInv`), and which vertices are on the frontier at each moment
(`CurrentInv`). With those `Enter` only adds vertices not yet there, so slots
stay distinct, and `Len(unused) + |current_vs| = N` gives a slot to take.
`SlotsBounded` needs more: `StackInv` says that below a high-water mark, the
largest number of vertices on the frontier at one time, the stack is untouched,
so that a new slot is only handed out when every older one is in use.
`TablesInv` follows each row of `pos_to_vertex` from the moment it is copied.
Each action has its lemma (`EnterStep`, `LeaveStep`, ...), with one step per
conjunct; `Invariance` collects them. `EnterLeaveOnce` then speaks of the lists alone: the
edges at which a vertex enters are the least of its edges and no other (`EntersOnce`).

The second part proves, for the same digraphs, every search and all its arguments:

* `SearchDataCorrect`: `SpecGraphSearch => []DataRight`; on each frontier the array holds the degrees
  in the edges taken, and component numbers that are equal exactly for linked vertices
* `DegreeSearchCorrect`: `SpecGraphSearch => []DegreesRight`, if each range has with a degree every
  smaller one but 0 (`GaplessRanges`)
* `DegreeSearchSound`: with any ranges, what the degree search accepts has the degrees asked for

*The argument.* A search runs the constructor and then leaves its tables alone
(`SearchConstructs`), so all of the above holds of them; `FrontierDone` is what the searches
need of it. `ArrayInv` says what the array means to the vertices on the frontier behind the
last edge (`Kept`). Each part of getChild has a lemma that carries this over, from those vertices to the ones at the edge
(`EnteredKeeps`, `CountEdgeKeeps`, `JoinedKeeps`) and on to those that stay (`LeaveKeeps`). They rest on
slots being distinct on each frontier, on edges decided so far never touching a vertex that enters, and on
`LinkedAdd`: what one more edge joins. A vertex that enters is given its own
number, which no component on the frontier has because numbers are vertices seen before.
`DegreesInv` adds that the settled vertices, all of whose edges are
decided, have the degrees asked for: no completion changes them. The hypothesis on ranges is needed where
an arc is refused before its vertex leaves: with the range {2} the first edge of a vertex is
refused although a second may follow, which is the finding `degree_lower_bound`.

The third part proves, for the same digraphs:

* `CycleSearchCorrect`: `SpecGraphSearch => []CyclesRight`; Hamiltonian cycles on more than one vertex
* `PathSearchCorrect`: `SpecGraphSearch => []PathsRight`, for any two ends, through every vertex or not
* `TreeSearchCorrect`: `SpecGraphSearch => []TreesRight`; forests for all sets of roots, trees for all roots,
  spanning or not (spanning trees on connected graphs)

*The argument.* The searches know degrees and linkage, the properties speak of sequences of vertices.
`Targets` connects the two: a set of edges is a directed cycle when its vertices are entered
and left once and its edges are linked (`Ring`), and a path when that holds but for one vertex where it begins and one
where it arrives (`Route`). For one direction a longest walk (`LongestWalk`)
must return to where it began or stop where `Route` arrives, and nothing can be linked to it from
outside (`WalkCloses`, `RingIsCycle`, `RouteIsPath`); for the other a
walk of k pairs uses k different edges (`WalkEdges`, `CycleIsRing`, `PathIsRoute`).
A forest is a set of edges that enters no vertex twice and none of which joins what
earlier ones have linked (`Acyclic`), which is what the search looks at. From an acyclic set each component is
reached from a vertex that is not entered (`AcyclicRooted`, adding the edges one by one); conversely, behind the
first edge that closes a cycle lie only vertices that are entered from among themselves, which no
such vertex reaches (`ReachedAcyclic`). The number of edges, by which the reference tells a forest, is that of the vertices
entered when none is entered twice (`HeadsCounted`). `ForestTarget` and `TreeTarget` put this together with the roots.

`Bound` is the invariant: each settled vertex is as the search asks (`Fits`), and one that is not alone, or may not
stay so, is linked to a vertex of the frontier, which forests do not need. A vertex that leaves unbound closes
a component that no later edge reaches (`ComponentComplete`), so that a completion that is searched for has no
edge outside of it; and an edge that closes a cycle of a tree is in no completion, because the earlier edges stay. That is
why 0 (`RefusedRight`) and 1 (`AcceptedRight`) are right. `LoopSound` carries `Bound` from one leaving vertex
to the next, and at level 0 there is no frontier left to be bound to (`BottomRight`): nothing was
accepted as a cycle or a path, while what is left of a forest or a tree is one. The five searches differ in `Fits`, in
whether they go through every vertex (`Spanning`), in the vertices they must meet (`Endpoints`) and in that last answer, and
have the rest of their proofs in common.

`SapporoNodesProofs` proves, for every number of variables, first size and limit of
the table, size and hash function of the cache, and every program over any set of
objects:

* `TypesCorrect`: `Spec => []TypeOK`
* `CountsCorrect`: `Spec => []CountsExact`
* `FreeListCorrect`: `Spec => []FreeListExact`
* `CacheCurrent`: outside a collection no entry of the cache names a node that is not in the table

`SapporoApplyProofs` proves, for the same:

* `TableCanonical`: `Spec => []Canonical`
* `CacheTruthful`: `Spec => []CacheSound`
* `FamiliesImplemented`: `Spec => Refinement`, that is `Families!Spec`

*The argument.* `IInv` is about references. Each frame holds up to two counted results, and
moving one from `ret` to a frame, from a frame to a node, or from a collected node to the
edges still to be followed replaces one element of the set `References` by another:
`TallyAdd`, `TallyDrop` and `TallyMove` say what that does to the counts, and every action is
a few of those (`...Sound` lemmas, collected by `StepSound`). The operands of a call are not counted. They are safe because
they can be reached from the objects (`OperandsInv`, `Live`), which do not change before the operation
ends, and a node that can be reached has a count above 0. `ControlInv` and `FramesInv` say
which call works and what each holds, so that a collection never starts with a result in
`ret`. `AvailInv` counts: used and free nodes make up the table, one node more is free after
an enlargement or a collection, hence `Head(avail)` exists. `CacheInv` is the delicate part: an entry may be
stale from the first node collected to the end of the collection, so it speaks of
all entries only while nothing has been collected.

`SInv` is about families, and needs `IInv` of this state and of the next. `Structured` says
the table is in order: 1-edges are not the empty family, 0-edges are negative, levels fall,
no node is there twice. `CallsRight` says of each call on the stack what it is going to return
(`Due`), and that this is the half its caller waits for (`Awaited`); the first one is to
return what the program asked for. `EntriesRight` says that an entry whose nodes are in the table is
true, at any moment. `NewNodeInv` keeps "no equivalent node" true while the table is
enlarged or collected: a collection only removes nodes. Every step leaves all edges into both tables the meaning they had (`AgreesStep`):
counts do not matter to it, a new node is not below an old one, and a removed one is above
none that stay (`MeaningStays`). Meanings are unfolded one level at a time
(`LayersSettle`, `MeaningUnfold`, `HalfFacts`), and `MeaningInjective`
takes two different edges for one family with the least height. `AppliedHalves` is the
recursion of `apply()`: the halves of a result are the results for the halves. With these each action has a
lemma (`DescendRight`, `ShareRight`, `ReturnCachedRight`, ...).

`RfcOverflowProofs` proves, for every set of nodes, limit and first size:

* `TypeCorrect`: `Spec => []TypeOK`
* `ProbesAlwaysEnd`: `Spec => []ProbesEnd`; the loops over `nx2` end
* `EntriesAlwaysFound`: `Spec => []EntriesFound`
* `CountsCorrect`: `Spec => CountsRight`; fields and tables implement `RefCounts`

*The argument.* `IInv` says of each table that its chains are whole
(`ChainsWhole`: no free place between where a node is looked for first and its
entry), that no node has two entries, neither in one table nor one in each
(`Once`, `Apart`), and that the new table is less than half full when the entries
still to be copied are counted in (`Capacity`). `Capacity` gives a free place,
hence a first place where probing stops (`ProbeStops`), and with whole chains
that place is the node's own entry (`PlaceFinds`). Putting an entry there keeps
chains whole and entries unique (`PlaceFills`): `NewEntry` and `Copy` both cite it.
That `Key` visits every place once (`KeyInjective`, `KeySurjective`) rests on
uniqueness of remainders (`SameResidue`). Each step then changes one count by one or
none (`Step`), which is a step of `RefCounts`.

`TypeOK` and `SlotsAccounted` of `FrontierManager` are proved and no longer checked by a run.

`SetsetsProofs` proves, for every number of elements, every object that a program can build from
any families `Others`, all weights and probabilities:

* `AnswersRightAlways`: `Spec => []AnswersRight`; whatever is asked of an object, the result is what its definition
  says: the algebra, the selections by inclusion, sizes, constraints and membership, the relations
  between variables (`RelationsRightAlways`), probabilities (`ProbabilityRightAlways`)
* `StreamsRightAlways`: `Spec => []StreamsRight`; what is dumped is loaded again, the enumeration writes each set once
* `IteratorsRightAlways`: `Spec => []IteratorsRight`; every set once, in the order of the weights if asked for

*The argument.* The state is small; what has to be proved is in the algorithms. `FamilyProofs` has a lemma for each one
(`TimesIs`, `DivideIs`, `NonSupersetsIs`, ...): for all families of sets of elements it computes the operation of
`FamilyAlgebra`, which knows no diagrams. A recursion of the code is in the model a function whose body is a step
(`TimesStep`, ...) that is given the function it calls. The reference satisfies the equation of the recursion, so the
recursion has a solution (where there is no such reference, `Recursion` gives one from a measure that falls with
each call). That every solution is the reference follows by induction on the elements that occur in the operands
(`FamilyInduction`, `PairInduction`): the cofactors at the top variable have fewer. What is left is to show, for one node, that the operation
goes into cofactors the way the code takes it apart, the short cuts and the choice of the higher of two top variables included.
Two of these facts need hypotheses of their own: `non_supersets` is right for second operands none of whose sets contains
another (`minimal` calls it so; see 5 for others), and `hitting` for families
that have a set. Loops over all elements (`FlipAll`, the skipped levels of `probability()`, the lines `load()` reads) are folds: any
function with the equation of the loop agrees with the one that was chosen (`SameLoop`).

`AnswerInv` is inductive: `this` is a family of elements, and the result is the one for what was asked. `RelationInv`,
`ProbabilityInv` and `StreamInv` are kept by a step from a state with `AnswerInv`. `StreamInv` is about orders: the stacks of
`dump()` hold each node once, on its own level (`Visits`), the levels are written from the bottom, so each line comes after
those its edges name (`Legible`, `DumpSteps`), and then `load()` has in its table, after k lines, the nodes
of these k as themselves (`ReadsTo`). `Written` counts the sets of an enumeration, which makes them different.
`LoopInv` says what `zdd` of an iterator still holds: of a plain one the sets given are those `Before` the one it is at, in the order of
the diagram, and `choose()` goes on to the next (`ChooseIs`); of the others `zdd` is the object without the sets given and the one it is at.
By weight nothing to come is heavier than what was given (`Falling`), because `choose_best()` gives a heaviest set
(`ChooseBestIs`, on weights of nodes that `BestIs` shows to be the greatest of their sets).

`DiGraphSetsProofs` proves, for all sets of vertices, lists, edges, objects and bounds that satisfy
`DiGraphSetsAssumption`, and every program that uses them:

* `UniverseAgreesAlways`: `Spec => []UniverseAgrees`; the Python tables and the C++ side number the same edges,
  each once, whatever universes came, were refused half-way or grew by `flip()` and `loads()`
* `UniversesRefusedAlways`: `Spec => []UniversesRefused`; `set_universe()` raises what a repeated edge, an empty list, a
  wrong source or too many edges call for (`RefusalOf`), and takes over every edge of what it does not refuse once. It may fail
  otherwise in two cases only: by the assertion of `bfs` and `dfs` when edges go both ways between two vertices, which is the finding
  `universe_both_ways`, and by the `ValueError` of `greedy` when an edge is a self-loop
* `BothWaysNeverWalked`: `bfs` and `dfs` never take over a universe with edges both ways, whatever its source
* `WalksRightAlways`: `Spec => []WalksRight`; `WalkVisitsNewAlways` is the half of it by which walks end
* `LoopGivesAllAlways`: `Spec => []LoopGivesAll`; a loop that finds its universe at each turn has given, each once, graphs its
  object had at the first turn, none before a lighter (heavier) one by the weights edges had then, and all of them when it
  ends, whatever `pop()` and `set_universe()` do in between
* `NumberedInLeavingOrderAlways`: `Spec => []NumberedInLeavingOrder`, and `UpdateGivesGraph`: `Digraph::update()` makes of
  any list of edges what the proofs about searches assume of a graph

*The argument.* `ClassInv` is inductive. What `set_universe()` leaves behind depends on the whole traversal, so the
invariant has to speak of traversals that are under way: `WalkInv` says that they are of the edges they were given and that
what is visited and what is listed fit together. The greedy one (`GreedyOn`) has listed each edge between visited vertices once
(`ListsAll`); the ones with a queue (`QueueOn`) one edge for each pair of visited vertices that have some (`ListsOnce`), and no vertex waits twice or after it was
visited. Each goes on from a vertex that was not visited, in another component when nothing is left to visit in this one, hence
at the end all vertices are visited and all edges listed, or, if one is missing because its reverse was taken for it, the assertion of `_traverse` fails. `GreedyVisits` and `QueueVisits` carry this
over one turn, `StartIsOn` establishes it, `GivenTables` and `GivingUniverse` follow the list from there into the tables of both sides, or
to the exception that leaves them as they were. `GrowsKeeps` and `CountsKeeps` are about `flip()` and `loads()`, which number
edges after the fact.

`OutcomeInv` is the exact outcome of the call: `UniversesRefused` allows exceptions where the walk misses an edge, it says when they are raised.

The order of the list (`OrderedByWalk`) takes more than what is listed: `OrderInv` adds to `ClassInv` what `WalkOrder` says of
the vertices that wait. On a connected graph these, with the one visited, are exactly the neighbours of what was
visited (`GrowsFrom`), though the greedy walk keeps many entries for a vertex in its heap and reads degrees that
change meanwhile; so each edge listed touches one before it or the source (`Attached`), which makes every
prefix connected (`AttachedConnected`). `GreedyTurn` and `QueueTurn` show that one turn of each walk is a `TurnOf`, which is all
that `TurnGrows` needs of it. For the breadth-first walk `Levels` says that the queue holds vertices as far as the one visited and then those
one edge farther; that no vertex left is nearer (`LeftAreFar`) and that new ones are all one farther (`FreshAreNext`) follows by the least counterexample,
on graphs that are not connected too. `DistancesMeasure` gives the facts about `Distance` on which this rests.

Loops over sequences are folds, as above (`FoldRuns`, `RunKeeps`); `NumberedIs` follows the one of `update()`
backwards through the edges: what is numbered is an interval of numbers that grows downwards.

A loop keeps sets of numbers from its first turn and names each by the table of the turn that gives it; nothing in the generator
says that these still go together. `LoopInv` says what holds as long as each turn has found the universe of the first:
the graphs given and the names of the sets left make up the object as it was, none twice (`GraphsOf`, `NotYet`; numbers and edges are in a bijection
by `ClassInv`), and none left is lighter (heavier) than one given (`InOrder`). `GiveNextKeeps` carries this over a turn. The property
weighs graphs by the weights of their edges, the code by those of numbers: `WeighedAsPriced` shows the two sums
equal (`SumFacts`: a sum over a set is the same along any bijection), for which `WeightsInv` has to know that weights are integers.

*Induction* over numbers and over diagrams is done with `LeastNumber`: the theorems of the library that
take a predicate as a parameter cannot be instantiated, a set of numbers can. A proof
about a recursive function of levels takes the set of levels at which it is right. The same holds of the recursions
over families: `SetInduction` takes the set of supports for which a function is right.

*Only model-checked*: tdzdd (`DdStructure`), vectors and files of SAPPORO (`SapporoVectors`), whose modules need
RECURSIVE operators, which the provers do not take; that
`DiGraphSets` implements `GraphCollections` (`CallsAsPromised`), which compares every call with its promise and is a matter of many
cases rather than of an invariant: the one it needs, that both sides number alike, is `UniverseAgrees`. Of `SapporoNodes`, `NullMeansNoMemory` is refuted by `cached_null`, and of `DiGraphSets`, `EveryEdgeMet` by `universe_both_ways`; nothing else of `SapporoNodes` and of `Setsets` is
left to the runs alone, which stay as they are: they show that the invariants are about
states that occur. `Finishes`, being liveness, is checked by TLC only.

## 5. Findings

* `rooted_tree_span` — `rooted_trees(root, True)` may return trees that do not
  span: the 1-terminal is returned while vertices have yet to enter.
* `degree_lower_bound` — `graphs(degree_constraints={1: 2, ...})` finds nothing:
  the range is applied to intermediate degrees.
* `cached_null` — an operation that failed for want of memory leaves bddnull in
  the operation cache and fails again later, whatever memory there is then.
* `universe_both_ways` — `set_universe()` with `bfs` or `dfs` of edges in both directions between two vertices
  ends in the assertion at `graphset.py:1968`, which says that the walk meets every edge: it lists one of the two
  (`graphset.py:1953`). `greedy` lists both.

Seen while modelling, without a run of their own:

* `non_supersets` of a family that has come down to {{}} keeps the empty set although the second family has
  it too (`zdd.cc:212-214`, against `graphset.py:1304`). The lemma `NonSupersetsIs` has the hypothesis that excludes it.
* `flip()` of an edge that is in the universe the other way round should flip that edge and raise `KeyError` for one that is
  in it neither way (`graphset.py:977-984`), but hands on the edge as it was written (`graphset.py:988`), which is new to `setset` and makes
  the universe grow by it. `DiGraphSets` does what the code does. `GraphCollections` promises nothing of the
  object then (`Flip`), only that the others keep their graphs.
* A loop whose universe is replaced between two turns names the rest of its sets by the new table or ends in an
  `IndexError` (`setset.py:127,245`); weights stay those of the old one.
* `set_universe()` with the default `greedy` of a self-loop lists it twice and raises the `ValueError` of repeated edges. Self-loops are
  not supported, says `src/README.md`; nothing tells the caller.
* A shift that the cache remembers from before `BDD_NewVarOfLev` has the variables of the levels as they were
  (`bddc.c:2072-2096,769-780`): `StaleShift` in the model.
* Reading a set with elements of a larger earlier universe as a search space, or
  counting it, does not return: `SapporoZdd` walks down by the variable that has
  the number of a level (`SapporoZdd.hpp:69-71,83-85`). The model has it as `endless`;
  `OnlyStaleSetsLoop` shows that nothing else loops.
* On the universe of one loop the empty set is a "Hamiltonian cycle", and the
  assertion at `FrontierDirectedHamiltonianCycle.hpp:210` is false for an isolated
  vertex whose component is on no other frontier vertex, so a build with assertions
  aborts on the edges (1,2), (2,3).
* `smaller(0)` is f intersected with {{}}, and `set_size(0)` is empty, where
  `graphset.py:1124-1148` promises the graphs of that size.
* `load(FILE*)` of a dumped {} or {{}} gives null (`zdd.cc:412-444`).
* `~BDDV()` is not equal to the empty vector; `PrintPla` of a constant vector writes `.i 0`, which `BDDV_ImportPla` refuses.
  BDDV and ZBDDV are compiled in but not used by the extension.

## 6. Plan

1. `VarHash` — the chains of the unique table, their doubling and their halving
   in place, implementing the lookup `Equivalent` of `SapporoNodes`.
2. The static memo tables of `zdd.cc` over `SapporoNodes`, where a collection may
   give a remembered number to another family.
3. Proofs: the calls of `DiGraphSets` one by one against `GraphCollections`.

## 7. Not modelled, and why

* The chains of the unique table and the memo tables of `zdd.cc`: see the plan. A collection
  takes place only at the limit of 2^30 nodes or when memory runs out, so the
  tables go wrong only there.
* The parts of the extension that run without the GIL: the C++ code has no lock, so a call of
  another thread in the meantime is a data race in any order and leaves no behaviour to
  state properties of. Argument parsing is pure I/O.
* The builders for several processors: they need OpenMP, with which the extension is not
  built. `DepthFirstSearcher` is used by nothing that is built.
* `BDD_Hash` and `ZBDD_Hash`, drawing, printing: used by nothing in digraphillion.
* `BDD_Import` in a session with vectors compares levels with `bddvarused()`; and shifts of a vector
  past `TopLev`, or `Spread(k)` with k beyond the variables, end or derail the program: the model
  takes them as preconditions.
* Widths of `short` in the searches: instances with 2^15 vertices are out of reach of any diagram.
* `py3c` is third-party; `Graph.hpp`, the undirected specifications and the
  containers of tdzdd are not used by digraphillion or are generic; converters to other graph
  libraries, messages and timing are I/O.
