----------------------------- MODULE RootedTree -----------------------------
(***************************************************************************)
(* FrontierRootedTreeSpec: the trees directed away from a root, spanning   *)
(* or not (SearchRootedTrees).                                             *)
(***************************************************************************)
EXTENDS FrontierSearch

VARIABLES root, isSpanning   \* root_ and isSpanning_

DegreeOK(d, v) ==
    /\ ~(isSpanning /\ Degree(d, v) = 0)
    /\ IF v = root THEN Indeg(d, v) = 0
       ELSE /\ ~(Indeg(d, v) = 0 /\ Outdeg(d, v) > 0)
            /\ Indeg(d, v) <= 1

\* The check of the k-th leaving vertex.
Judge(d, l, k) ==
    LET v == Leaving(l)[k]
    IN  IF ~DegreeOK(d, v) THEN "zero"
        ELSE IF SameCompFound(d, l, k) \/ Degree(d, v) = 0 THEN "go"
        ELSE IF NonisolatedFound(d, l, k) THEN "zero"
        ELSE IF isSpanning /\ Others(l, k) # {} THEN "zero" ELSE "one"

\* The vertices that leave at the level are checked, one after the other.
CheckLeaving(d, l) ==
    LeaveAll(d, l, [k \in DOMAIN Leaving(l) |-> Judge(WithLeft(d, l, k - 1, Blank), l, k)],
             Blank)

GetChild(d, l, value) ==
    LET d0 == Entered(d, l)
    IN  IF value = 0 THEN CheckLeaving(d0, l)
        ELSE IF Comp(d0, TailOf(l)) = Comp(d0, HeadOf(l)) THEN [ret |-> "zero", data |-> d0]
        ELSE CheckLeaving(Joined(CountEdge(d0, l), l), l)

Child(value) ==
    /\ verdict = "go"
    /\ Follow(GetChild(data, level, value), value, "one")
-----------------------------------------------------------------------------
\* All edges are reached from the root along edges of F, each vertex by one.
IsTreeFromRoot(F) ==
    /\ F # {} => root \in Ends(F)
    /\ Ends(F) \subseteq Reached(F, {root})
    /\ F # {} => Cardinality(F) = Cardinality(Ends(F)) - 1

IsRootedTree(F) == IsTreeFromRoot(F) /\ (isSpanning => Ends(F) = Vertices)

(***************************************************************************)
(* Each terminal getChild returns is right for the trees that need not     *)
(* span (the empty one among them, as test_rooted_trees has it).           *)
(***************************************************************************)
TreeVerdictRight == ~isSpanning => VerdictRight(IsRootedTree)

(***************************************************************************)
(* Spanning trees of a connected graph: every vertex enters before a tree  *)
(* can be complete, and the terminals are right.                           *)
(***************************************************************************)
Connected == \A v, w \in Vertices : Linked(EdgeIds, v, w)
SpanningTreeVerdictRight ==
    isSpanning /\ Connected => VerdictRight(IsRootedTree)

(***************************************************************************)
(* "If true, trees must be composed of all vertices": what rooted_trees    *)
(* says of is_spanning, on every graph.                                    *)
(***************************************************************************)
SpanningTreesSpan == isSpanning /\ verdict = "one" => Ends(taken) = Vertices
=============================================================================
