---------------------------- MODULE RootedForest ----------------------------
(***************************************************************************)
(* FrontierRootedForestSpec: the rooted forests (branchings) of a digraph, *)
(* with given roots or any, spanning or not (SearchDirectedForests).       *)
(***************************************************************************)
EXTENDS FrontierSearch

VARIABLES roots, is_spanning

\* The check of the k-th leaving vertex.
Judge(d, l, k) ==
    LET v == Leaving(l)[k]
        isolated == Indeg(d, v) = 0 /\ Outdeg(d, v) = 0
        ok == /\ ~(is_spanning /\ isolated)
              /\ IF roots = {} THEN Indeg(d, v) <= 1
                 ELSE IF v \in roots THEN Indeg(d, v) = 0 /\ Outdeg(d, v) > 0
                 ELSE Indeg(d, v) = 1 \/ isolated
    IN  IF ok THEN "go" ELSE "zero"

\* The vertices that leave at the level are checked, one after the other.
CheckLeaving(d, l) ==
    LeaveAll(d, l, [k \in DOMAIN Leaving(l) |-> Judge(WithLeft(d, l, k - 1, Blank), l, k)],
             Blank)

GetChild(d, l, value) ==
    LET d0 == Entered(d, l)
        d1 == CountEdge(d0, l)
    IN  IF value = 0 THEN CheckLeaving(d0, l)
        ELSE IF Comp(d1, TailOf(l)) = Comp(d1, HeadOf(l)) THEN [ret |-> "zero", data |-> d1]
        ELSE CheckLeaving(Joined(d1, l), l)

Child(value) ==
    /\ verdict = "go"
    /\ Follow(GetChild(data, level, value), value, "one")
-----------------------------------------------------------------------------
\* Vertex-disjoint trees, each directed away from its root.
Sources(F) == {v \in Ends(F) : InEdges(F, v) = {}}
IsBranching(F) ==
    /\ Ends(F) \subseteq Reached(F, Sources(F))
    /\ Cardinality(F) = Cardinality(Ends(F)) - Cardinality(Sources(F))

IsRootedForest(F) ==
    /\ IsBranching(F)
    /\ roots # {} => Sources(F) = roots
    /\ is_spanning => Ends(F) = Vertices

(***************************************************************************)
(* Each terminal getChild returns is right: 1 exactly for a forest of      *)
(* trees directed away from their roots, whose roots are the given ones,   *)
(* that covers every vertex if spanning; 0 only when none can result.      *)
(***************************************************************************)
ForestVerdictRight == VerdictRight(IsRootedForest)
=============================================================================
