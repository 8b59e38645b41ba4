-------------------------- MODULE DegreeSpecified --------------------------
(***************************************************************************)
(* FrontierDegreeSpecifiedSpec: the subgraphs whose in- and out-degrees    *)
(* are in given ranges (SearchDirectedGraphs, DiGraphSet.graphs).          *)
(***************************************************************************)
EXTENDS FrontierSearch

VARIABLES in_constraints, out_constraints

\* The component numbers are not used: comp stays 0.
EnteredDegrees(d, l) ==
    [p \in DOMAIN d |-> IF InSlot(SeqSet(Entering(l)), p) = {} THEN d[p] ELSE Blank]

\* The check of the k-th leaving vertex.
Judge(d, l, k) ==
    LET v == Leaving(l)[k]
    IN  IF Indeg(d, v) \in in_constraints[v] /\ Outdeg(d, v) \in out_constraints[v]
        THEN "go" ELSE "zero"

\* Mutation: the degrees before the edge is taken are looked at.
MayTakeBelowMax(d, l) ==
    /\ Outdeg(d, TailOf(l)) \in out_constraints[TailOf(l)]
    /\ Indeg(d, HeadOf(l)) \in in_constraints[HeadOf(l)]

\* The 1-arc is refused unless the degrees it makes are themselves allowed.
MayTake(d, l) ==
    /\ Outdeg(d, TailOf(l)) + 1 \in out_constraints[TailOf(l)]
    /\ Indeg(d, HeadOf(l)) + 1 \in in_constraints[HeadOf(l)]

\* The vertices that leave at the level are checked, one after the other.
CheckLeaving(d, l) ==
    LeaveAll(d, l, [k \in DOMAIN Leaving(l) |-> Judge(WithLeft(d, l, k - 1, Blank), l, k)],
             Blank)

GetChild(d, l, value) ==
    LET d0 == EnteredDegrees(d, l)
    IN  IF value = 0 THEN CheckLeaving(d0, l)
        ELSE IF ~MayTake(d0, l) THEN [ret |-> "zero", data |-> d0]
        ELSE CheckLeaving(CountEdge(d0, l), l)

Child(value) ==
    /\ verdict = "go"
    /\ Follow(GetChild(data, level, value), value, "one")
-----------------------------------------------------------------------------
DegreesInRange(F) ==
    \A v \in Vertices : In(F, v) \in in_constraints[v] /\ Out(F, v) \in out_constraints[v]

(***************************************************************************)
(* Each terminal getChild returns is right: 1 exactly when all degrees are *)
(* in their ranges, 0 only when no completion has them there.  It needs    *)
(* ranges without a gap that start at 0 or 1, those the tests use.         *)
(***************************************************************************)
DegreeVerdictRight == VerdictRight(DegreesInRange)

(***************************************************************************)
(* "For {1: 2, 6: range(2)}, the degree of vertex 1 is 2": graphs() gives  *)
(* every subgraph with the degrees asked for, so a choice that such a      *)
(* subgraph completes is not refused, whatever the ranges.                 *)
(***************************************************************************)
NoAdmissibleRefused == verdict = "zero" => Completions(DegreesInRange) = {}
=============================================================================
