------------------------ MODULE DirectedSingleCycle ------------------------
(***************************************************************************)
(* FrontierDirectedSingleCycleSpec: the directed cycles of a digraph       *)
(* (SearchDirectedCycles, DiGraphSet.directed_cycles).                     *)
(***************************************************************************)
EXTENDS FrontierSearch

\* The check of the k-th leaving vertex.
Judge(d, l, k) ==
    LET v == Leaving(l)[k]
        isolated == Indeg(d, v) = 0 /\ Outdeg(d, v) = 0
        passed == Indeg(d, v) = 1 /\ Outdeg(d, v) = 1
    IN  IF ~(isolated \/ passed) THEN "zero"
        ELSE IF SameCompFound(d, l, k) \/ isolated THEN "go"
        ELSE IF NonisolatedFound(d, l, k) THEN "zero" ELSE "one"

\* The vertices that leave at the level are checked, one after the other.
CheckLeaving(d, l) ==
    LeaveAll(d, l, [k \in DOMAIN Leaving(l) |-> Judge(WithLeft(d, l, k - 1, Erased), l, k)],
             Erased)

GetChild(d, l, value) ==
    LET d0 == Entered(d, l)
    IN  CheckLeaving(IF value = 1 THEN Joined(CountEdge(d0, l), l) ELSE d0, l)

Child(value) ==
    /\ verdict = "go"
    /\ Follow(GetChild(data, level, value), value, "zero")
-----------------------------------------------------------------------------
IsDirectedCycle(F) ==
    Cardinality(F) \in 1..N /\ \E p \in Orders(Cardinality(F)) : Pairs(F) = Circuit(p)

(***************************************************************************)
(* Each terminal getChild returns is right: 1 exactly when the edges taken *)
(* form one directed cycle, 0 only when no choice of the remaining edges   *)
(* can complete one.                                                       *)
(***************************************************************************)
CycleVerdictRight == VerdictRight(IsDirectedCycle)
=============================================================================
