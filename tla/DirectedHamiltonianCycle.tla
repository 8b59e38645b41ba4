---------------------- MODULE DirectedHamiltonianCycle ----------------------
(***************************************************************************)
(* FrontierDirectedSingleHamiltonianCycleSpec: the directed cycles through *)
(* every vertex (SearchDirectedHamiltonianCycles).                         *)
(***************************************************************************)
EXTENDS FrontierSearch

\* all_entered_level_ is the level of the last edge at which a vertex enters.
AllEnteredLevel == M - AllVerticesEnteringLevel + 1

\* Some vertices have not entered the frontier yet.
Unentered(l) == l > AllEnteredLevel

\* The check of the k-th leaving vertex.  (The assert() there is compiled out
\* of the extension.)
Judge(d, l, k) ==
    LET v == Leaving(l)[k]
        isolated == Indeg(d, v) = 0 /\ Outdeg(d, v) = 0
        passed == Indeg(d, v) = 1 /\ Outdeg(d, v) = 1
    IN  IF ~(isolated \/ passed) THEN "zero"
        ELSE IF SameCompFound(d, l, k) THEN "go"
        ELSE IF \/ NonisolatedFound(d, l, k)
                \/ Others(l, k) # {}
                \/ Unentered(l)
             THEN "zero"
        ELSE "one"

\* The vertices that leave at the level are checked, one after the other.
CheckLeaving(d, l) ==
    LeaveAll(d, l, [k \in DOMAIN Leaving(l) |-> Judge(WithLeft(d, l, k - 1, Erased), l, k)],
             Erased)

GetChild(d, l, value) ==
    LET d0 == Entered(d, l)
    IN  CheckLeaving(IF value = 1 THEN Joined(CountEdge(d0, l), l) ELSE d0, l)

Child(value) ==
    /\ verdict = "go"
    /\ Follow(GetChild(data, level, value), value, "zero")
-----------------------------------------------------------------------------
IsHamiltonianCycle(F) == 
    Cardinality(F) = N /\ \E p \in Orders(N) : Pairs(F) = Circuit(p)

(***************************************************************************)
(* Each terminal getChild returns is right: 1 exactly for one directed     *)
(* cycle through every vertex of the graph, those still to enter the       *)
(* frontier included, 0 only when no completion is one.                    *)
(***************************************************************************)
HamVerdictRight == VerdictRight(IsHamiltonianCycle)
=============================================================================
