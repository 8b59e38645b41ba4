--------------------------- MODULE DirectedSTPath ---------------------------
(***************************************************************************)
(* FrontierDirectedSTPathSpec: the directed paths from s to t, through     *)
(* every vertex if isHamiltonian (SearchDirectedSTPath).                   *)
(***************************************************************************)
EXTENDS FrontierSearch

VARIABLES s, t, isHamiltonian   \* s_, t_ and isHamiltonian_

EnteredLevel(v) == M - VerticesEnteringLevel(v) + 1
MinEnteredLevel == M - AllVerticesEnteringLevel + 1

DegreeOK(d, v) ==
    LET isolated == Indeg(d, v) = 0 /\ Outdeg(d, v) = 0
        passed == Indeg(d, v) = 1 /\ Outdeg(d, v) = 1
    IN  IF v = s THEN Outdeg(d, v) = 1 /\ Indeg(d, v) = 0
        ELSE IF v = t THEN Indeg(d, v) = 1 /\ Outdeg(d, v) = 0
        ELSE passed \/ (~isHamiltonian /\ isolated)

EndpointExists(l, k) == Others(l, k) \cap {s, t} # {}

\* Mutation: whether s and t have entered is not looked at.
CompletedAtOnce(l, k) ==
    IF isHamiltonian /\ (l > MinEnteredLevel \/ Others(l, k) # {}) THEN "zero" ELSE "one"

\* A component is complete and it is the only one: whether it is a path.
Completed(l, k) ==
    LET tooEarly == IF isHamiltonian
                    THEN l > MinEnteredLevel \/ Others(l, k) # {}
                    ELSE l > EnteredLevel(s) \/ l > EnteredLevel(t)
    IN  IF tooEarly THEN "zero" ELSE "one"

\* The check of the k-th leaving vertex.
Judge(d, l, k) ==
    LET v == Leaving(l)[k]
    IN  IF ~DegreeOK(d, v) THEN "zero"
        ELSE IF SameCompFound(d, l, k) \/ Degree(d, v) = 0 THEN "go"
        ELSE IF NonisolatedFound(d, l, k) \/ EndpointExists(l, k) THEN "zero"
        ELSE Completed(l, k)

\* The vertices that leave at the level are checked, one after the other.
CheckLeaving(d, l) ==
    LeaveAll(d, l, [k \in DOMAIN Leaving(l) |-> Judge(WithLeft(d, l, k - 1, Erased), l, k)],
             Erased)

GetChild(d, l, value) ==
    LET d0 == Entered(d, l)
    IN  CheckLeaving(IF value = 1 THEN Joined(CountEdge(d0, l), l) ELSE d0, l)

Child(value) ==
    /\ verdict = "go"
    /\ Follow(GetChild(data, level, value), value, "zero")
-----------------------------------------------------------------------------
\* A walk of k - 1 steps that visits k vertices visits none of them twice.
IsSTPath(F) ==
    LET k == Cardinality(F) + 1
    IN  /\ s # t
        /\ {s, t} \subseteq Ends(F)
        /\ Cardinality(Ends(F)) = k
        /\ isHamiltonian => k = N
        /\ \E p \in [1..k -> Ends(F)] : p[1] = s /\ p[k] = t /\ Pairs(F) = Steps(p)

(***************************************************************************)
(* Each terminal getChild returns is right: 1 exactly for one simple       *)
(* directed path from s to t (through all vertices if Hamiltonian) and no  *)
(* other edge; cycles beside the path, paths that end elsewhere and paths  *)
(* closed before s or t has entered the frontier are all refused, and a    *)
(* choice that a path still completes is never refused.                    *)
(***************************************************************************)
PathVerdictRight == VerdictRight(IsSTPath)
=============================================================================
