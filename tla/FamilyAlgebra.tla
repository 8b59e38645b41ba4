---------------------------- MODULE FamilyAlgebra ----------------------------
(***************************************************************************)
(* The algebra of families of sets, defined element by element (Knuth, The *)
(* Art of Computer Programming 7.1.4, exercises 203-236): what the         *)
(* recursive algorithms on diagrams are compared with.  Nothing here is    *)
(* translated from the code.                                               *)
(***************************************************************************)
EXTENDS Integers, FiniteSets, FiniteSetsExt, Functions

Joined(f, g) == {s \cup t : s \in f, t \in g}
Met(f, g) == {s \cap t : s \in f, t \in g}

\* The largest family whose join with g, made of disjoint pairs, is in f.
Quotient(elems, f, g) ==
    {q \in SUBSET elems : \A t \in g : q \cap t = {} /\ q \cup t \in f}
Remainder(elems, f, g) == f \ Joined(Quotient(elems, f, g), g)

Minimal(f) == {s \in f : \A t \in f : t \subseteq s => t = s}
Maximal(f) == {s \in f : \A t \in f : s \subseteq t => t = s}
Transversals(elems, f) == {h \in SUBSET elems : \A s \in f : h \cap s # {}}

SubsetsOf(f, g) == {s \in f : \E t \in g : s \subseteq t}
SupersetsOf(f, g) == {s \in f : \E t \in g : t \subseteq s}

Flipped(f, s) == {SymDiff(x, s) : x \in f}
Exchange(s, v, w) ==
    {IF x = v THEN w ELSE IF x = w THEN v ELSE x : x \in s}
Symmetric(f, v, w) == {Exchange(s, v, w) : s \in f} = f
Implies(f, v, w) == \A s \in f : v \in s => w \in s
\* Wherever v can stand without w, it can be replaced by w.
CoImplies(f, v, w) ==
    \A s \in f : v \in s /\ w \notin s => Exchange(s, v, w) \in f
Common(f) == {v \in UNION f : \A s \in f : v \in s}

\* Weights are functions from the elements.
Weight(s, w) == SumFunctionOnSet(w, s)
\* The probability that a random set is in f, times a power of `unit`, when
\* element e is taken with probability p[e] / unit.
Likelihood(elems, f, p, unit) ==
    LET of(s) == FoldFunction(LAMBDA a, b : a * b, 1,
                              [e \in elems |-> IF e \in s THEN p[e] ELSE unit - p[e]])
    IN  MapThenSumSet(of, f)
=============================================================================
