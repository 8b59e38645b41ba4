------------------------------ MODULE MCSetsets ------------------------------
(***************************************************************************)
(* All families over a few elements, with second operands of few sets.     *)
(***************************************************************************)
EXTENDS Setsets

CONSTANT MaxOthers  \* how many sets a second operand has at most

MCLevel(e) == IF e = 0 THEN 0 ELSE NumElems + 1 - e

MCOthers == {g \in SUBSET SUBSET Elems : Cardinality(g) <= MaxOthers}

\* Falling, rising and mixed weights; sums coincide.
MCWeights == {[e \in Elems |-> 2 - e], [e \in Elems |-> 1], [e \in Elems |-> (2 * e) % 3]}
=============================================================================
