----------------------------- MODULE RefCounts -----------------------------
(***************************************************************************)
(* What B_RFC_INC_NP and B_RFC_DEC_NP promise: each node has a reference   *)
(* count of its own that goes up and down by one, however large it is.     *)
(***************************************************************************)
EXTENDS Integers

CONSTANT Nodes  \* the nodes, by their index in Node

VARIABLE count

Init == count = [n \in Nodes |-> 0]
Inc(n) == count' = [count EXCEPT ![n] = @ + 1]
Dec(n) == count[n] > 0 /\ count' = [count EXCEPT ![n] = @ - 1]
Next == \E n \in Nodes : Inc(n) \/ Dec(n)
Spec == Init /\ [][Next]_count
=============================================================================
