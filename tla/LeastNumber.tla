---------------------------- MODULE LeastNumber ----------------------------
(***************************************************************************)
(* The least-number principle as a fact about sets.  It is what the proofs *)
(* use for induction: a counterexample to P, if there is one, is taken to  *)
(* be the smallest.                                                        *)
(***************************************************************************)
EXTENDS Integers, WellFoundedInduction, TLAPS

\* Every non-empty set of numbers has a least element.
THEOREM LeastElement ==
    ASSUME NEW T \in SUBSET Nat, T # {}
    PROVE  \E x \in T : \A y \in T : x <= y
<1>1. PICK x \in T : \A y \in T : <<y, x>> \notin OpToRel(<, Nat)
    BY WFMin, NatLessThanWellFounded
<1>2. OpToRel(<, Nat) = {ss \in Nat \X Nat : ss[1] < ss[2]}
    BY Zenon DEF OpToRel
<1>3. \A y \in T : <<y, x>> \notin {ss \in Nat \X Nat : ss[1] < ss[2]}
    BY <1>1, <1>2, Zenon
<1>4. ASSUME NEW y \in T PROVE x <= y
    <2>1. y \in Nat /\ x \in Nat
        OBVIOUS
    <2>2. <<y, x>> \in Nat \X Nat /\ <<y, x>>[1] = y /\ <<y, x>>[2] = x
        BY <2>1
    <2>3. ~ (<<y, x>>[1] < <<y, x>>[2])
        BY <1>3, <2>2, Zenon
    <2> QED
        BY <2>1, <2>2, <2>3
<1> QED
    BY <1>4

\* Every non-empty set of numbers up to m has a greatest element.
THEOREM GreatestElement ==
    ASSUME NEW m \in Nat, NEW T \in SUBSET (0..m), T # {}
    PROVE  \E x \in T : \A y \in T : y <= x
<1> DEFINE U == {k \in 0..m : m - k \in T}
<1>1. U \in SUBSET Nat /\ U # {}
    <2>1. PICK y \in T : TRUE
        OBVIOUS
    <2>2. m - y \in 0..m /\ m - (m - y) = y
        OBVIOUS
    <2>3. m - y \in U
        BY <2>2
    <2>4. \A k \in U : k \in Nat
        OBVIOUS
    <2> QED
        BY <2>3, <2>4, Zenon
<1>2. PICK k \in U : \A x \in U : k <= x
    BY <1>1, LeastElement
<1>3. ASSUME NEW y \in T PROVE y <= m - k
    <2>1. m - y \in U
        OBVIOUS
    <2> QED
        BY <1>2, <2>1
<1> QED
    BY <1>2, <1>3

\* Induction: what passes from every number to the next holds up to m.
THEOREM InductionTo ==
    ASSUME NEW m \in Nat, NEW S \in SUBSET Nat, 0 \in S,
           \A n \in 0..(m - 1) : n \in S => n + 1 \in S
    PROVE  0..m \subseteq S
<1> SUFFICES ASSUME (0..m) \ S # {} PROVE FALSE
    OBVIOUS
<1>1. PICK x \in (0..m) \ S : \A y \in (0..m) \ S : x <= y
    <2>1. (0..m) \ S \in SUBSET Nat
        OBVIOUS
    <2> QED
        BY <2>1, LeastElement, Zenon
<1>2. x \in Nat /\ x # 0 /\ x - 1 \in 0..(m - 1) /\ x - 1 + 1 = x
    BY <1>1
<1>3. x - 1 \in S
    BY <1>1, <1>2
<1> QED
    BY <1>1, <1>2, <1>3
=============================================================================
