---------------------------- MODULE FamilyProofs ----------------------------
(***************************************************************************)
(* What the recursions of ZBDD.cc and zdd.cc compute, for every universe.  *)
(*                                                                         *)
(* For each of them there is a lemma, ...Steps: if the inner calls, on     *)
(* families over fewer elements, are answered by the algebra of            *)
(* FamilyAlgebra, so is the call.  It is used twice.  The function of the  *)
(* algebra satisfies the equation of the recursion, so the recursion       *)
(* defines a function; and by induction on the set of elements that        *)
(* function is no other.                                                   *)
(***************************************************************************)
EXTENDS FamilyAlgebra, ZddAlgorithms, FiniteSetTheorems, LeastNumber, TLAPS

\* The families over a set of elements.
Families(S) == SUBSET SUBSET S

\* Induction on finite sets: what holds of S if it holds of S without one of
\* its elements, whichever, holds of V.
LEMMA SetInduction ==
    ASSUME NEW V, IsFiniteSet(V), NEW Good,
           \A S \in SUBSET V : (\A t \in S : S \ {t} \in Good) => S \in Good
    PROVE  V \in Good
<1> DEFINE Bad == {S \in SUBSET V : S \notin Good}
           Sizes == {Cardinality(S) : S \in Bad}
<1>1. \A S \in SUBSET V : IsFiniteSet(S) /\ Cardinality(S) \in Nat
    BY FS_Subset, FS_CardinalityType
<1> SUFFICES ASSUME V \notin Good PROVE FALSE
    OBVIOUS
<1>2. Sizes \in SUBSET Nat /\ Sizes # {}
    <2>1. V \in Bad
        OBVIOUS
    <2> QED
        BY <1>1, <2>1
<1>3. PICK n \in Sizes : \A m \in Sizes : n <= m
    BY <1>2, LeastElement
<1>4. PICK S \in Bad : Cardinality(S) = n
    BY <1>3
<1>5. ASSUME NEW t \in S PROVE S \ {t} \in Good
    <2>1. Cardinality(S \ {t}) = Cardinality(S) - 1
        BY <1>1, FS_RemoveElement
    <2>2. S \ {t} \in SUBSET V
        OBVIOUS
    <2>3. ASSUME S \ {t} \in Bad PROVE FALSE
        <3>1. Cardinality(S \ {t}) \in Sizes
            BY <2>3
        <3>2. n <= Cardinality(S \ {t}) /\ Cardinality(S) \in Nat
            BY <1>1, <1>3, <3>1
        <3> QED
            BY <1>4, <2>1, <3>2
    <2> QED
        BY <2>2, <2>3
<1> QED
    BY <1>5
-----------------------------------------------------------------------------
(***************************************************************************)
(* Tops and cofactors                                                      *)
(***************************************************************************)
LEMMA ElemFacts ==
    /\ IsFiniteSet(Elems)
    /\ \A e \in Elems : e \in Nat /\ e # 0 /\ Level(e) \in Nat /\ Level(e) > 0
    /\ \A e, d \in Elems : (Level(d) <= Level(e) <=> e <= d) /\ (Level(e) = Level(d) <=> e = d)
<1>1. IsFiniteSet(Elems)
    BY LevelAssumption, FS_Interval DEF Elems
<1>2. \A e \in Elems : e \in Nat /\ e # 0 /\ e <= NumElems /\ Level(e) = NumElems + 1 - e
    BY LevelAssumption DEF Elems
<1> QED
    BY <1>1, <1>2, LevelAssumption

LEMMA EmptyUnit == Empty # Unit
    BY DEF Empty, Unit

LEMMA SupportFacts ==
    ASSUME NEW S, NEW f \in Families(S)
    PROVE  /\ Support(f) \in SUBSET S
           /\ Support(f) = {} <=> f \in {Empty, Unit}
           /\ \A v : v \in Support(f) <=> \E s \in f : v \in s
<1>1. Support(f) \in SUBSET S /\ \A v : v \in Support(f) <=> \E s \in f : v \in s
    BY DEF Families, Support
<1>2. ASSUME Support(f) = {} PROVE f \in {Empty, Unit}
    <2>1. \A s \in f : s = {}
        BY <1>1, <1>2
    <2> QED
        BY <2>1 DEF Empty, Unit
<1>3. ASSUME f \in {Empty, Unit} PROVE Support(f) = {}
    BY <1>3 DEF Empty, Unit, Support
<1> QED
    BY <1>1, <1>2, <1>3

\* The top variable is the smallest element.
LEMMA TopFacts ==
    ASSUME NEW f \in Families(Elems)
    PROVE  /\ f \in {Empty, Unit} => Top(f) = 0 /\ Support(f) = {}
           /\ f \notin {Empty, Unit} =>
                /\ Top(f) \in Support(f)
                /\ Top(f) \in Elems
                /\ \A w \in Support(f) : Top(f) <= w /\ Level(w) <= Level(Top(f))
<1>1. /\ Support(f) \in SUBSET Elems
      /\ Support(f) = {} <=> f \in {Empty, Unit}
    BY SupportFacts
<1>2. ASSUME f \in {Empty, Unit} PROVE Top(f) = 0 /\ Support(f) = {}
    BY <1>1, <1>2 DEF Top
<1>3. ASSUME f \notin {Empty, Unit}
      PROVE  /\ Top(f) \in Support(f)
             /\ Top(f) \in Elems
             /\ \A w \in Support(f) : Top(f) <= w /\ Level(w) <= Level(Top(f))
    <2>1. Support(f) # {} /\ Support(f) \in SUBSET Nat
        BY <1>1, <1>3, ElemFacts
    <2>2. PICK v \in Support(f) : \A w \in Support(f) : v <= w
        BY <2>1, LeastElement
    <2>3. \A w \in Support(f) : Level(w) <= Level(v)
        BY <1>1, <2>2, ElemFacts
    <2>4. Top(f) \in Support(f) /\ \A w \in Support(f) : Level(w) <= Level(Top(f))
        BY <2>1, <2>3, Zenon DEF Top
    <2> QED
        BY <1>1, <2>4, ElemFacts
<1> QED
    BY <1>2, <1>3

LEMMA HigherFacts ==
    ASSUME NEW f \in Families(Elems), NEW g \in Families(Elems),
           ~(f \in {Empty, Unit} /\ g \in {Empty, Unit})
    PROVE  /\ HigherOf(Top(f), Top(g)) \in Support(f) \cup Support(g)
           /\ \A w \in Support(f) \cup Support(g) : HigherOf(Top(f), Top(g)) <= w
    BY TopFacts, ElemFacts, SupportFacts, LevelAssumption DEF HigherOf

LEMMA OffSetIn == \A f, v, s : s \in OffSet(f, v) <=> s \in f /\ v \notin s
    BY DEF OffSet

LEMMA OnSet0In == \A f, v, s : s \in OnSet0(f, v) <=> v \notin s /\ s \cup {v} \in f
<1>1. ASSUME NEW f, NEW v, NEW s \in OnSet0(f, v) PROVE v \notin s /\ s \cup {v} \in f
    <2>1. PICK x \in f : v \in x /\ s = x \ {v}
        BY DEF OnSet0
    <2>2. s \cup {v} = x
        BY <2>1
    <2> QED
        BY <2>1, <2>2
<1>2. ASSUME NEW f, NEW v, NEW s, v \notin s, s \cup {v} \in f PROVE s \in OnSet0(f, v)
    <2>1. s = (s \cup {v}) \ {v}
        BY <1>2
    <2> QED
        BY <1>2, <2>1 DEF OnSet0
<1> QED
    BY <1>1, <1>2

LEMMA CofactorFacts ==
    ASSUME NEW S, NEW f \in Families(S), NEW v
    PROVE  /\ OffSet(f, v) \in Families(S \ {v})
           /\ OnSet0(f, v) \in Families(S \ {v})
           /\ Support(OffSet(f, v)) \subseteq Support(f)
           /\ Support(OnSet0(f, v)) \subseteq Support(f)
<1>1. OffSet(f, v) \in Families(S \ {v}) /\ OnSet0(f, v) \in Families(S \ {v})
    <2>1. \A x \in f : \A e \in x : e \in S
        BY DEF Families
    <2>2. \A x \in OffSet(f, v) : \A e \in x : e \in S \ {v}
        BY <2>1, OffSetIn
    <2>3. \A x \in OnSet0(f, v) : v \notin x /\ x \cup {v} \in f
        BY OnSet0In
    <2>4. \A x \in OnSet0(f, v) : \A e \in x : e \in S \ {v}
        BY <2>1, <2>3
    <2> QED
        BY <2>2, <2>4 DEF Families
<1>2. Support(OffSet(f, v)) \subseteq Support(f) /\ Support(OnSet0(f, v)) \subseteq Support(f)
    <2>1. \A x \in OffSet(f, v) : x \in f
        BY OffSetIn
    <2>2. \A x \in OnSet0(f, v) : x \cup {v} \in f
        BY OnSet0In
    <2>3. Support(OffSet(f, v)) \subseteq Support(f)
        BY <2>1 DEF Support
    <2>4. \A x \in OnSet0(f, v) : \A e \in x : e \in UNION f
        BY <2>2
    <2> QED
        BY <2>3, <2>4 DEF Support
<1> QED
    BY <1>1, <1>2

LEMMA ChangeFacts ==
    ASSUME NEW S, NEW v, NEW f \in Families(S \ {v})
    PROVE  \A s : s \in Change(f, v) <=> v \in s /\ s \ {v} \in f
<1>1. \A x \in f : v \notin x
    BY DEF Families
<1>2. ASSUME NEW s \in Change(f, v) PROVE v \in s /\ s \ {v} \in f
    <2>1. PICK x \in f : s = x \cup {v}
        BY <1>1 DEF Change
    <2>2. s \ {v} = x
        BY <1>1, <2>1
    <2> QED
        BY <2>1, <2>2
<1>3. ASSUME NEW s, v \in s, s \ {v} \in f PROVE s \in Change(f, v)
    <2>1. s = (s \ {v}) \cup {v}
        BY <1>3
    <2> QED
        BY <1>1, <1>3, <2>1 DEF Change
<1> QED
    BY <1>2, <1>3

\* A family from its cofactors.
LEMMA Split ==
    \A f, v, s : s \in f <=> IF v \in s THEN s \ {v} \in OnSet0(f, v) ELSE s \in OffSet(f, v)
<1>1. ASSUME NEW f, NEW v, NEW s, v \in s PROVE s \in f <=> s \ {v} \in OnSet0(f, v)
    <2>1. (s \ {v}) \cup {v} = s
        BY <1>1
    <2> QED
        BY <2>1, OnSet0In
<1> QED
    BY <1>1, OffSetIn

LEMMA OnSet0Has == \A f, v : \A t \in f : v \in t => t \ {v} \in OnSet0(f, v)
    BY Split

\* A family is made of its cofactors.
LEMMA Rebuilt ==
    ASSUME NEW S, NEW f \in Families(S), NEW v
    PROVE  Change(OnSet0(f, v), v) \cup OffSet(f, v) = f
<1>1. OnSet0(f, v) \in Families(S \ {v})
    BY CofactorFacts
<1>2. \A s : s \in Change(OnSet0(f, v), v) <=> v \in s /\ s \ {v} \in OnSet0(f, v)
    BY <1>1, ChangeFacts
<1> QED
    BY <1>2, OffSetIn, Split

\* The families over fewer elements are among those over more.
LEMMA Fewer ==
    ASSUME NEW S, NEW T \in SUBSET S
    PROVE  Families(T) \subseteq Families(S)
    BY DEF Families

LEMMA OperandFacts ==
    ASSUME NEW f \in Families(Elems), NEW g \in Families(Elems),
           NEW V, V = Support(f) \cup Support(g)
    PROVE  /\ V \in SUBSET Elems /\ IsFiniteSet(V)
           /\ f \in Families(V) /\ g \in Families(V)
           /\ Over(f, g) = Families(V)
<1>1. V \in SUBSET Elems
    BY SupportFacts
<1>2. IsFiniteSet(V)
    BY <1>1, ElemFacts, FS_Subset
<1>3. f \in Families(V) /\ g \in Families(V)
    BY DEF Families, Support
<1>4. Over(f, g) = Families(V)
    BY DEF Families, Over
<1> QED
    BY <1>1, <1>2, <1>3, <1>4

\* The functions found and ref give the same for families over S.
AgreeOnPairs(found, ref, S) == \A a, b \in Families(S) : found[<<a, b>>] = ref[<<a, b>>]
AgreeOn(found, ref, S) == \A a \in Families(S) : found[a] = ref[a]

\* What a function gives is told by what it gives for families over fewer
\* elements.
LEMMA PairInduction ==
    ASSUME NEW V, IsFiniteSet(V), NEW found, NEW ref,
           \A S \in SUBSET V :
               (\A t \in S : AgreeOnPairs(found, ref, S \ {t})) => AgreeOnPairs(found, ref, S)
    PROVE  AgreeOnPairs(found, ref, V)
<1> DEFINE Good == {S \in SUBSET V : AgreeOnPairs(found, ref, S)}
<1>1. \A S \in SUBSET V : (\A t \in S : S \ {t} \in Good) => S \in Good
    OBVIOUS
<1> HIDE DEF Good
<1>2. V \in Good
    BY <1>1, SetInduction
<1> QED
    BY <1>2 DEF Good

LEMMA FamilyInduction ==
    ASSUME NEW V, IsFiniteSet(V), NEW found, NEW ref,
           \A S \in SUBSET V :
               (\A t \in S : AgreeOn(found, ref, S \ {t})) => AgreeOn(found, ref, S)
    PROVE  AgreeOn(found, ref, V)
<1> DEFINE Good == {S \in SUBSET V : AgreeOn(found, ref, S)}
<1>1. \A S \in SUBSET V : (\A t \in S : S \ {t} \in Good) => S \in Good
    OBVIOUS
<1> HIDE DEF Good
<1>2. V \in Good
    BY <1>1, SetInduction
<1> QED
    BY <1>2 DEF Good
-----------------------------------------------------------------------------
(***************************************************************************)
(* Filters                                                                 *)
(***************************************************************************)
\* g has a set within s, or around it.
Inside(g, s) == \E t \in g : t \subseteq s
Covering(g, s) == \E t \in g : s \subseteq t

LEMMA SupersetsIn == \A f, g, s : s \in SupersetsOf(f, g) <=> s \in f /\ Inside(g, s)
    BY DEF SupersetsOf, Inside

LEMMA InsideSplit ==
    ASSUME NEW g, NEW v, NEW s, v \notin s
    PROVE  /\ Inside(g, s \cup {v}) <=> Inside(OnSet0(g, v) \cup OffSet(g, v), s)
           /\ Inside(g, s) <=> Inside(OffSet(g, v), s)
<1>1. ASSUME NEW t \in g, t \subseteq s \cup {v}
      PROVE  \E u \in OnSet0(g, v) \cup OffSet(g, v) : u \subseteq s
    <2>1. CASE v \in t
        <3>1. t \ {v} \in OnSet0(g, v) /\ t \ {v} \subseteq s
            BY <1>1, <2>1, Split
        <3> QED
            BY <3>1
    <2>2. CASE v \notin t
        BY <1>1, <2>2, OffSetIn
    <2> QED
        BY <2>1, <2>2
<1>2. ASSUME NEW t \in OnSet0(g, v) \cup OffSet(g, v), t \subseteq s
      PROVE  \E u \in g : u \subseteq s \cup {v}
    <2>1. t \cup {v} \in g \/ t \in g
        BY <1>2, OnSet0In, OffSetIn
    <2> QED
        BY <1>2, <2>1
<1> QED
    BY <1>1, <1>2, OffSetIn DEF Inside

\* The sets of f that contain a set of g, from the cofactors.
LEMMA SupersetsSplit ==
    ASSUME NEW f, NEW g, NEW v
    PROVE  /\ OnSet0(SupersetsOf(f, g), v)
                = SupersetsOf(OnSet0(f, v), OnSet0(g, v) \cup OffSet(g, v))
           /\ OffSet(SupersetsOf(f, g), v) = SupersetsOf(OffSet(f, v), OffSet(g, v))
<1>1. ASSUME NEW s
      PROVE  s \in OnSet0(SupersetsOf(f, g), v)
                <=> s \in SupersetsOf(OnSet0(f, v), OnSet0(g, v) \cup OffSet(g, v))
    <2>1. /\ s \in OnSet0(SupersetsOf(f, g), v)
                <=> v \notin s /\ s \cup {v} \in SupersetsOf(f, g)
          /\ s \in OnSet0(f, v) <=> v \notin s /\ s \cup {v} \in f
        BY OnSet0In, Zenon
    <2>2. v \notin s => (Inside(g, s \cup {v}) <=> Inside(OnSet0(g, v) \cup OffSet(g, v), s))
        BY InsideSplit, Zenon
    <2> QED
        BY <2>1, <2>2, SupersetsIn
<1>2. ASSUME NEW s
      PROVE  s \in OffSet(SupersetsOf(f, g), v) <=> s \in SupersetsOf(OffSet(f, v), OffSet(g, v))
    <2>1. v \notin s => (Inside(g, s) <=> Inside(OffSet(g, v), s))
        BY InsideSplit, Zenon
    <2> QED
        BY <2>1, OffSetIn, SupersetsIn
<1> QED
    BY <1>1, <1>2

LEMMA RestrictSteps ==
    ASSUME NEW S \in SUBSET Elems, NEW r,
           \A t \in S : \A a, b \in Families(S \ {t}) : r[<<a, b>>] = SupersetsOf(a, b),
           NEW f \in Families(S), NEW g \in Families(S)
    PROVE  RestrictStep(r, f, g) = SupersetsOf(f, g)
<1>1. CASE f = Empty \/ g = Empty
    BY <1>1 DEF RestrictStep, SupersetsOf, Empty
<1>2. CASE f # Empty /\ g # Empty /\ f = g
    BY <1>2 DEF RestrictStep, SupersetsOf
<1>3. CASE f # Empty /\ g # Empty /\ f # g /\ {} \in g
    BY <1>3 DEF RestrictStep, SupersetsOf
<1>4. CASE f # Empty /\ g # Empty /\ f # g /\ {} \notin g
    <2> DEFINE h == f \ Unit
               top == HigherOf(Top(h), Top(g))
               g0 == OffSet(g, top)
               g1 == OnSet0(g, top)
    <2>1. /\ h \in Families(S) /\ h \in Families(Elems)
          /\ f \in Families(Elems) /\ g \in Families(Elems) /\ g \notin {Empty, Unit}
        BY <1>4 DEF Families, Unit
    <2>2. top \in S
        BY <2>1, HigherFacts, SupportFacts
    <2>3. SupersetsOf(f, g) = SupersetsOf(h, g)
        <3>1. \A s \in f : (\E t \in g : t \subseteq s) => s # {}
            BY <1>4
        <3> QED
            BY <3>1 DEF SupersetsOf, Unit
    <2>4. RestrictStep(r, f, g)
            = Change(r[<<OnSet0(h, top), g1 \cup g0>>], top) \cup r[<<OffSet(h, top), g0>>]
        BY <1>4 DEF RestrictStep
    <2> HIDE DEF h, top, g0, g1
    <2>5. /\ g0 \in Families(S \ {top}) /\ g1 \in Families(S \ {top})
          /\ OffSet(h, top) \in Families(S \ {top}) /\ OnSet0(h, top) \in Families(S \ {top})
        BY <2>1, CofactorFacts DEF g0, g1
    <2>6. g1 \cup g0 \in Families(S \ {top})
        BY <2>5 DEF Families
    <2>7. /\ r[<<OnSet0(h, top), g1 \cup g0>>] = SupersetsOf(OnSet0(h, top), g1 \cup g0)
          /\ r[<<OffSet(h, top), g0>>] = SupersetsOf(OffSet(h, top), g0)
        BY <2>2, <2>5, <2>6
    <2>8. /\ SupersetsOf(OnSet0(h, top), g1 \cup g0) = OnSet0(SupersetsOf(h, g), top)
          /\ SupersetsOf(OffSet(h, top), g0) = OffSet(SupersetsOf(h, g), top)
        BY <2>1, SupersetsSplit DEF g0, g1
    <2>9. SupersetsOf(h, g) \in Families(S)
        BY <2>1 DEF Families, SupersetsOf
    <2> QED
        BY <2>3, <2>4, <2>7, <2>8, <2>9, Rebuilt
<1> QED
    BY <1>1, <1>2, <1>3, <1>4

\* restrict() selects the sets that contain a set of the other operand.
LEMMA RestrictIs ==
    ASSUME NEW f \in Families(Elems), NEW g \in Families(Elems)
    PROVE  RestrictBy(f, g) = SupersetsOf(f, g)
<1> DEFINE V == Support(f) \cup Support(g)
           ref == [p \in Pairs(f, g) |-> SupersetsOf(p[1], p[2])]
           found == CHOOSE h : h = [p \in Pairs(f, g) |-> RestrictStep(h, p[1], p[2])]
<1>1. /\ V \in SUBSET Elems /\ IsFiniteSet(V) /\ f \in Families(V) /\ g \in Families(V)
      /\ Pairs(f, g) = Families(V) \X Families(V)
    BY OperandFacts DEF Pairs
<1>2. \A a, b \in Families(V) : ref[<<a, b>>] = SupersetsOf(a, b)
    BY <1>1
<1>3. \A S \in SUBSET V : \A t \in S : Families(S) \subseteq Families(V)
                                     /\ Families(S \ {t}) \subseteq Families(V)
    BY Fewer
<1> HIDE DEF V, ref
<1>4. ASSUME NEW h, NEW S \in SUBSET V, NEW a \in Families(S), NEW b \in Families(S),
             \A t \in S : AgreeOnPairs(h, ref, S \ {t})
      PROVE  RestrictStep(h, a, b) = SupersetsOf(a, b)
    <2>1. \A t \in S : \A x, y \in Families(S \ {t}) : h[<<x, y>>] = SupersetsOf(x, y)
        BY <1>2, <1>3, <1>4 DEF AgreeOnPairs
    <2> QED
        BY <1>1, <2>1, RestrictSteps
<1>5. ref = [p \in Pairs(f, g) |-> RestrictStep(ref, p[1], p[2])]
    <2>1. \A a, b \in Families(V) : RestrictStep(ref, a, b) = SupersetsOf(a, b)
        BY <1>4, V \in SUBSET V DEF AgreeOnPairs
    <2> QED
        BY <1>1, <2>1 DEF ref
<1>6. found = [p \in Pairs(f, g) |-> RestrictStep(found, p[1], p[2])]
    BY <1>5, Zenon
<1> HIDE DEF found
<1>7. \A a, b \in Families(V) : found[<<a, b>>] = RestrictStep(found, a, b)
    BY <1>1, <1>6
<1>8. ASSUME NEW S \in SUBSET V, \A t \in S : AgreeOnPairs(found, ref, S \ {t})
      PROVE  AgreeOnPairs(found, ref, S)
    <2>1. \A a, b \in Families(S) : RestrictStep(found, a, b) = SupersetsOf(a, b)
        BY <1>4, <1>8
    <2>2. Families(S) \subseteq Families(V)
        BY Fewer
    <2> QED
        BY <1>2, <1>7, <2>1, <2>2 DEF AgreeOnPairs
<1>9. AgreeOnPairs(found, ref, V)
    BY <1>1, <1>8, PairInduction
<1>10. RestrictBy(f, g) = found[<<f, g>>]
    BY DEF RestrictBy, found
<1> QED
    BY <1>1, <1>2, <1>9, <1>10 DEF AgreeOnPairs

LEMMA SubsetsIn == \A f, g, s : s \in SubsetsOf(f, g) <=> s \in f /\ Covering(g, s)
    BY DEF SubsetsOf, Covering

LEMMA CoveringSplit ==
    ASSUME NEW g, NEW v, NEW s, v \notin s
    PROVE  /\ Covering(g, s \cup {v}) <=> Covering(OnSet0(g, v), s)
           /\ Covering(g, s) <=> Covering(OffSet(g, v) \cup OnSet0(g, v), s)
<1>1. ASSUME NEW t \in g, s \subseteq t, v \in t
      PROVE  t \ {v} \in OnSet0(g, v) /\ s \subseteq t \ {v}
    BY <1>1, Split
<1>2. ASSUME NEW t \in OnSet0(g, v), s \subseteq t
      PROVE  t \cup {v} \in g /\ s \cup {v} \subseteq t \cup {v}
    BY <1>2, OnSet0In
<1>3. Covering(g, s \cup {v}) <=> Covering(OnSet0(g, v), s)
    BY <1>1, <1>2 DEF Covering
<1>4. Covering(g, s) <=> Covering(OffSet(g, v) \cup OnSet0(g, v), s)
    <2>1. ASSUME NEW t \in g, s \subseteq t
          PROVE  \E u \in OffSet(g, v) \cup OnSet0(g, v) : s \subseteq u
        <3>1. CASE v \in t
            <4>1. t \ {v} \in OnSet0(g, v) /\ s \subseteq t \ {v}
                BY <1>1, <2>1, <3>1
            <4> QED
                BY <4>1
        <3>2. CASE v \notin t
            BY <2>1, <3>2, OffSetIn
        <3> QED
            BY <3>1, <3>2
    <2>2. ASSUME NEW t \in OffSet(g, v) \cup OnSet0(g, v), s \subseteq t
          PROVE  \E u \in g : s \subseteq u
        <3>1. t \in g \/ (t \cup {v} \in g /\ s \subseteq t \cup {v})
            BY <1>2, <2>2, OffSetIn
        <3> QED
            BY <2>2, <3>1
    <2> QED
        BY <2>1, <2>2 DEF Covering
<1> QED
    BY <1>3, <1>4

\* The sets of f that a set of g contains, from the cofactors.
LEMMA SubsetsSplit ==
    ASSUME NEW f, NEW g, NEW v
    PROVE  /\ OnSet0(SubsetsOf(f, g), v) = SubsetsOf(OnSet0(f, v), OnSet0(g, v))
           /\ OffSet(SubsetsOf(f, g), v)
                = SubsetsOf(OffSet(f, v), OffSet(g, v) \cup OnSet0(g, v))
<1>1. ASSUME NEW s
      PROVE  s \in OnSet0(SubsetsOf(f, g), v) <=> s \in SubsetsOf(OnSet0(f, v), OnSet0(g, v))
    <2>1. /\ s \in OnSet0(SubsetsOf(f, g), v) <=> v \notin s /\ s \cup {v} \in SubsetsOf(f, g)
          /\ s \in OnSet0(f, v) <=> v \notin s /\ s \cup {v} \in f
        BY OnSet0In, Zenon
    <2>2. v \notin s => (Covering(g, s \cup {v}) <=> Covering(OnSet0(g, v), s))
        BY CoveringSplit, Zenon
    <2> QED
        BY <2>1, <2>2, SubsetsIn
<1>2. ASSUME NEW s
      PROVE  s \in OffSet(SubsetsOf(f, g), v)
                <=> s \in SubsetsOf(OffSet(f, v), OffSet(g, v) \cup OnSet0(g, v))
    <2>1. v \notin s => (Covering(g, s) <=> Covering(OffSet(g, v) \cup OnSet0(g, v), s))
        BY CoveringSplit, Zenon
    <2> QED
        BY <2>1, OffSetIn, SubsetsIn
<1> QED
    BY <1>1, <1>2

LEMMA PermitSteps ==
    ASSUME NEW S \in SUBSET Elems, NEW r,
           \A t \in S : \A a, b \in Families(S \ {t}) : r[<<a, b>>] = SubsetsOf(a, b),
           NEW f \in Families(S), NEW g \in Families(S)
    PROVE  PermitStep(r, f, g) = SubsetsOf(f, g)
<1>1. CASE f = Empty \/ g = Empty
    <2>1. SubsetsOf(f, g) = Empty
        BY <1>1 DEF SubsetsOf, Empty
    <2> QED
        BY <1>1, <2>1, EmptyUnit DEF PermitStep, Empty
<1>2. CASE f # Empty /\ g # Empty /\ f = g
    BY <1>2 DEF PermitStep, SubsetsOf
<1>3. CASE f # Empty /\ g # Empty /\ f # g /\ g = Unit
    BY <1>3 DEF PermitStep, SubsetsOf, Unit, Empty
<1>4. CASE f # Empty /\ g # Empty /\ f # g /\ g # Unit /\ f = Unit
    BY <1>4 DEF PermitStep, SubsetsOf, Unit, Empty
<1>5. CASE f # Empty /\ g # Empty /\ f # g /\ g # Unit /\ f # Unit
    <2> DEFINE top == HigherOf(Top(f), Top(g))
               g0 == OffSet(g, top)
               g1 == OnSet0(g, top)
    <2>1. f \in Families(Elems) /\ g \in Families(Elems)
        BY DEF Families
    <2>2. top \in S
        BY <1>5, <2>1, HigherFacts, SupportFacts
    <2>3. PermitStep(r, f, g) = Change(r[<<OnSet0(f, top), g1>>], top)
                                  \cup r[<<OffSet(f, top), g0 \cup g1>>]
        BY <1>5 DEF PermitStep
    <2> HIDE DEF top, g0, g1
    <2>4. /\ g0 \in Families(S \ {top}) /\ g1 \in Families(S \ {top})
          /\ OffSet(f, top) \in Families(S \ {top}) /\ OnSet0(f, top) \in Families(S \ {top})
        BY CofactorFacts DEF g0, g1
    <2>5. g0 \cup g1 \in Families(S \ {top})
        BY <2>4 DEF Families
    <2>6. /\ r[<<OnSet0(f, top), g1>>] = SubsetsOf(OnSet0(f, top), g1)
          /\ r[<<OffSet(f, top), g0 \cup g1>>] = SubsetsOf(OffSet(f, top), g0 \cup g1)
        BY <2>2, <2>4, <2>5
    <2>7. /\ SubsetsOf(OnSet0(f, top), g1) = OnSet0(SubsetsOf(f, g), top)
          /\ SubsetsOf(OffSet(f, top), g0 \cup g1) = OffSet(SubsetsOf(f, g), top)
        BY SubsetsSplit DEF g0, g1
    <2>8. SubsetsOf(f, g) \in Families(S)
        BY DEF Families, SubsetsOf
    <2> QED
        BY <2>3, <2>6, <2>7, <2>8, Rebuilt
<1> QED
    BY <1>1, <1>2, <1>3, <1>4, <1>5

\* permit() selects the sets that are contained in a set of the other operand.
LEMMA PermitIs ==
    ASSUME NEW f \in Families(Elems), NEW g \in Families(Elems)
    PROVE  Permit(f, g) = SubsetsOf(f, g)
<1> DEFINE V == Support(f) \cup Support(g)
           ref == [p \in Pairs(f, g) |-> SubsetsOf(p[1], p[2])]
           found == CHOOSE h : h = [p \in Pairs(f, g) |-> PermitStep(h, p[1], p[2])]
<1>1. /\ V \in SUBSET Elems /\ IsFiniteSet(V) /\ f \in Families(V) /\ g \in Families(V)
      /\ Pairs(f, g) = Families(V) \X Families(V)
    BY OperandFacts DEF Pairs
<1>2. \A a, b \in Families(V) : ref[<<a, b>>] = SubsetsOf(a, b)
    BY <1>1
<1>3. \A S \in SUBSET V : \A t \in S : Families(S) \subseteq Families(V)
                                     /\ Families(S \ {t}) \subseteq Families(V)
    BY Fewer
<1> HIDE DEF V, ref
<1>4. ASSUME NEW h, NEW S \in SUBSET V, NEW a \in Families(S), NEW b \in Families(S),
             \A t \in S : AgreeOnPairs(h, ref, S \ {t})
      PROVE  PermitStep(h, a, b) = SubsetsOf(a, b)
    <2>1. \A t \in S : \A x, y \in Families(S \ {t}) : h[<<x, y>>] = SubsetsOf(x, y)
        BY <1>2, <1>3, <1>4 DEF AgreeOnPairs
    <2> QED
        BY <1>1, <2>1, PermitSteps
<1>5. ref = [p \in Pairs(f, g) |-> PermitStep(ref, p[1], p[2])]
    <2>1. \A a, b \in Families(V) : PermitStep(ref, a, b) = SubsetsOf(a, b)
        BY <1>4, V \in SUBSET V DEF AgreeOnPairs
    <2> QED
        BY <1>1, <2>1 DEF ref
<1>6. found = [p \in Pairs(f, g) |-> PermitStep(found, p[1], p[2])]
    BY <1>5, Zenon
<1> HIDE DEF found
<1>7. \A a, b \in Families(V) : found[<<a, b>>] = PermitStep(found, a, b)
    BY <1>1, <1>6
<1>8. ASSUME NEW S \in SUBSET V, \A t \in S : AgreeOnPairs(found, ref, S \ {t})
      PROVE  AgreeOnPairs(found, ref, S)
    <2>1. \A a, b \in Families(S) : PermitStep(found, a, b) = SubsetsOf(a, b)
        BY <1>4, <1>8
    <2>2. Families(S) \subseteq Families(V)
        BY Fewer
    <2> QED
        BY <1>2, <1>7, <2>1, <2>2 DEF AgreeOnPairs
<1>9. AgreeOnPairs(found, ref, V)
    BY <1>1, <1>8, PairInduction
<1>10. Permit(f, g) = found[<<f, g>>]
    BY DEF Permit, found
<1> QED
    BY <1>1, <1>2, <1>9, <1>10 DEF AgreeOnPairs
-----------------------------------------------------------------------------
(***************************************************************************)
(* Multiplication, division and meet                                       *)
(***************************************************************************)
LEMMA NotIn ==
    ASSUME NEW g, NEW v, v \notin Support(g)
    PROVE  OffSet(g, v) = g /\ OnSet0(g, v) = Empty
<1>1. \A s \in g : v \notin s
    BY DEF Support
<1>2. OffSet(g, v) = g
    BY <1>1 DEF OffSet
<1>3. OnSet0(g, v) = Empty
    BY <1>1 DEF OnSet0, Empty
<1> QED
    BY <1>2, <1>3

LEMMA OrderedFacts ==
    ASSUME NEW S \in SUBSET Elems, NEW fc \in Families(S), NEW gc \in Families(S),
           fc \notin {Empty, Unit}, gc \notin {Empty, Unit},
           NEW f, NEW g, f = Ordered(fc, gc)[1], g = Ordered(fc, gc)[2]
    PROVE  /\ (f = fc /\ g = gc) \/ (f = gc /\ g = fc)
           /\ Top(f) \in S
           /\ Top(f) # Top(g) => Top(f) \notin Support(g)
<1>1. (f = fc /\ g = gc /\ Level(Top(f)) >= Level(Top(g)))
        \/ (f = gc /\ g = fc /\ Level(Top(f)) >= Level(Top(g)))
    <2>1. fc \in Families(Elems) /\ gc \in Families(Elems)
        BY DEF Families
    <2>2. Level(Top(fc)) \in Nat /\ Level(Top(gc)) \in Nat
        BY <2>1, TopFacts, ElemFacts
    <2> QED
        BY <2>2 DEF Ordered
<1>2. f \in Families(Elems) /\ g \in Families(Elems) /\ f \in Families(S)
      /\ f \notin {Empty, Unit} /\ g \notin {Empty, Unit}
    BY <1>1 DEF Families
<1>3. Top(f) \in S /\ Top(f) \in Elems /\ Top(g) \in Elems
    BY <1>2, TopFacts, SupportFacts
<1>4. \A w \in Support(g) : Top(g) <= w
    BY <1>2, TopFacts
<1>5. Top(f) <= Top(g)
    BY <1>1, <1>3, ElemFacts
<1>6. Top(f) # Top(g) => Top(f) \notin Support(g)
    BY <1>3, <1>4, <1>5, ElemFacts
<1> QED
    BY <1>1, <1>3, <1>6

LEMMA JoinedIn == \A f, g, s : s \in Joined(f, g) <=> \E a \in f, b \in g : s = a \cup b
    BY DEF Joined

LEMMA JoinedFamily ==
    ASSUME NEW S, NEW f \in Families(S), NEW g \in Families(S)
    PROVE  Joined(f, g) \in Families(S)
    BY DEF Families, Joined

LEMMA JoinedTwice == \A f, g : Joined(f, g) = Joined(g, f)
    BY DEF Joined

\* The join from the cofactors.
LEMMA JoinedSplit ==
    ASSUME NEW f, NEW g, NEW v
    PROVE  /\ OnSet0(Joined(f, g), v) = Joined(OnSet0(f, v), OnSet0(g, v))
                \cup Joined(OnSet0(f, v), OffSet(g, v)) \cup Joined(OffSet(f, v), OnSet0(g, v))
           /\ OffSet(Joined(f, g), v) = Joined(OffSet(f, v), OffSet(g, v))
<1> DEFINE f0 == OffSet(f, v)
           f1 == OnSet0(f, v)
           g0 == OffSet(g, v)
           g1 == OnSet0(g, v)
<1>1. ASSUME NEW s, v \notin s, NEW a \in f, NEW b \in g, s \cup {v} = a \cup b
      PROVE  s \in Joined(f1, g1) \cup Joined(f1, g0) \cup Joined(f0, g1)
    <2>1. s = (a \ {v}) \cup (b \ {v}) /\ (v \in a \/ v \in b)
        BY <1>1
    <2>2. IF v \in a THEN a \ {v} \in f1 ELSE a \in f0 /\ a \ {v} = a
        BY Split
    <2>3. IF v \in b THEN b \ {v} \in g1 ELSE b \in g0 /\ b \ {v} = b
        BY Split
    <2> HIDE DEF f0, f1, g0, g1
    <2>4. CASE v \in a /\ v \in b
        BY <2>1, <2>2, <2>3, <2>4, JoinedIn
    <2>5. CASE v \in a /\ v \notin b
        BY <2>1, <2>2, <2>3, <2>5, JoinedIn
    <2>6. CASE v \notin a /\ v \in b
        BY <2>1, <2>2, <2>3, <2>6, JoinedIn
    <2> QED
        BY <2>1, <2>4, <2>5, <2>6
<1>2. ASSUME NEW s \in Joined(f1, g1) \cup Joined(f1, g0) \cup Joined(f0, g1)
      PROVE  v \notin s /\ \E a \in f, b \in g : s \cup {v} = a \cup b
    <2>1. \A a \in f0 : a \in f /\ v \notin a
        BY OffSetIn
    <2>2. \A a \in f1 : a \cup {v} \in f /\ v \notin a
        BY OnSet0In
    <2>3. \A b \in g0 : b \in g /\ v \notin b
        BY OffSetIn
    <2>4. \A b \in g1 : b \cup {v} \in g /\ v \notin b
        BY OnSet0In
    <2> HIDE DEF f0, f1, g0, g1
    <2>5. CASE s \in Joined(f1, g1)
        <3>1. PICK a \in f1, b \in g1 : s = a \cup b
            BY <2>5, JoinedIn
        <3>2. s \cup {v} = (a \cup {v}) \cup (b \cup {v})
            BY <3>1
        <3> QED
            BY <2>2, <2>4, <3>1, <3>2
    <2>6. CASE s \in Joined(f1, g0)
        <3>1. PICK a \in f1, b \in g0 : s = a \cup b
            BY <2>6, JoinedIn
        <3>2. s \cup {v} = (a \cup {v}) \cup b
            BY <3>1
        <3> QED
            BY <2>2, <2>3, <3>1, <3>2
    <2>7. CASE s \in Joined(f0, g1)
        <3>1. PICK a \in f0, b \in g1 : s = a \cup b
            BY <2>7, JoinedIn
        <3>2. s \cup {v} = a \cup (b \cup {v})
            BY <3>1
        <3> QED
            BY <2>1, <2>4, <3>1, <3>2
    <2> QED
        BY <1>2, <2>5, <2>6, <2>7
<1>3. ASSUME NEW s
      PROVE  s \in OnSet0(Joined(f, g), v)
                <=> s \in Joined(f1, g1) \cup Joined(f1, g0) \cup Joined(f0, g1)
    <2>1. s \in OnSet0(Joined(f, g), v) <=> v \notin s /\ s \cup {v} \in Joined(f, g)
        BY OnSet0In, Zenon
    <2>2. s \cup {v} \in Joined(f, g) <=> \E a \in f, b \in g : s \cup {v} = a \cup b
        BY DEF Joined
    <2> HIDE DEF f0, f1, g0, g1
    <2> QED
        BY <1>1, <1>2, <2>1, <2>2
<1>4. ASSUME NEW s
      PROVE  s \in OffSet(Joined(f, g), v) <=> s \in Joined(f0, g0)
    <2>1. s \in OffSet(Joined(f, g), v) <=> v \notin s /\ \E a \in f, b \in g : s = a \cup b
        BY OffSetIn DEF Joined
    <2>2. s \in Joined(f0, g0) <=> \E a \in f0, b \in g0 : s = a \cup b
        BY DEF Joined
    <2>3. (\A a : a \in f0 <=> a \in f /\ v \notin a) /\ (\A b : b \in g0 <=> b \in g /\ v \notin b)
        BY OffSetIn
    <2> HIDE DEF f0, g0
    <2> QED
        BY <2>1, <2>2, <2>3
<1> QED
    BY <1>3, <1>4

LEMMA TimesSteps ==
    ASSUME NEW S \in SUBSET Elems, NEW r,
           \A t \in S : \A a, b \in Families(S \ {t}) : r[<<a, b>>] = Joined(a, b),
           NEW fc \in Families(S), NEW gc \in Families(S)
    PROVE  TimesStep(r, fc, gc) = Joined(fc, gc)
<1>1. CASE fc = Empty \/ gc = Empty
    <2>1. Joined(fc, gc) = Empty
        BY <1>1 DEF Joined, Empty
    <2> QED
        BY <1>1, <2>1, EmptyUnit DEF TimesStep
<1>2. CASE fc # Empty /\ gc # Empty /\ fc = Unit
    <2>1. \A s : {} \cup s = s
        OBVIOUS
    <2>2. \A s : s \in Joined(Unit, gc) <=> s \in gc
        BY <2>1 DEF Joined, Unit
    <2>3. Joined(Unit, gc) = gc
        BY <2>2
    <2> QED
        BY <1>2, <2>3 DEF TimesStep
<1>3. CASE fc # Empty /\ gc # Empty /\ fc # Unit /\ gc = Unit
    <2>1. \A s : s \cup {} = s
        OBVIOUS
    <2>2. \A s : s \in Joined(fc, Unit) <=> s \in fc
        BY <2>1 DEF Joined, Unit
    <2>3. Joined(fc, Unit) = fc
        BY <2>2
    <2> QED
        BY <1>3, <2>3 DEF TimesStep
<1>4. CASE fc # Empty /\ gc # Empty /\ fc # Unit /\ gc # Unit
    <2> DEFINE f == Ordered(fc, gc)[1]
               g == Ordered(fc, gc)[2]
               top == Top(f)
               f0 == OffSet(f, top)
               f1 == OnSet0(f, top)
               g0 == OffSet(g, top)
               g1 == OnSet0(g, top)
    <2>1. /\ (f = fc /\ g = gc) \/ (f = gc /\ g = fc)
          /\ top \in S
          /\ top # Top(g) => top \notin Support(g)
        BY <1>4, OrderedFacts
    <2>2. TimesStep(r, fc, gc) =
            IF top # Top(g) THEN Change(r[<<f1, g>>], top) \cup r[<<f0, g>>]
            ELSE Change(r[<<f1, g1>>] \cup r[<<f1, g0>>] \cup r[<<f0, g1>>], top)
                    \cup r[<<f0, g0>>]
        BY <1>4 DEF TimesStep
    <2>3. Joined(f, g) = Joined(fc, gc) /\ f \in Families(S) /\ g \in Families(S)
        BY <2>1, JoinedTwice
    <2> HIDE DEF f, g, top
    <2>4. /\ f0 \in Families(S \ {top}) /\ f1 \in Families(S \ {top})
          /\ g0 \in Families(S \ {top}) /\ g1 \in Families(S \ {top})
        BY <2>3, CofactorFacts
    <2>5. /\ OnSet0(Joined(f, g), top) = Joined(f1, g1) \cup Joined(f1, g0) \cup Joined(f0, g1)
          /\ OffSet(Joined(f, g), top) = Joined(f0, g0)
        BY JoinedSplit
    <2>6. top # Top(g) => g0 = g /\ g1 = Empty
        BY <2>1, NotIn
    <2> HIDE DEF f0, f1, g0, g1
    <2>7. Change(OnSet0(Joined(f, g), top), top) \cup OffSet(Joined(f, g), top) = Joined(f, g)
        BY <2>3, JoinedFamily, Rebuilt
    <2>8. CASE top # Top(g)
        <3>1. Joined(f1, Empty) = Empty /\ Joined(f0, Empty) = Empty
            BY DEF Joined, Empty
        <3>2. OnSet0(Joined(f, g), top) = Joined(f1, g) /\ OffSet(Joined(f, g), top) = Joined(f0, g)
            BY <2>5, <2>6, <2>8, <3>1 DEF Empty
        <3>3. r[<<f1, g>>] = Joined(f1, g) /\ r[<<f0, g>>] = Joined(f0, g)
            BY <2>1, <2>4, <2>6, <2>8
        <3> QED
            BY <2>2, <2>3, <2>7, <2>8, <3>2, <3>3
    <2>9. CASE top = Top(g)
        <3>1. /\ r[<<f1, g1>>] = Joined(f1, g1) /\ r[<<f1, g0>>] = Joined(f1, g0)
              /\ r[<<f0, g1>>] = Joined(f0, g1) /\ r[<<f0, g0>>] = Joined(f0, g0)
            BY <2>1, <2>4
        <3> QED
            BY <2>2, <2>3, <2>5, <2>7, <2>9, <3>1
    <2> QED
        BY <2>8, <2>9
<1> QED
    BY <1>1, <1>2, <1>3, <1>4

\* operator* joins.
LEMMA TimesIs ==
    ASSUME NEW f \in Families(Elems), NEW g \in Families(Elems)
    PROVE  Times(f, g) = Joined(f, g)
<1> DEFINE V == Support(f) \cup Support(g)
           ref == [p \in Pairs(f, g) |-> Joined(p[1], p[2])]
           found == CHOOSE h : h = [p \in Pairs(f, g) |-> TimesStep(h, p[1], p[2])]
<1>1. /\ V \in SUBSET Elems /\ IsFiniteSet(V) /\ f \in Families(V) /\ g \in Families(V)
      /\ Pairs(f, g) = Families(V) \X Families(V)
    BY OperandFacts DEF Pairs
<1>2. \A a, b \in Families(V) : ref[<<a, b>>] = Joined(a, b)
    BY <1>1
<1>3. \A S \in SUBSET V : \A t \in S : Families(S) \subseteq Families(V)
                                     /\ Families(S \ {t}) \subseteq Families(V)
    BY Fewer
<1> HIDE DEF V, ref
<1>4. ASSUME NEW h, NEW S \in SUBSET V, NEW a \in Families(S), NEW b \in Families(S),
             \A t \in S : AgreeOnPairs(h, ref, S \ {t})
      PROVE  TimesStep(h, a, b) = Joined(a, b)
    <2>1. \A t \in S : \A x, y \in Families(S \ {t}) : h[<<x, y>>] = Joined(x, y)
        BY <1>2, <1>3, <1>4 DEF AgreeOnPairs
    <2> QED
        BY <1>1, <2>1, TimesSteps
<1>5. ref = [p \in Pairs(f, g) |-> TimesStep(ref, p[1], p[2])]
    <2>1. \A a, b \in Families(V) : TimesStep(ref, a, b) = Joined(a, b)
        BY <1>4, V \in SUBSET V DEF AgreeOnPairs
    <2> QED
        BY <1>1, <2>1 DEF ref
<1>6. found = [p \in Pairs(f, g) |-> TimesStep(found, p[1], p[2])]
    BY <1>5, Zenon
<1> HIDE DEF found
<1>7. \A a, b \in Families(V) : found[<<a, b>>] = TimesStep(found, a, b)
    BY <1>1, <1>6
<1>8. ASSUME NEW S \in SUBSET V, \A t \in S : AgreeOnPairs(found, ref, S \ {t})
      PROVE  AgreeOnPairs(found, ref, S)
    <2>1. \A a, b \in Families(S) : TimesStep(found, a, b) = Joined(a, b)
        BY <1>4, <1>8
    <2>2. Families(S) \subseteq Families(V)
        BY Fewer
    <2> QED
        BY <1>2, <1>7, <2>1, <2>2 DEF AgreeOnPairs
<1>9. AgreeOnPairs(found, ref, V)
    BY <1>1, <1>8, PairInduction
<1>10. Times(f, g) = found[<<f, g>>]
    BY DEF Times, found
<1> QED
    BY <1>1, <1>2, <1>9, <1>10 DEF AgreeOnPairs

LEMMA MetFamily ==
    ASSUME NEW S, NEW f \in Families(S), NEW g \in Families(S)
    PROVE  Met(f, g) \in Families(S)
    BY DEF Families, Met

LEMMA MetTwice == \A f, g : Met(f, g) = Met(g, f)
    BY DEF Met

\* The meet from the cofactors.
LEMMA MetSplit ==
    ASSUME NEW f, NEW g, NEW v
    PROVE  /\ OnSet0(Met(f, g), v) = Met(OnSet0(f, v), OnSet0(g, v))
           /\ OffSet(Met(f, g), v) = Met(OffSet(f, v), OffSet(g, v))
                \cup Met(OnSet0(f, v), OffSet(g, v)) \cup Met(OffSet(f, v), OnSet0(g, v))
<1> DEFINE f0 == OffSet(f, v)
           f1 == OnSet0(f, v)
           g0 == OffSet(g, v)
           g1 == OnSet0(g, v)
<1>1. \A a \in f : IF v \in a THEN a \ {v} \in f1 ELSE a \in f0
    BY Split
<1>2. \A b \in g : IF v \in b THEN b \ {v} \in g1 ELSE b \in g0
    BY Split
<1>3. (\A a \in f0 : a \in f /\ v \notin a) /\ (\A b \in g0 : b \in g /\ v \notin b)
    BY OffSetIn
<1>4. \A a \in f1 : a \cup {v} \in f /\ v \notin a
    BY OnSet0In
<1>5. \A b \in g1 : b \cup {v} \in g /\ v \notin b
    BY OnSet0In
<1>6. \A x, y, s : s \in Met(x, y) <=> \E a \in x, b \in y : s = a \cap b
    BY DEF Met
<1>7. \A s : s \in OnSet0(Met(f, g), v) <=> v \notin s /\ s \cup {v} \in Met(f, g)
    BY OnSet0In
<1>8. \A s : s \in OffSet(Met(f, g), v) <=> v \notin s /\ s \in Met(f, g)
    BY OffSetIn
<1> HIDE DEF f0, f1, g0, g1
<1>9. ASSUME NEW s \in OnSet0(Met(f, g), v) PROVE s \in Met(f1, g1)
    <2>1. PICK a \in f, b \in g : s \cup {v} = a \cap b
        <3>1. s \cup {v} \in Met(f, g)
            BY <1>7
        <3> QED
            BY <3>1 DEF Met
    <2>2. v \in a /\ v \in b /\ s = (a \ {v}) \cap (b \ {v})
        BY <1>7, <2>1
    <2> QED
        BY <1>1, <1>2, <1>6, <2>2
<1>10. ASSUME NEW s \in Met(f1, g1) PROVE s \in OnSet0(Met(f, g), v)
    <2>1. PICK a \in f1, b \in g1 : s = a \cap b
        BY <1>6
    <2>2. s \cup {v} = (a \cup {v}) \cap (b \cup {v}) /\ v \notin s
        BY <1>4, <2>1
    <2> QED
        <3>1. a \cup {v} \in f /\ b \cup {v} \in g
            BY <1>4, <1>5
        <3>2. s \cup {v} \in Met(f, g)
            BY <2>2, <3>1 DEF Met
        <3> QED
            BY <1>7, <2>2, <3>2
<1>11. ASSUME NEW s \in OffSet(Met(f, g), v)
       PROVE  s \in Met(f0, g0) \cup Met(f1, g0) \cup Met(f0, g1)
    <2>1. PICK a \in f, b \in g : s = a \cap b
        BY <1>6, <1>8
    <2>2. v \notin a \/ v \notin b
        BY <1>8, <2>1
    <2>3. CASE v \notin a /\ v \notin b
        BY <1>1, <1>2, <1>6, <2>1, <2>3
    <2>4. CASE v \in a /\ v \notin b
        <3>1. s = (a \ {v}) \cap b
            BY <2>1, <2>4
        <3> QED
            BY <1>1, <1>2, <1>6, <2>4, <3>1
    <2>5. CASE v \notin a /\ v \in b
        <3>1. s = a \cap (b \ {v})
            BY <2>1, <2>5
        <3> QED
            BY <1>1, <1>2, <1>6, <2>5, <3>1
    <2> QED
        BY <2>2, <2>3, <2>4, <2>5
<1>12. ASSUME NEW s \in Met(f0, g0) \cup Met(f1, g0) \cup Met(f0, g1)
       PROVE  s \in OffSet(Met(f, g), v)
    <2>1. CASE s \in Met(f0, g0)
        BY <1>3, <1>6, <1>8, <2>1
    <2>2. CASE s \in Met(f1, g0)
        <3>1. PICK a \in f1, b \in g0 : s = a \cap b
            BY <1>6, <2>2
        <3>2. s = (a \cup {v}) \cap b /\ v \notin s
            BY <1>3, <3>1
        <3> QED
            <4>1. a \cup {v} \in f /\ b \in g
                BY <1>3, <1>4
            <4>2. s \in Met(f, g)
                BY <3>2, <4>1 DEF Met
            <4> QED
                BY <1>8, <3>2, <4>2
    <2>3. CASE s \in Met(f0, g1)
        <3>1. PICK a \in f0, b \in g1 : s = a \cap b
            BY <1>6, <2>3
        <3>2. s = a \cap (b \cup {v}) /\ v \notin s
            BY <1>3, <3>1
        <3> QED
            <4>1. a \in f /\ b \cup {v} \in g
                BY <1>3, <1>5
            <4>2. s \in Met(f, g)
                BY <3>2, <4>1 DEF Met
            <4> QED
                BY <1>8, <3>2, <4>2
    <2> QED
        BY <1>12, <2>1, <2>2, <2>3
<1> QED
    BY <1>9, <1>10, <1>11, <1>12 DEF f0, f1, g0, g1

LEMMA MeetSteps ==
    ASSUME NEW S \in SUBSET Elems, NEW r,
           \A t \in S : \A a, b \in Families(S \ {t}) : r[<<a, b>>] = Met(a, b),
           NEW fc \in Families(S), NEW gc \in Families(S)
    PROVE  MeetStep(r, fc, gc) = Met(fc, gc)
<1>1. CASE fc = Empty \/ gc = Empty
    <2>1. Met(fc, gc) = Empty
        BY <1>1 DEF Met, Empty
    <2> QED
        BY <1>1, <2>1 DEF MeetStep
<1>2. CASE fc # Empty /\ gc # Empty /\ (fc = Unit \/ gc = Unit)
    <2>1. Met(fc, gc) = Unit
        BY <1>2 DEF Met, Unit, Empty
    <2> QED
        BY <1>2, <2>1 DEF MeetStep
<1>3. CASE fc # Empty /\ gc # Empty /\ fc # Unit /\ gc # Unit
    <2> DEFINE f == Ordered(fc, gc)[1]
               g == Ordered(fc, gc)[2]
               top == Top(f)
               f0 == OffSet(f, top)
               f1 == OnSet0(f, top)
               g0 == OffSet(g, top)
               g1 == OnSet0(g, top)
    <2>1. /\ (f = fc /\ g = gc) \/ (f = gc /\ g = fc)
          /\ top \in S
          /\ top # Top(g) => top \notin Support(g)
        BY <1>3, OrderedFacts
    <2>2. MeetStep(r, fc, gc) =
            IF top # Top(g) THEN r[<<f0, g>>] \cup r[<<f1, g>>]
            ELSE Change(r[<<f1, g1>>], top)
                    \cup r[<<f0, g0>>] \cup r[<<f1, g0>>] \cup r[<<f0, g1>>]
        BY <1>3 DEF MeetStep
    <2>3. Met(f, g) = Met(fc, gc) /\ f \in Families(S) /\ g \in Families(S)
        BY <2>1, MetTwice
    <2> HIDE DEF f, g, top
    <2>4. /\ f0 \in Families(S \ {top}) /\ f1 \in Families(S \ {top})
          /\ g0 \in Families(S \ {top}) /\ g1 \in Families(S \ {top})
        BY <2>3, CofactorFacts
    <2>5. /\ OnSet0(Met(f, g), top) = Met(f1, g1)
          /\ OffSet(Met(f, g), top) = Met(f0, g0) \cup Met(f1, g0) \cup Met(f0, g1)
        BY MetSplit
    <2>6. top # Top(g) => g0 = g /\ g1 = Empty
        BY <2>1, NotIn
    <2> HIDE DEF f0, f1, g0, g1
    <2>7. Change(OnSet0(Met(f, g), top), top) \cup OffSet(Met(f, g), top) = Met(f, g)
        BY <2>3, MetFamily, Rebuilt
    <2>8. CASE top # Top(g)
        <3>1. Met(f1, Empty) = Empty /\ Met(f0, Empty) = Empty /\ Change(Empty, top) = Empty
            BY DEF Met, Empty, Change
        <3>2. Met(f, g) = Met(f0, g) \cup Met(f1, g)
            BY <2>5, <2>6, <2>7, <2>8, <3>1 DEF Empty
        <3>3. r[<<f1, g>>] = Met(f1, g) /\ r[<<f0, g>>] = Met(f0, g)
            BY <2>1, <2>4, <2>6, <2>8
        <3> QED
            BY <2>2, <2>3, <2>8, <3>2, <3>3
    <2>9. CASE top = Top(g)
        <3>1. /\ r[<<f1, g1>>] = Met(f1, g1) /\ r[<<f1, g0>>] = Met(f1, g0)
              /\ r[<<f0, g1>>] = Met(f0, g1) /\ r[<<f0, g0>>] = Met(f0, g0)
            BY <2>1, <2>4
        <3> QED
            BY <2>2, <2>3, <2>5, <2>7, <2>9, <3>1
    <2> QED
        BY <2>8, <2>9
<1> QED
    BY <1>1, <1>2, <1>3

\* ZBDD_Meet() meets.
LEMMA MeetIs ==
    ASSUME NEW f \in Families(Elems), NEW g \in Families(Elems)
    PROVE  Meet(f, g) = Met(f, g)
<1> DEFINE V == Support(f) \cup Support(g)
           ref == [p \in Pairs(f, g) |-> Met(p[1], p[2])]
           found == CHOOSE h : h = [p \in Pairs(f, g) |-> MeetStep(h, p[1], p[2])]
<1>1. /\ V \in SUBSET Elems /\ IsFiniteSet(V) /\ f \in Families(V) /\ g \in Families(V)
      /\ Pairs(f, g) = Families(V) \X Families(V)
    BY OperandFacts DEF Pairs
<1>2. \A a, b \in Families(V) : ref[<<a, b>>] = Met(a, b)
    BY <1>1
<1>3. \A S \in SUBSET V : \A t \in S : Families(S) \subseteq Families(V)
                                     /\ Families(S \ {t}) \subseteq Families(V)
    BY Fewer
<1> HIDE DEF V, ref
<1>4. ASSUME NEW h, NEW S \in SUBSET V, NEW a \in Families(S), NEW b \in Families(S),
             \A t \in S : AgreeOnPairs(h, ref, S \ {t})
      PROVE  MeetStep(h, a, b) = Met(a, b)
    <2>1. \A t \in S : \A x, y \in Families(S \ {t}) : h[<<x, y>>] = Met(x, y)
        BY <1>2, <1>3, <1>4 DEF AgreeOnPairs
    <2> QED
        BY <1>1, <2>1, MeetSteps
<1>5. ref = [p \in Pairs(f, g) |-> MeetStep(ref, p[1], p[2])]
    <2>1. \A a, b \in Families(V) : MeetStep(ref, a, b) = Met(a, b)
        BY <1>4, V \in SUBSET V DEF AgreeOnPairs
    <2> QED
        BY <1>1, <2>1 DEF ref
<1>6. found = [p \in Pairs(f, g) |-> MeetStep(found, p[1], p[2])]
    BY <1>5, Zenon
<1> HIDE DEF found
<1>7. \A a, b \in Families(V) : found[<<a, b>>] = MeetStep(found, a, b)
    BY <1>1, <1>6
<1>8. ASSUME NEW S \in SUBSET V, \A t \in S : AgreeOnPairs(found, ref, S \ {t})
      PROVE  AgreeOnPairs(found, ref, S)
    <2>1. \A a, b \in Families(S) : MeetStep(found, a, b) = Met(a, b)
        BY <1>4, <1>8
    <2>2. Families(S) \subseteq Families(V)
        BY Fewer
    <2> QED
        BY <1>2, <1>7, <2>1, <2>2 DEF AgreeOnPairs
<1>9. AgreeOnPairs(found, ref, V)
    BY <1>1, <1>8, PairInduction
<1>10. Meet(f, g) = found[<<f, g>>]
    BY DEF Meet, found
<1> QED
    BY <1>1, <1>2, <1>9, <1>10 DEF AgreeOnPairs

\* A division by a family with v divides the cofactors.
LEMMA QuotientSplit ==
    ASSUME NEW f, NEW p, NEW v, OnSet0(p, v) # Empty
    PROVE  Quotient(Elems, f, p) = Quotient(Elems, OnSet0(f, v), OnSet0(p, v))
                                     \cap Quotient(Elems, OffSet(f, v), OffSet(p, v))
<1> DEFINE f0 == OffSet(f, v)
           f1 == OnSet0(f, v)
           p0 == OffSet(p, v)
           p1 == OnSet0(p, v)
<1>1. \A t \in p : IF v \in t THEN t \ {v} \in p1 ELSE t \in p0
    BY Split
<1>2. (\A t \in p0 : t \in p /\ v \notin t) /\ (\A s : s \in f0 <=> s \in f /\ v \notin s)
    BY OffSetIn
<1>3. (\A t \in p1 : t \cup {v} \in p /\ v \notin t)
    BY OnSet0In
<1>4. \A s : s \in f1 <=> v \notin s /\ s \cup {v} \in f
    BY OnSet0In
<1>5. \A x, y, q : q \in Quotient(Elems, x, y)
                      <=> q \in SUBSET Elems /\ \A t \in y : q \cap t = {} /\ q \cup t \in x
    BY DEF Quotient
<1>6. PICK t0 \in p1 : TRUE
    BY DEF Empty
<1> HIDE DEF f0, f1, p0, p1
<1>7. ASSUME NEW q \in Quotient(Elems, f, p)
      PROVE  q \in Quotient(Elems, f1, p1) /\ q \in Quotient(Elems, f0, p0)
    <2>1. q \in SUBSET Elems /\ \A t \in p : q \cap t = {} /\ q \cup t \in f
        BY <1>5
    <2>2. v \notin q
        BY <1>3, <1>6, <2>1
    <2>3. ASSUME NEW t \in p1 PROVE q \cap t = {} /\ q \cup t \in f1
        <3>1. q \cap (t \cup {v}) = {} /\ q \cup (t \cup {v}) \in f /\ v \notin t
            BY <1>3, <2>1
        <3>2. q \cup (t \cup {v}) = (q \cup t) \cup {v}
            OBVIOUS
        <3> QED
            BY <1>4, <2>2, <3>1, <3>2
    <2>4. ASSUME NEW t \in p0 PROVE q \cap t = {} /\ q \cup t \in f0
        BY <1>2, <2>1, <2>2
    <2> QED
        BY <1>5, <2>1, <2>3, <2>4
<1>8. ASSUME NEW q, q \in Quotient(Elems, f1, p1), q \in Quotient(Elems, f0, p0)
      PROVE  q \in Quotient(Elems, f, p)
    <2>1. /\ q \in SUBSET Elems
          /\ \A t \in p1 : q \cap t = {} /\ q \cup t \in f1
          /\ \A t \in p0 : q \cap t = {} /\ q \cup t \in f0
        BY <1>5, <1>8
    <2>2. v \notin q
        BY <1>4, <1>6, <2>1
    <2>3. ASSUME NEW t \in p PROVE q \cap t = {} /\ q \cup t \in f
        <3>1. CASE v \in t
            <4>1. q \cap (t \ {v}) = {} /\ (q \cup (t \ {v})) \cup {v} \in f
                BY <1>1, <1>4, <2>1, <3>1
            <4>2. (q \cup (t \ {v})) \cup {v} = q \cup t
                BY <3>1
            <4> QED
                BY <2>2, <4>1, <4>2
        <3>2. CASE v \notin t
            BY <1>1, <1>2, <2>1, <3>2
        <3> QED
            BY <3>1, <3>2
    <2> QED
        BY <1>5, <2>1, <2>3
<1> QED
    BY <1>7, <1>8 DEF f0, f1, p0, p1

LEMMA FiniteSets ==
    ASSUME NEW f \in Families(Elems)
    PROVE  \A s \in f : /\ s \in SUBSET Elems /\ IsFiniteSet(s)
                        /\ Cardinality(s) \in 0..NumElems
<1>1. Cardinality(Elems) = NumElems
    BY LevelAssumption, FS_Interval DEF Elems
<1> QED
    BY <1>1, ElemFacts, FS_Subset, FS_CardinalityType DEF Families

\* A family divided by itself.
LEMMA QuotientSelf ==
    ASSUME NEW f \in Families(Elems), f # Empty
    PROVE  Quotient(Elems, f, f) = Unit
<1>1. {} \in Quotient(Elems, f, f)
    BY DEF Quotient
<1>2. ASSUME NEW q \in Quotient(Elems, f, f), q # {} PROVE FALSE
    <2> DEFINE sizes == {Cardinality(s) : s \in f}
    <2>1. sizes \in SUBSET (0..NumElems) /\ sizes # {}
        BY FiniteSets DEF Empty
    <2>2. PICK n \in sizes : \A k \in sizes : k <= n
        BY <2>1, LevelAssumption, GreatestElement
    <2>3. PICK s \in f : n = Cardinality(s)
        BY <2>2
    <2>4. q \cap s = {} /\ q \cup s \in f
        BY <1>2 DEF Quotient
    <2>5. Cardinality(q \cup s) <= Cardinality(s)
        BY <2>2, <2>3, <2>4
    <2>6. IsFiniteSet(q \cup s) /\ s \subseteq q \cup s
        BY <2>4, FiniteSets
    <2>7. Cardinality(s) <= Cardinality(q \cup s) /\ Cardinality(s) \in Nat
          /\ Cardinality(q \cup s) \in Nat
        BY <2>4, <2>6, FS_Subset, FiniteSets
    <2>8. s = q \cup s
        BY <2>5, <2>6, <2>7, FS_Subset
    <2> QED
        BY <1>2, <2>4, <2>8
<1> QED
    BY <1>1, <1>2 DEF Unit

LEMMA DivideSteps ==
    ASSUME NEW S \in SUBSET Elems, NEW r,
           \A t \in S : \A a, b \in Families(S \ {t}) :
               b # Empty => r[<<a, b>>] = Quotient(Elems, a, b),
           NEW f \in Families(S), NEW p \in Families(S), p # Empty
    PROVE  DivideStep(r, f, p) = Quotient(Elems, f, p)
<1>1. f \in Families(Elems) /\ p \in Families(Elems)
    BY DEF Families
<1>2. CASE p = Unit
    <2>1. \A s : s \cap {} = {} /\ s \cup {} = s
        OBVIOUS
    <2>2. \A s \in f : s \in SUBSET Elems
        BY <1>1 DEF Families
    <2>3. Quotient(Elems, f, Unit) = f
        BY <2>1, <2>2 DEF Quotient, Unit
    <2>4. Top(p) = 0 /\ Level(Top(p)) = 0 /\ Level(Top(f)) \in Nat
        BY <1>1, <1>2, TopFacts, ElemFacts, LevelAssumption
    <2> QED
        BY <1>2, <2>3, <2>4 DEF DivideStep
<1>3. CASE p # Unit /\ f = p
    <2>1. Quotient(Elems, f, p) = Unit
        BY <1>1, <1>3, QuotientSelf
    <2>2. ~(Level(Top(f)) < Level(Top(p)))
        BY <1>1, <1>3, TopFacts, ElemFacts
    <2> QED
        BY <1>3, <2>1, <2>2 DEF DivideStep
<1>4. CASE p # Unit /\ f # p
    <2> DEFINE top == Top(p)
               f0 == OffSet(f, top)
               f1 == OnSet0(f, top)
               p0 == OffSet(p, top)
               p1 == OnSet0(p, top)
    <2>1. top \in Support(p) /\ top \in S /\ top \in Elems
        BY <1>1, <1>4, TopFacts, SupportFacts
    <2>2. DivideStep(r, f, p) =
            IF Level(Top(f)) < Level(top) THEN Empty
            ELSE IF r[<<f1, p1>>] # Empty /\ p0 # Empty THEN r[<<f1, p1>>] \cap r[<<f0, p0>>]
            ELSE r[<<f1, p1>>]
        BY <1>4 DEF DivideStep
    <2>3. PICK t0 \in p : top \in t0
        BY <2>1 DEF Support
    <2>4. p1 # Empty
        <3>1. t0 \ {top} \in p1
            BY <2>3, OnSet0Has, Zenon
        <3> QED
            BY <3>1 DEF Empty
    <2>5. /\ f0 \in Families(S \ {top}) /\ f1 \in Families(S \ {top})
          /\ p0 \in Families(S \ {top}) /\ p1 \in Families(S \ {top})
        BY CofactorFacts
    <2>6. Quotient(Elems, f, p) = Quotient(Elems, f1, p1) \cap Quotient(Elems, f0, p0)
        BY <2>4, QuotientSplit
    <2>7. CASE Level(Top(f)) < Level(top)
        <3>1. top \notin Support(f)
            BY <1>1, <2>1, <2>7, TopFacts, ElemFacts
        <3>2. \A q : q \cup t0 \notin f
            BY <2>3, <3>1 DEF Support
        <3>3. Quotient(Elems, f, p) = Empty
            BY <3>2 DEF Quotient, Empty
        <3> QED
            BY <2>2, <2>7, <3>3
    <2> HIDE DEF f0, f1, p0, p1
    <2>8. CASE ~(Level(Top(f)) < Level(top))
        <3>1. r[<<f1, p1>>] = Quotient(Elems, f1, p1)
            BY <2>1, <2>4, <2>5
        <3>2. p0 # Empty => r[<<f0, p0>>] = Quotient(Elems, f0, p0)
            BY <2>1, <2>5
        <3>3. p0 = Empty => Quotient(Elems, f0, p0) = SUBSET Elems
            BY DEF Quotient, Empty
        <3>4. Quotient(Elems, f1, p1) \subseteq SUBSET Elems
            BY DEF Quotient
        <3>5. p0 = Empty => Quotient(Elems, f, p) = Quotient(Elems, f1, p1)
            BY <2>6, <3>3, <3>4
        <3>6. Quotient(Elems, f1, p1) = Empty => Quotient(Elems, f, p) = Quotient(Elems, f1, p1)
            BY <2>6 DEF Empty
        <3> QED
            BY <2>2, <2>6, <2>8, <3>1, <3>2, <3>5, <3>6
    <2> QED
        BY <2>7, <2>8
<1> QED
    BY <1>2, <1>3, <1>4

\* operator/ divides.
LEMMA DivideIs ==
    ASSUME NEW f \in Families(Elems), NEW g \in Families(Elems), g # Empty
    PROVE  Divide(f, g) = Quotient(Elems, f, g)
<1> DEFINE V == Support(f) \cup Support(g)
           D == Over(f, g) \X (Over(f, g) \ {Empty})
           ref == [p \in D |-> Quotient(Elems, p[1], p[2])]
           found == CHOOSE h : h = [p \in D |-> DivideStep(h, p[1], p[2])]
           Right(h, S) == \A a, b \in Families(S) : b # Empty => h[<<a, b>>] = Quotient(Elems, a, b)
           Good == {S \in SUBSET V : Right(found, S)}
<1>1. /\ V \in SUBSET Elems /\ IsFiniteSet(V) /\ f \in Families(V) /\ g \in Families(V)
      /\ D = Families(V) \X (Families(V) \ {Empty})
    BY OperandFacts
<1> HIDE DEF V, D
<1>2. \A a, b \in Families(V) : b # Empty => ref[<<a, b>>] = Quotient(Elems, a, b)
    BY <1>1
<1>3. \A S \in SUBSET V : \A t \in S : Families(S) \subseteq Families(V)
                                     /\ Families(S \ {t}) \subseteq Families(V)
    BY Fewer
<1> HIDE DEF ref
<1>4. ASSUME NEW h, NEW S \in SUBSET V, NEW a \in Families(S), NEW b \in Families(S), b # Empty,
             \A t \in S : Right(h, S \ {t})
      PROVE  DivideStep(h, a, b) = Quotient(Elems, a, b)
    BY <1>1, <1>4, DivideSteps
<1>5. ref = [p \in D |-> DivideStep(ref, p[1], p[2])]
    <2>1. \A t \in V : Right(ref, V \ {t})
        BY <1>2, <1>3
    <2>2. \A a, b \in Families(V) : b # Empty => DivideStep(ref, a, b) = Quotient(Elems, a, b)
        BY <1>4, <2>1
    <2> QED
        BY <1>1, <2>2 DEF ref
<1>6. found = [p \in D |-> DivideStep(found, p[1], p[2])]
    BY <1>5, Zenon
<1> HIDE DEF found
<1>7. \A a, b \in Families(V) : b # Empty => found[<<a, b>>] = DivideStep(found, a, b)
    BY <1>1, <1>6
<1>8. ASSUME NEW S \in SUBSET V, \A t \in S : S \ {t} \in Good PROVE S \in Good
    <2>1. \A a, b \in Families(S) : b # Empty => DivideStep(found, a, b) = Quotient(Elems, a, b)
        BY <1>4, <1>8
    <2>2. Families(S) \subseteq Families(V)
        BY Fewer
    <2> QED
        BY <1>7, <2>1, <2>2
<1> HIDE DEF Good
<1>9. V \in Good
    BY <1>1, <1>8, SetInduction
<1>10. Divide(f, g) = found[<<f, g>>]
    BY DEF Divide, found, D
<1> QED
    BY <1>1, <1>9, <1>10 DEF Good

LEMMA ModuloIs ==
    ASSUME NEW f \in Families(Elems), NEW g \in Families(Elems), g # Empty
    PROVE  Modulo(f, g) = Remainder(Elems, f, g)
<1>1. Divide(f, g) = Quotient(Elems, f, g)
    BY DivideIs
<1>2. Quotient(Elems, f, g) \in Families(Elems)
    BY DEF Quotient, Families
<1>3. Times(Divide(f, g), g) = Joined(Quotient(Elems, f, g), g)
    BY <1>1, <1>2, TimesIs
<1> QED
    BY <1>3 DEF Modulo, Remainder
-----------------------------------------------------------------------------
(***************************************************************************)
(* Nodes, sizes and constraints                                            *)
(***************************************************************************)
LEMMA SingleIs == \A v : Single(v) = {{v}}
    BY DEF Single, Change, Unit

LEMMA ZuniqIs ==
    ASSUME NEW v \in Elems, NEW l, NEW h \in Families(Elems \ {v})
    PROVE  /\ Zuniq(v, l, h) = l \cup Change(h, v)
           /\ \A s : s \in Zuniq(v, l, h) <=> s \in l \/ (v \in s /\ s \ {v} \in h)
<1>1. Single(v) \in Families(Elems) /\ h \in Families(Elems)
    BY SingleIs DEF Families
<1>2. Times(Single(v), h) = Joined({{v}}, h)
    BY <1>1, SingleIs, TimesIs
<1>3. \A s : s \in Change(h, v) <=> v \in s /\ s \ {v} \in h
    BY ChangeFacts
<1>4. ASSUME NEW s PROVE s \in Joined({{v}}, h) <=> v \in s /\ s \ {v} \in h
    <2>1. ASSUME s \in Joined({{v}}, h) PROVE v \in s /\ s \ {v} \in h
        <3>1. PICK b \in h : s = {v} \cup b
            BY <2>1 DEF Joined
        <3>2. v \notin b
            BY DEF Families
        <3>3. s \ {v} = b
            BY <3>1, <3>2
        <3> QED
            BY <3>1, <3>3
    <2>2. ASSUME v \in s, s \ {v} \in h PROVE s \in Joined({{v}}, h)
        <3>1. s = {v} \cup (s \ {v})
            BY <2>2
        <3> QED
            BY <2>2, <3>1 DEF Joined
    <2> QED
        BY <2>1, <2>2
<1>5. \A s : s \in Joined({{v}}, h) <=> s \in Change(h, v)
    BY <1>3, <1>4
<1>6. Joined({{v}}, h) = Change(h, v)
    <2>1. \A s : s \in Joined({{v}}, h) => s \in Change(h, v)
        BY <1>5
    <2>2. \A s : s \in Change(h, v) => s \in Joined({{v}}, h)
        BY <1>5
    <2> QED
        BY <2>1, <2>2
<1> QED
    BY <1>2, <1>3, <1>6 DEF Zuniq

LEMMA ZuniqRebuilt ==
    ASSUME NEW f \in Families(Elems), NEW v \in Elems
    PROVE  Zuniq(v, OffSet(f, v), OnSet0(f, v)) = f
<1>1. OnSet0(f, v) \in Families(Elems \ {v})
    BY CofactorFacts
<1>2. Zuniq(v, OffSet(f, v), OnSet0(f, v)) = OffSet(f, v) \cup Change(OnSet0(f, v), v)
    BY <1>1, ZuniqIs
<1> QED
    BY <1>2, Rebuilt

\* Induction from the bottom level up.
LEMMA UpwardInduction ==
    ASSUME NEW v \in 1..(NumElems + 1), NEW Good,
           NumElems + 1 \in Good,
           \A u \in v..NumElems : u + 1 \in Good => u \in Good
    PROVE  v \in Good
<1> DEFINE T == {k \in Nat : NumElems + 1 - k \in Good}
           m == NumElems + 1 - v
<1>1. m \in Nat /\ NumElems \in Nat
    BY LevelAssumption
<1>2. 0 \in T
    BY LevelAssumption
<1>3. ASSUME NEW n \in 0..(m - 1), n \in T PROVE n + 1 \in T
    <2> DEFINE u == NumElems - n
    <2>1. u \in v..NumElems /\ u + 1 = NumElems + 1 - n /\ u = NumElems + 1 - (n + 1)
        BY <1>1
    <2>2. u \in Good
        BY <1>3, <2>1
    <2> QED
        BY <2>1, <2>2
<1>4. T \in SUBSET Nat
    OBVIOUS
<1> HIDE DEF T
<1>5. 0..m \subseteq T
    BY <1>1, <1>2, <1>3, <1>4, InductionTo
<1>6. m \in T
    BY <1>1, <1>5
<1>7. NumElems + 1 - m = v
    BY <1>1
<1> QED
    BY <1>6, <1>7 DEF T

\* The sets of elements from v on.
From(v) == v..NumElems

LEMMA FromFacts ==
    ASSUME NEW u \in 1..NumElems
    PROVE  /\ u \in Elems /\ u \in From(u) /\ From(u) \subseteq Elems
           /\ From(u + 1) = From(u) \ {u}
           /\ From(u + 1) \subseteq Elems \ {u}
    BY LevelAssumption DEF From, Elems

\* complement() starts from all sets of elements.
LEMMA AllSetsIs ==
    ASSUME NEW v \in 1..(NumElems + 1)
    PROVE  AllSets(v) = SUBSET From(v)
<1> DEFINE D == v..(NumElems + 1)
           Step(h, u) == IF u > NumElems THEN Unit ELSE Zuniq(u, h[u + 1], h[u + 1])
           ref == [u \in D |-> SUBSET From(u)]
           all == CHOOSE h : h = [u \in D |-> Step(h, u)]
           Good == {u \in D : all[u] = SUBSET From(u)}
<1>1. NumElems \in Nat /\ v \in Nat /\ v >= 1
    BY LevelAssumption
<1>2. ASSUME NEW h, NEW u \in v..NumElems, h[u + 1] = SUBSET From(u + 1)
      PROVE  Step(h, u) = SUBSET From(u)
    <2>1. u \in 1..NumElems /\ ~(u > NumElems)
        BY <1>1
    <2>2. /\ SUBSET From(u + 1) \in Families(Elems \ {u})
          /\ From(u + 1) = From(u) \ {u} /\ u \in Elems /\ u \in From(u)
        BY <2>1, FromFacts DEF Families
    <2>3. \A s : s \in Zuniq(u, SUBSET From(u + 1), SUBSET From(u + 1))
                    <=> s \in SUBSET From(u + 1) \/ (u \in s /\ s \ {u} \in SUBSET From(u + 1))
        <3> DEFINE below == SUBSET From(u + 1)
        <3>1. below \in Families(Elems \ {u}) /\ u \in Elems
            BY <2>2
        <3> HIDE DEF below
        <3>2. \A s : s \in Zuniq(u, below, below) <=> s \in below \/ (u \in s /\ s \ {u} \in below)
            BY <3>1, ZuniqIs
        <3> QED
            BY <3>2 DEF below
    <2>4. \A s : s \in Zuniq(u, SUBSET From(u + 1), SUBSET From(u + 1)) <=> s \in SUBSET From(u)
        BY <2>2, <2>3
    <2>5. Step(h, u) = Zuniq(u, SUBSET From(u + 1), SUBSET From(u + 1))
        BY <1>2, <2>1
    <2>6. \A s : s \in Step(h, u) <=> s \in SUBSET From(u)
        BY <2>4, <2>5
    <2> QED
        BY <2>5, <2>6
<1>3. ASSUME NEW h PROVE Step(h, NumElems + 1) = SUBSET From(NumElems + 1)
    BY <1>1 DEF From, Unit
<1> HIDE DEF Step
<1>4. \A u \in v..NumElems : u \in D /\ u + 1 \in D
    BY <1>1
<1>5. \A u \in D : u \in v..NumElems \/ u = NumElems + 1
    BY <1>1
<1>6. ref = [u \in D |-> Step(ref, u)]
    <2>1. ASSUME NEW u \in D PROVE Step(ref, u) = SUBSET From(u)
        <3>1. CASE u \in v..NumElems
            <4>1. ref[u + 1] = SUBSET From(u + 1)
                BY <1>4, <3>1
            <4> QED
                BY <1>2, <3>1, <4>1
        <3>2. CASE u = NumElems + 1
            BY <1>3, <3>2
        <3> QED
            BY <1>5, <3>1, <3>2
    <2> QED
        BY <2>1
<1>7. all = [u \in D |-> Step(all, u)]
    BY <1>6, Zenon
<1> HIDE DEF all, ref, D
<1>8. NumElems + 1 \in Good
    <2>1. NumElems + 1 \in D
        BY <1>1 DEF D
    <2> QED
        BY <1>3, <1>7, <2>1
<1>9. \A u \in v..NumElems : u + 1 \in Good => u \in Good
    BY <1>2, <1>4, <1>7
<1>10. v \in Good
    BY <1>8, <1>9, UpwardInduction
<1>11. AllSets(v) = all[v]
    BY DEF AllSets, all, D, Step
<1> QED
    BY <1>10, <1>11

\* setset({"include": in, "exclude": ex})
LEMMA ConstrainedIs ==
    ASSUME NEW v \in 1..(NumElems + 1), NEW in, NEW ex
    PROVE  Constrained(v, in, ex) =
             {s \in SUBSET From(v) : in \cap From(v) \subseteq s /\ ex \cap s = {}}
<1> DEFINE D == v..(NumElems + 1)
           Meeting(u) == {s \in SUBSET From(u) : in \cap From(u) \subseteq s /\ ex \cap s = {}}
           Step(h, u) == IF u > NumElems THEN Unit
                         ELSE Zuniq(u, IF u \in in THEN Empty ELSE h[u + 1],
                                       IF u \in ex THEN Empty ELSE h[u + 1])
           ref == [u \in D |-> Meeting(u)]
           below == CHOOSE h : h = [u \in D |-> Step(h, u)]
           Good == {u \in D : below[u] = Meeting(u)}
<1>1. NumElems \in Nat /\ v \in Nat /\ v >= 1
    BY LevelAssumption
<1>2. ASSUME NEW h, NEW u \in v..NumElems, h[u + 1] = Meeting(u + 1)
      PROVE  Step(h, u) = Meeting(u)
    <2> DEFINE l == IF u \in in THEN Empty ELSE Meeting(u + 1)
               hi == IF u \in ex THEN Empty ELSE Meeting(u + 1)
    <2>1. u \in 1..NumElems /\ ~(u > NumElems)
        BY <1>1
    <2>2. /\ From(u + 1) = From(u) \ {u} /\ u \in Elems /\ u \in From(u)
          /\ From(u + 1) \subseteq Elems \ {u}
        BY <2>1, FromFacts
    <2>3. hi \in Families(Elems \ {u})
        BY <2>2 DEF Families, Empty
    <2>4. Step(h, u) = Zuniq(u, l, hi)
        BY <1>2, <2>1
    <2> HIDE DEF Step
    <2>5. \A s : s \in Meeting(u + 1) <=> /\ s \subseteq From(u) \ {u}
                                          /\ in \cap (From(u) \ {u}) \subseteq s
                                          /\ ex \cap s = {}
        BY <2>2
    <2>6. \A s : s \in Meeting(u) <=> /\ s \subseteq From(u)
                                      /\ in \cap From(u) \subseteq s
                                      /\ ex \cap s = {}
        OBVIOUS
    <2> HIDE DEF Meeting
    <2>7. \A s : s \in l <=> u \notin in /\ s \in Meeting(u + 1)
        BY DEF Empty
    <2>8. \A s : s \in hi <=> u \notin ex /\ s \in Meeting(u + 1)
        BY DEF Empty
    <2> HIDE DEF l, hi
    <2>9. \A s : s \in Zuniq(u, l, hi) <=> s \in l \/ (u \in s /\ s \ {u} \in hi)
        BY <2>2, <2>3, ZuniqIs
    <2>10. ASSUME NEW s PROVE s \in Zuniq(u, l, hi) <=> s \in Meeting(u)
        <3>1. CASE u \in s
            <4>1. s \notin l
                BY <2>5, <2>7, <3>1
            <4>2. s \in Zuniq(u, l, hi) <=> u \notin ex /\ s \ {u} \in Meeting(u + 1)
                BY <2>8, <2>9, <3>1, <4>1
            <4>3. s \ {u} \in Meeting(u + 1)
                    <=> /\ s \ {u} \subseteq From(u) \ {u}
                        /\ in \cap (From(u) \ {u}) \subseteq s \ {u}
                        /\ ex \cap (s \ {u}) = {}
                BY <2>5
            <4>4. s \in Meeting(u) <=> /\ s \subseteq From(u)
                                      /\ in \cap From(u) \subseteq s
                                      /\ ex \cap s = {}
                BY <2>6
            <4> QED
                BY <2>2, <3>1, <4>2, <4>3, <4>4
        <3>2. CASE u \notin s
            BY <2>2, <2>5, <2>6, <2>7, <2>8, <2>9, <3>2
        <3> QED
            BY <3>1, <3>2
    <2> QED
        BY <2>4, <2>10 DEF Meeting
<1>3. ASSUME NEW h PROVE Step(h, NumElems + 1) = Meeting(NumElems + 1)
    BY <1>1 DEF From, Unit
<1> HIDE DEF Step, Meeting
<1>4. \A u \in v..NumElems : u \in D /\ u + 1 \in D
    BY <1>1
<1>5. \A u \in D : u \in v..NumElems \/ u = NumElems + 1
    BY <1>1
<1>6. ref = [u \in D |-> Step(ref, u)]
    <2>1. ASSUME NEW u \in D PROVE Step(ref, u) = Meeting(u)
        <3>1. CASE u \in v..NumElems
            <4>1. ref[u + 1] = Meeting(u + 1)
                BY <1>4, <3>1
            <4> QED
                BY <1>2, <3>1, <4>1
        <3>2. CASE u = NumElems + 1
            BY <1>3, <3>2
        <3> QED
            BY <1>5, <3>1, <3>2
    <2> QED
        BY <2>1
<1>7. below = [u \in D |-> Step(below, u)]
    BY <1>6, Zenon
<1> HIDE DEF below, ref, D
<1>8. NumElems + 1 \in Good
    <2>1. NumElems + 1 \in D
        BY <1>1 DEF D
    <2> QED
        BY <1>3, <1>7, <2>1
<1>9. \A u \in v..NumElems : u + 1 \in Good => u \in Good
    BY <1>2, <1>4, <1>7
<1>10. v \in Good
    BY <1>8, <1>9, UpwardInduction
<1>11. Constrained(v, in, ex) = below[v]
    BY DEF Constrained, below, D, Step
<1> QED
    BY <1>10, <1>11 DEF Meeting

\* The empty set and the sets of at most n elements.
UpTo(f, n) == {s \in f : s = {} \/ Cardinality(s) <= n}

LEMMA PermitSymSteps ==
    ASSUME NEW S \in SUBSET Elems, NEW r,
           \A t \in S : \A a \in Families(S \ {t}) : \A k \in Int : r[<<a, k>>] = UpTo(a, k),
           NEW f \in Families(S), NEW n \in Int
    PROVE  PermitSymStep(r, f, n) = UpTo(f, n)
<1>1. f \in Families(Elems)
    BY DEF Families
<1>2. \A s \in f : IsFiniteSet(s) /\ Cardinality(s) \in Nat /\ (Cardinality(s) = 0 <=> s = {})
    BY <1>1, FiniteSets, FS_EmptySet, LevelAssumption
<1>3. CASE f = Empty \/ f = Unit
    <2>1. UpTo(f, n) = f
        BY <1>3 DEF UpTo, Empty, Unit
    <2>2. f \cap Unit = f
        BY <1>3 DEF Empty, Unit
    <2> QED
        BY <1>3, <2>1, <2>2 DEF PermitSymStep
<1>4. CASE f # Empty /\ f # Unit /\ n < 1
    <2>1. UpTo(f, n) = f \cap Unit
        BY <1>2, <1>4 DEF UpTo, Unit
    <2> QED
        BY <1>4, <2>1 DEF PermitSymStep
<1>5. CASE f # Empty /\ f # Unit /\ ~(n < 1)
    <2> DEFINE top == Top(f)
               f0 == OffSet(f, top)
               f1 == OnSet0(f, top)
    <2>1. top \in S
        BY <1>1, <1>5, TopFacts, SupportFacts
    <2>2. f0 \in Families(S \ {top}) /\ f1 \in Families(S \ {top})
        BY CofactorFacts
    <2>3. PermitSymStep(r, f, n) = Change(r[<<f1, n - 1>>], top) \cup r[<<f0, n>>]
        BY <1>5 DEF PermitSymStep
    <2> HIDE DEF top
    <2>4. r[<<f1, n - 1>>] = UpTo(f1, n - 1) /\ r[<<f0, n>>] = UpTo(f0, n)
        BY <2>1, <2>2
    <2>5. ASSUME NEW s \in f1
          PROVE  Cardinality(s \cup {top}) = Cardinality(s) + 1 /\ Cardinality(s) \in Nat
                 /\ (Cardinality(s) = 0 <=> s = {})
        <3>1. top \notin s /\ s \cup {top} \in f
            BY OnSet0In
        <3>2. IsFiniteSet(s)
            BY <1>2, <3>1, FS_Subset
        <3> QED
            BY <3>1, <3>2, FS_AddElement, FS_CardinalityType, FS_EmptySet
    <2>6. \A s : s \in OnSet0(UpTo(f, n), top) <=> s \in UpTo(f1, n - 1)
        <3>1. ASSUME NEW s
              PROVE  s \in OnSet0(UpTo(f, n), top) <=> s \in f1 /\ s \cup {top} \in UpTo(f, n)
            <4>1. s \in OnSet0(UpTo(f, n), top) <=> top \notin s /\ s \cup {top} \in UpTo(f, n)
                BY OnSet0In, Zenon
            <4>2. s \in OnSet0(f, top) <=> top \notin s /\ s \cup {top} \in f
                BY OnSet0In, Zenon
            <4>3. s \cup {top} \in UpTo(f, n) => s \cup {top} \in f
                BY DEF UpTo
            <4> QED
                BY <4>1, <4>2, <4>3
        <3>2. ASSUME NEW s \in f1
              PROVE  s \cup {top} \in UpTo(f, n) <=> s \in UpTo(f1, n - 1)
            <4>1. s \cup {top} \in f /\ s \cup {top} # {}
                BY OnSet0In
            <4>2. s \cup {top} \in UpTo(f, n) <=> Cardinality(s) + 1 <= n
                BY <2>5, <4>1 DEF UpTo
            <4>3. s \in UpTo(f1, n - 1) <=> s = {} \/ Cardinality(s) <= n - 1
                BY DEF UpTo
            <4> QED
                BY <1>5, <2>5, <4>2, <4>3
        <3>3. \A s : s \in UpTo(f1, n - 1) => s \in f1
            BY DEF UpTo
        <3> QED
            BY <3>1, <3>2, <3>3
    <2>7. OffSet(UpTo(f, n), top) = UpTo(f0, n)
        BY DEF OffSet, UpTo
    <2>8. OnSet0(UpTo(f, n), top) = UpTo(f1, n - 1)
        <3>1. UpTo(f1, n - 1) \subseteq OnSet0(UpTo(f, n), top)
            BY <2>6
        <3>2. OnSet0(UpTo(f, n), top) \subseteq UpTo(f1, n - 1)
            BY <2>6
        <3> QED
            BY <3>1, <3>2
    <2>9. UpTo(f, n) \in Families(S)
        BY DEF UpTo, Families
    <2> QED
        BY <2>3, <2>4, <2>7, <2>8, <2>9, Rebuilt
<1> QED
    BY <1>3, <1>4, <1>5

\* permit_sym() selects by size.
LEMMA PermitSymIs ==
    ASSUME NEW f \in Families(Elems), NEW n \in Int
    PROVE  PermitSym(f, n) = UpTo(f, n)
<1> DEFINE V == Support(f)
           D == Over(f, f) \X Int
           ref == [p \in D |-> UpTo(p[1], p[2])]
           found == CHOOSE h : h = [p \in D |-> PermitSymStep(h, p[1], p[2])]
           Right(h, S) == \A a \in Families(S) : \A k \in Int : h[<<a, k>>] = UpTo(a, k)
           Good == {S \in SUBSET V : Right(found, S)}
<1>1. /\ V \in SUBSET Elems /\ IsFiniteSet(V) /\ f \in Families(V)
      /\ D = Families(V) \X Int
    BY OperandFacts
<1> HIDE DEF V, D
<1>2. \A a \in Families(V) : \A k \in Int : ref[<<a, k>>] = UpTo(a, k)
    BY <1>1
<1>3. \A S \in SUBSET V : \A t \in S : Families(S) \subseteq Families(V)
                                     /\ Families(S \ {t}) \subseteq Families(V)
    BY Fewer
<1> HIDE DEF ref
<1>4. ASSUME NEW h, NEW S \in SUBSET V, NEW a \in Families(S), NEW k \in Int,
             \A t \in S : Right(h, S \ {t})
      PROVE  PermitSymStep(h, a, k) = UpTo(a, k)
    BY <1>1, <1>4, PermitSymSteps
<1>5. ref = [p \in D |-> PermitSymStep(ref, p[1], p[2])]
    <2>1. \A t \in V : Right(ref, V \ {t})
        BY <1>2, <1>3
    <2>2. \A a \in Families(V) : \A k \in Int : PermitSymStep(ref, a, k) = UpTo(a, k)
        BY <1>4, <2>1
    <2> QED
        BY <1>1, <2>2 DEF ref
<1>6. found = [p \in D |-> PermitSymStep(found, p[1], p[2])]
    BY <1>5, Zenon
<1> HIDE DEF found
<1>7. \A a \in Families(V) : \A k \in Int : found[<<a, k>>] = PermitSymStep(found, a, k)
    BY <1>1, <1>6
<1>8. ASSUME NEW S \in SUBSET V, \A t \in S : S \ {t} \in Good PROVE S \in Good
    <2>1. \A a \in Families(S) : \A k \in Int : PermitSymStep(found, a, k) = UpTo(a, k)
        BY <1>4, <1>8
    <2>2. Families(S) \subseteq Families(V)
        BY Fewer
    <2> QED
        BY <1>7, <2>1, <2>2
<1> HIDE DEF Good
<1>9. V \in Good
    BY <1>1, <1>8, SetInduction
<1>10. PermitSym(f, n) = found[<<f, n>>]
    BY DEF PermitSym, found, D
<1> QED
    BY <1>1, <1>9, <1>10 DEF Good
-----------------------------------------------------------------------------
(***************************************************************************)
(* Inclusion                                                               *)
(***************************************************************************)
\* A recursion whose inner calls are on smaller arguments defines a function.
Solvable(D, R, step) == \E h \in [D -> R] : \A p \in D : h[p] = step[<<h, p>>]
Shrinks(D, R, step, size) ==
    \A g, h \in [D -> R] : \A p \in D :
        (\A q \in D : size[q] < size[p] => g[q] = h[q]) => step[<<g, p>>] = step[<<h, p>>]

LEMMA Recursion ==
    ASSUME NEW D, NEW n \in Nat, NEW size \in [D -> 0..n], NEW R, R # {},
           NEW step \in [[D -> R] \X D -> R], Shrinks(D, R, step, size)
    PROVE  Solvable(D, R, step)
<1> DEFINE Solved(h, k) == \A p \in D : size[p] < k => h[p] = step[<<h, p>>]
           Ks == {k \in Nat : \E h \in [D -> R] : Solved(h, k)}
<1>1. 0 \in Ks
    <2>1. PICK x \in R : TRUE
        OBVIOUS
    <2>2. [p \in D |-> x] \in [D -> R]
        OBVIOUS
    <2>3. \A p \in D : ~(size[p] < 0)
        <3>1. ASSUME NEW p \in D PROVE ~(size[p] < 0)
            <4>1. size[p] \in 0..n
                OBVIOUS
            <4> QED
                BY <4>1
        <3> QED
            BY <3>1
    <2>4. \A h : Solved(h, 0)
        BY <2>3, Zenon
    <2> QED
        BY <2>2, <2>4
<1>2. ASSUME NEW k \in Nat, k \in Ks PROVE k + 1 \in Ks
    <2>1. PICK g \in [D -> R] : Solved(g, k)
        BY <1>2
    <2> DEFINE h == [p \in D |-> IF size[p] = k THEN step[<<g, p>>] ELSE g[p]]
    <2>2. h \in [D -> R]
        OBVIOUS
    <2>3. ASSUME NEW p \in D, size[p] < k + 1 PROVE h[p] = step[<<h, p>>]
        <3>1. \A q \in D : size[q] < size[p] => g[q] = h[q]
            BY <2>3
        <3> HIDE DEF h
        <3>2. step[<<g, p>>] = step[<<h, p>>]
            BY <2>2, <3>1 DEF Shrinks
        <3>3. CASE size[p] = k
            BY <3>2, <3>3 DEF h
        <3>4. CASE size[p] < k
            BY <2>1, <3>2, <3>4 DEF h
        <3>5. size[p] \in 0..n
            OBVIOUS
        <3>6. size[p] = k \/ size[p] < k
            BY <2>3, <3>5
        <3> QED
            BY <3>3, <3>4, <3>6
    <2> HIDE DEF h
    <2>4. Solved(h, k + 1)
        BY <2>3
    <2> HIDE DEF Solved
    <2> QED
        BY <2>2, <2>4
<1> HIDE DEF Solved
<1>3. Ks \in SUBSET Nat
    OBVIOUS
<1> HIDE DEF Ks
<1>4. 0..(n + 1) \subseteq Ks
    BY <1>1, <1>2, <1>3, InductionTo
<1>5. n + 1 \in Ks
    BY <1>4
<1>6. PICK h \in [D -> R] : Solved(h, n + 1)
    BY <1>5 DEF Ks
<1> QED
    BY <1>6 DEF Solved, Solvable

\* The size of families for such a recursion.
Size(S) == Cardinality(S)
LEMMA SmallerSize ==
    ASSUME NEW S \in SUBSET Elems, NEW t \in S, NEW T \in SUBSET (S \ {t})
    PROVE  Size(T) \in 0..NumElems /\ Size(S) \in 0..NumElems /\ Size(T) < Size(S)
<1>1. \A X \in SUBSET Elems : IsFiniteSet(X) /\ Cardinality(X) \in Nat
                              /\ Cardinality(X) <= Cardinality(Elems)
    BY ElemFacts, FS_Subset, FS_CardinalityType
<1>2. Cardinality(Elems) = NumElems
    BY LevelAssumption, FS_Interval DEF Elems
<1>3. T \in SUBSET Elems /\ S \ {t} \in SUBSET Elems
    OBVIOUS
<1>4. Cardinality(T) <= Cardinality(S \ {t}) /\ Cardinality(S \ {t}) = Cardinality(S) - 1
    BY <1>1, <1>3, FS_Subset, FS_RemoveElement
<1> QED
    BY <1>1, <1>2, <1>3, <1>4, LevelAssumption DEF Size

\* What the lower top variable says.
LEMMA LowerTop ==
    ASSUME NEW S \in SUBSET Elems, NEW f \in Families(S), NEW g \in Families(S),
           f \notin {Empty, Unit}, g \notin {Empty, Unit}
    PROVE  /\ Top(f) \in S /\ Top(g) \in S /\ Top(f) \in Elems /\ Top(g) \in Elems
           /\ Top(f) \in Nat /\ Top(g) \in Nat
           /\ Top(f) < Top(g) => Top(f) \notin Support(g)
           /\ Top(f) > Top(g) => Top(g) \notin Support(f)
<1>1. f \in Families(Elems) /\ g \in Families(Elems)
    BY DEF Families
<1>2. /\ Top(f) \in Support(f) /\ Top(f) \in Elems /\ \A w \in Support(f) : Top(f) <= w
      /\ Top(g) \in Support(g) /\ Top(g) \in Elems /\ \A w \in Support(g) : Top(g) <= w
    BY <1>1, TopFacts
<1>3. Top(f) \in S /\ Top(g) \in S
    BY <1>2, SupportFacts
<1> QED
    BY <1>2, <1>3, ElemFacts

\* The sets of f that no set of g contains, and those that contain none.
NonSub(f, g) == f \ SubsetsOf(f, g)
NonSup(f, g) == f \ SupersetsOf(f, g)

LEMMA NonIn ==
    /\ \A f, g, s : s \in NonSub(f, g) <=> s \in f /\ ~Covering(g, s)
    /\ \A f, g, s : s \in NonSup(f, g) <=> s \in f /\ ~Inside(g, s)
    BY SubsetsIn, SupersetsIn DEF NonSub, NonSup

LEMMA NonSubSplit ==
    ASSUME NEW f, NEW g, NEW v
    PROVE  /\ OnSet0(NonSub(f, g), v) = NonSub(OnSet0(f, v), OnSet0(g, v))
           /\ OffSet(NonSub(f, g), v) = NonSub(OffSet(f, v), OffSet(g, v) \cup OnSet0(g, v))
<1>1. ASSUME NEW s
      PROVE  s \in OnSet0(NonSub(f, g), v) <=> s \in NonSub(OnSet0(f, v), OnSet0(g, v))
    <2>1. /\ s \in OnSet0(NonSub(f, g), v) <=> v \notin s /\ s \cup {v} \in NonSub(f, g)
          /\ s \in OnSet0(f, v) <=> v \notin s /\ s \cup {v} \in f
        BY OnSet0In, Zenon
    <2>2. v \notin s => (Covering(g, s \cup {v}) <=> Covering(OnSet0(g, v), s))
        BY CoveringSplit, Zenon
    <2> QED
        BY <2>1, <2>2, NonIn
<1>2. ASSUME NEW s
      PROVE  s \in OffSet(NonSub(f, g), v)
                <=> s \in NonSub(OffSet(f, v), OffSet(g, v) \cup OnSet0(g, v))
    <2>1. v \notin s => (Covering(g, s) <=> Covering(OffSet(g, v) \cup OnSet0(g, v), s))
        BY CoveringSplit, Zenon
    <2> QED
        BY <2>1, OffSetIn, NonIn
<1> QED
    BY <1>1, <1>2

LEMMA NonSupSplit ==
    ASSUME NEW f, NEW g, NEW v
    PROVE  /\ OnSet0(NonSup(f, g), v) = NonSup(OnSet0(f, v), OnSet0(g, v) \cup OffSet(g, v))
           /\ OffSet(NonSup(f, g), v) = NonSup(OffSet(f, v), OffSet(g, v))
<1>1. ASSUME NEW s
      PROVE  s \in OnSet0(NonSup(f, g), v)
                <=> s \in NonSup(OnSet0(f, v), OnSet0(g, v) \cup OffSet(g, v))
    <2>1. /\ s \in OnSet0(NonSup(f, g), v) <=> v \notin s /\ s \cup {v} \in NonSup(f, g)
          /\ s \in OnSet0(f, v) <=> v \notin s /\ s \cup {v} \in f
        BY OnSet0In, Zenon
    <2>2. v \notin s => (Inside(g, s \cup {v}) <=> Inside(OnSet0(g, v) \cup OffSet(g, v), s))
        BY InsideSplit, Zenon
    <2> QED
        BY <2>1, <2>2, NonIn
<1>2. ASSUME NEW s
      PROVE  s \in OffSet(NonSup(f, g), v) <=> s \in NonSup(OffSet(f, v), OffSet(g, v))
    <2>1. v \notin s => (Inside(g, s) <=> Inside(OffSet(g, v), s))
        BY InsideSplit, Zenon
    <2> QED
        BY <2>1, OffSetIn, NonIn
<1> QED
    BY <1>1, <1>2

LEMMA NonFacts ==
    /\ \A f : NonSub(f, Empty) = f /\ NonSup(f, Empty) = f
    /\ \A g : NonSub(Empty, g) = Empty /\ NonSup(Empty, g) = Empty
    /\ \A f : NonSub(f, f) = Empty /\ NonSup(f, f) = Empty
    /\ \A f : NonSub(f, Unit) = f \ Unit /\ NonSup(f, Unit) = Empty
    /\ \A g : g # Empty => NonSub(Unit, g) = Empty
    /\ \A f, g, h : NonSup(f, g \cup h) = NonSup(f, g) \cap NonSup(f, h)
    /\ \A S : \A f \in Families(S) : \A g : NonSub(f, g) \in Families(S) /\ NonSup(f, g) \in Families(S)
    BY DEF NonSub, NonSup, SubsetsOf, SupersetsOf, Empty, Unit, Families

\* A family with the cofactors a node is made of.
LEMMA NodeIs ==
    ASSUME NEW S \in SUBSET Elems, NEW f \in Families(S), NEW v \in S,
           NEW l, NEW h, l = OffSet(f, v), h = OnSet0(f, v)
    PROVE  Zuniq(v, l, h) = f
<1>1. f \in Families(Elems)
    BY DEF Families
<1> QED
    BY <1>1, ZuniqRebuilt

\* A family without sets of the other half.
LEMMA NoHigh ==
    ASSUME NEW S, NEW f \in Families(S), NEW v, OnSet0(f, v) = Empty
    PROVE  OffSet(f, v) = f
<1>1. Change(OnSet0(f, v), v) \cup OffSet(f, v) = f
    BY Rebuilt
<1>2. Change(Empty, v) = {}
    BY DEF Change, Empty
<1> QED
    BY <1>1, <1>2

LEMMA NonSubsetsSteps ==
    ASSUME NEW S \in SUBSET Elems, NEW r,
           \A t \in S : \A a, b \in Families(S \ {t}) : r[<<a, b>>] = NonSub(a, b),
           NEW f \in Families(S), NEW g \in Families(S)
    PROVE  NonSubsetsStep(r, f, g) = NonSub(f, g)
<1>1. CASE g = Empty
    BY <1>1, NonFacts, EmptyUnit DEF NonSubsetsStep
<1>2. CASE g = Unit
    <2>1. f \in {Empty, Unit} => f \ Unit = Empty
        BY DEF Empty, Unit
    <2> QED
        BY <1>2, <2>1, NonFacts, EmptyUnit DEF NonSubsetsStep
<1>3. CASE g \notin {Empty, Unit} /\ f \in {Empty, Unit, g}
    BY <1>3, NonFacts, EmptyUnit DEF NonSubsetsStep
<1>4. CASE g \notin {Empty, Unit} /\ f \notin {Empty, Unit, g}
    <2> DEFINE v == Top(f)
               w == Top(g)
    <2>1. /\ v \in S /\ w \in S /\ v \in Nat /\ w \in Nat
          /\ v < w => v \notin Support(g)
          /\ v > w => w \notin Support(f)
        BY <1>4, LowerTop
    <2>2. NonSubsetsStep(r, f, g) =
            CASE v < w -> Zuniq(v, r[<<OffSet(f, v), g>>], OnSet0(f, v))
              [] v = w -> Zuniq(v, r[<<OffSet(f, v), OffSet(g, w) \cup OnSet0(g, w)>>],
                                   r[<<OnSet0(f, v), OnSet0(g, w)>>])
              [] v > w -> r[<<f, OffSet(g, w) \cup OnSet0(g, w)>>]
        BY <1>4 DEF NonSubsetsStep, Lo, Hi
    <2> HIDE DEF v, w
    <2>3. \A u : /\ OffSet(f, u) \in Families(S \ {u}) /\ OnSet0(f, u) \in Families(S \ {u})
                 /\ OffSet(g, u) \in Families(S \ {u}) /\ OnSet0(g, u) \in Families(S \ {u})
        BY CofactorFacts
    <2>4. \A u : OffSet(g, u) \cup OnSet0(g, u) \in Families(S \ {u})
        BY <2>3 DEF Families
    <2>5. NonSub(f, g) \in Families(S)
        BY NonFacts
    <2>6. CASE v < w
        <3>1. OffSet(g, v) = g /\ OnSet0(g, v) = Empty /\ g \cup Empty = g
            BY <2>1, <2>6, NotIn DEF Empty
        <3>2. /\ OffSet(NonSub(f, g), v) = NonSub(OffSet(f, v), OffSet(g, v) \cup OnSet0(g, v))
              /\ OnSet0(NonSub(f, g), v) = NonSub(OnSet0(f, v), OnSet0(g, v))
            BY NonSubSplit
        <3>5. /\ OffSet(NonSub(f, g), v) = NonSub(OffSet(f, v), g)
              /\ OnSet0(NonSub(f, g), v) = OnSet0(f, v)
            BY <3>1, <3>2, NonFacts
        <3>6. OffSet(f, v) \in Families(S \ {v}) /\ g \in Families(S \ {v})
            BY <2>3, <3>1
        <3>3. r[<<OffSet(f, v), g>>] = NonSub(OffSet(f, v), g)
            BY <2>1, <3>6
        <3>4. NonSubsetsStep(r, f, g) = Zuniq(v, r[<<OffSet(f, v), g>>], OnSet0(f, v))
            BY <2>1, <2>2, <2>6
        <3> QED
            BY <2>1, <2>5, <3>3, <3>4, <3>5, NodeIs
    <2>7. CASE v = w
        <3>1. /\ r[<<OffSet(f, v), OffSet(g, v) \cup OnSet0(g, v)>>]
                    = NonSub(OffSet(f, v), OffSet(g, v) \cup OnSet0(g, v))
              /\ r[<<OnSet0(f, v), OnSet0(g, v)>>] = NonSub(OnSet0(f, v), OnSet0(g, v))
            BY <2>1, <2>3, <2>4
        <3>2. NonSubsetsStep(r, f, g) =
                    Zuniq(v, r[<<OffSet(f, v), OffSet(g, v) \cup OnSet0(g, v)>>],
                             r[<<OnSet0(f, v), OnSet0(g, v)>>])
            BY <2>1, <2>2, <2>7
        <3> QED
            BY <2>1, <2>5, <3>1, <3>2, NonSubSplit, NodeIs
    <2>8. CASE v > w
        <3>1. OffSet(f, w) = f /\ OnSet0(f, w) = Empty
            BY <2>1, <2>8, NotIn
        <3>2. OnSet0(NonSub(f, g), w) = Empty
              /\ OffSet(NonSub(f, g), w) = NonSub(f, OffSet(g, w) \cup OnSet0(g, w))
            BY <3>1, NonSubSplit, NonFacts
        <3>3. NonSub(f, g) = NonSub(f, OffSet(g, w) \cup OnSet0(g, w))
            BY <2>5, <3>2, NoHigh
        <3>4. r[<<f, OffSet(g, w) \cup OnSet0(g, w)>>] = NonSub(f, OffSet(g, w) \cup OnSet0(g, w))
            BY <2>1, <2>3, <2>4, <3>1
        <3> QED
            BY <2>1, <2>2, <2>8, <3>3, <3>4
    <2> QED
        BY <2>1, <2>6, <2>7, <2>8
<1> QED
    BY <1>1, <1>2, <1>3, <1>4

\* non_subsets() selects the sets that no set of the other operand contains.
LEMMA NonSubsetsIs ==
    ASSUME NEW f \in Families(Elems), NEW g \in Families(Elems)
    PROVE  NonSubsets(f, g) = NonSub(f, g)
<1> DEFINE V == Support(f) \cup Support(g)
           ref == [p \in Pairs(f, g) |-> NonSub(p[1], p[2])]
           found == CHOOSE h : h = [p \in Pairs(f, g) |-> NonSubsetsStep(h, p[1], p[2])]
<1>1. /\ V \in SUBSET Elems /\ IsFiniteSet(V) /\ f \in Families(V) /\ g \in Families(V)
      /\ Pairs(f, g) = Families(V) \X Families(V)
    BY OperandFacts DEF Pairs
<1>2. \A a, b \in Families(V) : ref[<<a, b>>] = NonSub(a, b)
    BY <1>1
<1>3. \A S \in SUBSET V : \A t \in S : Families(S) \subseteq Families(V)
                                     /\ Families(S \ {t}) \subseteq Families(V)
    BY Fewer
<1> HIDE DEF V, ref
<1>4. ASSUME NEW h, NEW S \in SUBSET V, NEW a \in Families(S), NEW b \in Families(S),
             \A t \in S : AgreeOnPairs(h, ref, S \ {t})
      PROVE  NonSubsetsStep(h, a, b) = NonSub(a, b)
    <2>1. \A t \in S : \A x, y \in Families(S \ {t}) : h[<<x, y>>] = NonSub(x, y)
        BY <1>2, <1>3, <1>4 DEF AgreeOnPairs
    <2>2. S \in SUBSET Elems
        BY <1>1
    <2> QED
        BY <2>1, <2>2, NonSubsetsSteps, Zenon
<1>5. ref = [p \in Pairs(f, g) |-> NonSubsetsStep(ref, p[1], p[2])]
    <2>1. \A a, b \in Families(V) : NonSubsetsStep(ref, a, b) = NonSub(a, b)
        BY <1>4, V \in SUBSET V DEF AgreeOnPairs
    <2> QED
        BY <1>1, <2>1 DEF ref
<1>6. found = [p \in Pairs(f, g) |-> NonSubsetsStep(found, p[1], p[2])]
    BY <1>5, Zenon
<1> HIDE DEF found
<1>7. \A a, b \in Families(V) : found[<<a, b>>] = NonSubsetsStep(found, a, b)
    BY <1>1, <1>6
<1>8. ASSUME NEW S \in SUBSET V, \A t \in S : AgreeOnPairs(found, ref, S \ {t})
      PROVE  AgreeOnPairs(found, ref, S)
    <2>1. \A a, b \in Families(S) : NonSubsetsStep(found, a, b) = NonSub(a, b)
        BY <1>4, <1>8
    <2>2. Families(S) \subseteq Families(V)
        BY Fewer
    <2> QED
        BY <1>2, <1>7, <2>1, <2>2 DEF AgreeOnPairs
<1>9. AgreeOnPairs(found, ref, V)
    BY <1>1, <1>8, PairInduction
<1>10. NonSubsets(f, g) = found[<<f, g>>]
    BY DEF NonSubsets, found
<1> QED
    BY <1>1, <1>2, <1>9, <1>10 DEF AgreeOnPairs

\* The same for recursions over families: the arguments have a support, and
\* the inner calls are on arguments whose support lacks an element of it.
Descends(D, R, step, supp) ==
    \A g, h \in [D -> R] : \A p \in D :
        (\A q \in D : (\E t \in supp[p] : supp[q] \subseteq supp[p] \ {t}) => g[q] = h[q])
        => step[<<g, p>>] = step[<<h, p>>]

LEMMA SupportRecursion ==
    ASSUME NEW V \in SUBSET Elems, NEW D, NEW supp \in [D -> SUBSET V], NEW R, R # {},
           NEW step \in [[D -> R] \X D -> R], Descends(D, R, step, supp)
    PROVE  Solvable(D, R, step)
<1> DEFINE size == [p \in D |-> Size(supp[p])]
<1>1. ASSUME NEW p \in D, NEW q \in D, NEW t \in supp[p], supp[q] \subseteq supp[p] \ {t}
      PROVE  size[q] < size[p]
    <2>1. supp[p] \in SUBSET Elems /\ supp[q] \in SUBSET (supp[p] \ {t})
        BY <1>1
    <2> QED
        BY <2>1, SmallerSize
<1>2. size \in [D -> 0..NumElems]
    <2>1. ASSUME NEW S \in SUBSET Elems PROVE Size(S) \in 0..NumElems
        <3>1. CASE S = {}
            BY <3>1, FS_EmptySet, LevelAssumption DEF Size
        <3>2. CASE S # {}
            <4>1. PICK t \in S : TRUE
                BY <3>2
            <4>2. {} \in SUBSET (S \ {t})
                OBVIOUS
            <4> QED
                BY <4>1, <4>2, SmallerSize
        <3> QED
            BY <3>1, <3>2
    <2>2. ASSUME NEW p \in D PROVE Size(supp[p]) \in 0..NumElems
        <3>1. supp[p] \in SUBSET Elems
            OBVIOUS
        <3> QED
            BY <2>1, <3>1
    <2> QED
        BY <2>2
<1> HIDE DEF size
<1>3. ASSUME NEW g \in [D -> R], NEW h \in [D -> R], NEW p \in D,
             \A q \in D : size[q] < size[p] => g[q] = h[q]
      PROVE  step[<<g, p>>] = step[<<h, p>>]
    <2>1. \A q \in D : (\E t \in supp[p] : supp[q] \subseteq supp[p] \ {t}) => g[q] = h[q]
        BY <1>1, <1>3
    <2> QED
        BY <2>1 DEF Descends
<1>4. Shrinks(D, R, step, size)
    BY <1>3 DEF Shrinks
<1> QED
    BY <1>2, <1>4, LevelAssumption, Recursion

LEMMA PairRecursion ==
    ASSUME NEW V \in SUBSET Elems, NEW D, D = Families(V) \X Families(V), NEW R, R # {},
           NEW step \in [[D -> R] \X D -> R],
           \A g, h \in [D -> R] : \A S \in SUBSET V : \A p \in Families(S) \X Families(S) :
               (\A t \in S : AgreeOnPairs(g, h, S \ {t})) => step[<<g, p>>] = step[<<h, p>>]
    PROVE  Solvable(D, R, step)
<1> DEFINE supp == [p \in D |-> Support(p[1]) \cup Support(p[2])]
<1>1. ASSUME NEW p \in D PROVE supp[p] \in SUBSET V 
                               /\ p \in Families(supp[p]) \X Families(supp[p])
    BY DEF Families, Support
<1>2. supp \in [D -> SUBSET V]
    BY <1>1
<1>3. ASSUME NEW S \in SUBSET V, NEW t \in S, NEW x \in Families(S \ {t}), NEW y \in Families(S \ {t})
      PROVE  <<x, y>> \in D /\ supp[<<x, y>>] \subseteq S \ {t}
    BY DEF Families, Support
<1> HIDE DEF supp
<1>4. ASSUME NEW g \in [D -> R], NEW h \in [D -> R], NEW p \in D,
             \A q \in D : (\E t \in supp[p] : supp[q] \subseteq supp[p] \ {t}) => g[q] = h[q]
      PROVE  step[<<g, p>>] = step[<<h, p>>]
    <2>1. \A t \in supp[p] : AgreeOnPairs(g, h, supp[p] \ {t})
        BY <1>1, <1>3, <1>4 DEF AgreeOnPairs
    <2> QED
        BY <1>1, <2>1
<1>5. Descends(D, R, step, supp)
    BY <1>4 DEF Descends
<1> QED
    BY <1>2, <1>5, SupportRecursion

LEMMA FamilyRecursion ==
    ASSUME NEW V \in SUBSET Elems, NEW D, D = Families(V), NEW R, R # {},
           NEW step \in [[D -> R] \X D -> R],
           \A g, h \in [D -> R] : \A S \in SUBSET V : \A a \in Families(S) :
               (\A t \in S : AgreeOn(g, h, S \ {t})) => step[<<g, a>>] = step[<<h, a>>]
    PROVE  Solvable(D, R, step)
<1> DEFINE supp == [p \in D |-> Support(p)]
<1>1. ASSUME NEW p \in D PROVE supp[p] \in SUBSET V /\ p \in Families(supp[p])
    BY DEF Families, Support
<1>2. supp \in [D -> SUBSET V]
    BY <1>1
<1>3. ASSUME NEW S \in SUBSET V, NEW t \in S, NEW x \in Families(S \ {t})
      PROVE  x \in D /\ supp[x] \subseteq S \ {t}
    BY DEF Families, Support
<1> HIDE DEF supp
<1>4. ASSUME NEW g \in [D -> R], NEW h \in [D -> R], NEW p \in D,
             \A q \in D : (\E t \in supp[p] : supp[q] \subseteq supp[p] \ {t}) => g[q] = h[q]
      PROVE  step[<<g, p>>] = step[<<h, p>>]
    <2>1. \A t \in supp[p] : AgreeOn(g, h, supp[p] \ {t})
        BY <1>1, <1>3, <1>4 DEF AgreeOn
    <2> QED
        BY <1>1, <2>1
<1>5. Descends(D, R, step, supp)
    BY <1>4 DEF Descends
<1> QED
    BY <1>2, <1>5, SupportRecursion

\* non_supersets() is right for second operands none of whose sets contains
\* another one.
Antichain(g) == \A s, t \in g : s \subseteq t => s = t

LEMMA AntichainFacts ==
    ASSUME NEW g, Antichain(g)
    PROVE  /\ \A v : Antichain(OffSet(g, v)) /\ Antichain(OnSet0(g, v))
           /\ g # Unit => {} \notin g
<1>1. \A v : Antichain(OffSet(g, v))
    BY OffSetIn DEF Antichain
<1>2. ASSUME NEW v, NEW s \in OnSet0(g, v), NEW t \in OnSet0(g, v), s \subseteq t PROVE s = t
    <2>1. /\ v \notin s /\ s \cup {v} \in g
          /\ v \notin t /\ t \cup {v} \in g
        BY OnSet0In
    <2>2. s \cup {v} = t \cup {v}
        BY <1>2, <2>1 DEF Antichain
    <2> QED
        BY <2>1, <2>2
<1>3. ASSUME {} \in g PROVE g = Unit
    <2>1. \A t \in g : {} = t
        BY <1>3 DEF Antichain
    <2> QED
        BY <1>3, <2>1 DEF Unit
<1> QED
    BY <1>1, <1>2, <1>3 DEF Antichain

\* How a call goes on: NonSupersetsOn(f, g, v) of the variable it splits at.
NonSupersetsOn(f, g, v) ==
    \/ /\ f = OffSet(f, v) /\ OnSet0(f, v) = Empty
       /\ \A r : NonSupersetsStep(r, f, g) = r[<<OffSet(f, v), OffSet(g, v)>>]
    \/ /\ g = OffSet(g, v) /\ OnSet0(g, v) = Empty
       /\ \A r : NonSupersetsStep(r, f, g) =
                    Zuniq(v, r[<<OffSet(f, v), OffSet(g, v)>>], r[<<OnSet0(f, v), OffSet(g, v)>>])
    \/ \A r : NonSupersetsStep(r, f, g) =
                    Zuniq(v, r[<<OffSet(f, v), OffSet(g, v)>>],
                          r[<<OnSet0(f, v), OffSet(g, v)>>] \cap r[<<OnSet0(f, v), OnSet0(g, v)>>])

LEMMA NonSupersetsCases ==
    ASSUME NEW S \in SUBSET Elems, NEW f \in Families(S), NEW g \in Families(S)
    PROVE  \/ g = Empty /\ \A r : NonSupersetsStep(r, f, g) = f
           \/ f \in {Empty, g} /\ \A r : NonSupersetsStep(r, f, g) = Empty
           \/ g = Unit /\ \A r : NonSupersetsStep(r, f, g) = Empty
           \/ f = Unit /\ g \notin {Empty, Unit} /\ \A r : NonSupersetsStep(r, f, g) = Unit
           \/ \E v \in S : NonSupersetsOn(f, g, v)
<1>1. CASE g = Empty
    BY <1>1 DEF NonSupersetsStep
<1>2. CASE g # Empty /\ (f = Empty \/ g = Unit \/ f = g)
    BY <1>2 DEF NonSupersetsStep
<1>3. CASE f = Unit /\ g \notin {Empty, Unit}
    BY <1>3, EmptyUnit DEF NonSupersetsStep
<1>4. CASE g \notin {Empty, Unit} /\ f \notin {Empty, Unit, g}
    <2> DEFINE v == Top(f)
               w == Top(g)
    <2>1. /\ v \in S /\ w \in S /\ v \in Nat /\ w \in Nat
          /\ v < w => v \notin Support(g)
          /\ v > w => w \notin Support(f)
        BY <1>4, LowerTop
    <2>2. \A r : NonSupersetsStep(r, f, g) =
            CASE v > w -> r[<<f, OffSet(g, w)>>]
              [] v < w -> Zuniq(v, r[<<OffSet(f, v), g>>], r[<<OnSet0(f, v), g>>])
              [] v = w -> Zuniq(v, r[<<OffSet(f, v), OffSet(g, w)>>],
                                r[<<OnSet0(f, v), OffSet(g, w)>>]
                                    \cap r[<<OnSet0(f, v), OnSet0(g, w)>>])
        BY <1>4 DEF NonSupersetsStep, Lo, Hi
    <2> HIDE DEF v, w
    <2>6. /\ v < w => ~(v > w) /\ v # w
          /\ v > w => ~(v < w) /\ v # w
          /\ v < w \/ v = w \/ v > w
        BY <2>1
    <2>3. CASE v < w
        <3>1. OffSet(g, v) = g /\ OnSet0(g, v) = Empty
            BY <2>1, <2>3, NotIn
        <3>2. \A r : NonSupersetsStep(r, f, g)
                        = Zuniq(v, r[<<OffSet(f, v), g>>], r[<<OnSet0(f, v), g>>])
            BY <2>2, <2>3, <2>6, Zenon
        <3> QED
            BY <2>1, <3>1, <3>2 DEF NonSupersetsOn
    <2>4. CASE v = w
        <3>1. \A r : NonSupersetsStep(r, f, g) =
                        Zuniq(v, r[<<OffSet(f, v), OffSet(g, v)>>],
                              r[<<OnSet0(f, v), OffSet(g, v)>>]
                                \cap r[<<OnSet0(f, v), OnSet0(g, v)>>])
            BY <2>1, <2>2, <2>4
        <3> QED
            BY <2>1, <3>1 DEF NonSupersetsOn
    <2>5. CASE v > w
        <3>1. OffSet(f, w) = f /\ OnSet0(f, w) = Empty
            BY <2>1, <2>5, NotIn
        <3>2. \A r : NonSupersetsStep(r, f, g) = r[<<f, OffSet(g, w)>>]
            BY <2>2, <2>5, <2>6, Zenon
        <3> QED
            BY <2>1, <3>1, <3>2 DEF NonSupersetsOn
    <2> QED
        BY <2>3, <2>4, <2>5, <2>6
<1> QED
    BY <1>1, <1>2, <1>3, <1>4

LEMMA NonSupersetsSteps ==
    ASSUME NEW S \in SUBSET Elems, NEW r,
           \A t \in S : \A a, b \in Families(S \ {t}) :
               Antichain(b) => r[<<a, b>>] = NonSup(a, b),
           NEW f \in Families(S), NEW g \in Families(S), Antichain(g)
    PROVE  NonSupersetsStep(r, f, g) = NonSup(f, g)
<1>1. CASE f = Unit /\ g \notin {Empty, Unit} /\ \A q : NonSupersetsStep(q, f, g) = Unit
    <2>1. {} \notin g
        BY <1>1, AntichainFacts
    <2>2. SupersetsOf(Unit, g) = {}
        BY <2>1 DEF SupersetsOf, Unit
    <2> QED
        BY <1>1, <2>2 DEF NonSup
<1>2. CASE \E v \in S : NonSupersetsOn(f, g, v)
    <2>1. PICK v \in S : NonSupersetsOn(f, g, v)
        BY <1>2
    <2>2. /\ OffSet(f, v) \in Families(S \ {v}) /\ OnSet0(f, v) \in Families(S \ {v})
          /\ OffSet(g, v) \in Families(S \ {v}) /\ OnSet0(g, v) \in Families(S \ {v})
        BY CofactorFacts
    <2>3. Antichain(OffSet(g, v)) /\ Antichain(OnSet0(g, v))
        BY AntichainFacts
    <2>4. /\ r[<<OffSet(f, v), OffSet(g, v)>>] = NonSup(OffSet(f, v), OffSet(g, v))
          /\ r[<<OnSet0(f, v), OffSet(g, v)>>] = NonSup(OnSet0(f, v), OffSet(g, v))
          /\ r[<<OnSet0(f, v), OnSet0(g, v)>>] = NonSup(OnSet0(f, v), OnSet0(g, v))
        BY <2>2, <2>3
    <2>5. /\ OnSet0(NonSup(f, g), v) = NonSup(OnSet0(f, v), OnSet0(g, v) \cup OffSet(g, v))
          /\ OffSet(NonSup(f, g), v) = NonSup(OffSet(f, v), OffSet(g, v))
        BY NonSupSplit
    <2>6. NonSup(OnSet0(f, v), OnSet0(g, v) \cup OffSet(g, v))
            = NonSup(OnSet0(f, v), OffSet(g, v)) \cap NonSup(OnSet0(f, v), OnSet0(g, v))
        BY NonFacts
    <2>7. NonSup(f, g) \in Families(S)
        BY NonFacts
    <2>8. CASE /\ f = OffSet(f, v) /\ OnSet0(f, v) = Empty
               /\ NonSupersetsStep(r, f, g) = r[<<OffSet(f, v), OffSet(g, v)>>]
        <3>1. OnSet0(NonSup(f, g), v) = Empty
            BY <2>5, <2>8, NonFacts
        <3> QED
            BY <2>4, <2>5, <2>7, <2>8, <3>1, NoHigh
    <2>9. CASE /\ g = OffSet(g, v) /\ OnSet0(g, v) = Empty
               /\ NonSupersetsStep(r, f, g) =
                    Zuniq(v, r[<<OffSet(f, v), OffSet(g, v)>>], r[<<OnSet0(f, v), OffSet(g, v)>>])
        <3>1. NonSup(OnSet0(f, v), Empty) = OnSet0(f, v)
            BY NonFacts
        <3>2. NonSup(OnSet0(f, v), OffSet(g, v)) \subseteq OnSet0(f, v)
            BY DEF NonSup
        <3>3. OnSet0(NonSup(f, g), v) = NonSup(OnSet0(f, v), OffSet(g, v))
            BY <2>5, <2>6, <2>9, <3>1, <3>2
        <3> QED
            BY <2>4, <2>5, <2>7, <2>9, <3>3, NodeIs
    <2>10. CASE NonSupersetsStep(r, f, g) =
                    Zuniq(v, r[<<OffSet(f, v), OffSet(g, v)>>],
                          r[<<OnSet0(f, v), OffSet(g, v)>>] \cap r[<<OnSet0(f, v), OnSet0(g, v)>>])
        <3>1. r[<<OnSet0(f, v), OffSet(g, v)>>] \cap r[<<OnSet0(f, v), OnSet0(g, v)>>]
                = OnSet0(NonSup(f, g), v)
            BY <2>4, <2>5, <2>6
        <3>2. Zuniq(v, OffSet(NonSup(f, g), v), OnSet0(NonSup(f, g), v)) = NonSup(f, g)
            BY <2>7, NodeIs
        <3> QED
            BY <2>4, <2>5, <2>10, <3>1, <3>2
    <2> QED
        BY <2>1, <2>8, <2>9, <2>10 DEF NonSupersetsOn
<1>3. CASE g = Empty /\ \A q : NonSupersetsStep(q, f, g) = f
    BY <1>3, NonFacts
<1>4. CASE f \in {Empty, g} /\ \A q : NonSupersetsStep(q, f, g) = Empty
    BY <1>4, NonFacts
<1>5. CASE g = Unit /\ \A q : NonSupersetsStep(q, f, g) = Empty
    BY <1>5, NonFacts
<1> QED
    BY <1>1, <1>2, <1>3, <1>4, <1>5, NonSupersetsCases

LEMMA ZuniqFamily ==
    ASSUME NEW V \in SUBSET Elems, NEW v \in V, NEW l \in Families(V), NEW h \in Families(V)
    PROVE  Zuniq(v, l, h) \in Families(V)
<1>1. {{v}} \in Families(Elems) /\ h \in Families(Elems)
    BY DEF Families
<1>2. Zuniq(v, l, h) = l \cup Joined({{v}}, h)
    BY <1>1, SingleIs, TimesIs DEF Zuniq
<1> QED
    BY <1>2 DEF Families, Joined

\* The inner calls of non_supersets() are on smaller families, and return such.
LEMMA NonSupersetsInner ==
    ASSUME NEW V \in SUBSET Elems, NEW S \in SUBSET V,
           NEW f \in Families(S), NEW g \in Families(S), NEW p
    PROVE  /\ \A q : (\A t \in S : AgreeOnPairs(p, q, S \ {t}))
                     => NonSupersetsStep(p, f, g) = NonSupersetsStep(q, f, g)
           /\ (\A a, b \in Families(V) : p[<<a, b>>] \in Families(V))
              => NonSupersetsStep(p, f, g) \in Families(V)
<1>1. ASSUME NEW v \in S, NonSupersetsOn(f, g, v)
      PROVE  /\ \A q : (\A t \in S : AgreeOnPairs(p, q, S \ {t}))
                       => NonSupersetsStep(p, f, g) = NonSupersetsStep(q, f, g)
             /\ (\A a, b \in Families(V) : p[<<a, b>>] \in Families(V))
                => NonSupersetsStep(p, f, g) \in Families(V)
    <2>1. /\ OffSet(f, v) \in Families(S \ {v}) /\ OnSet0(f, v) \in Families(S \ {v})
          /\ OffSet(g, v) \in Families(S \ {v}) /\ OnSet0(g, v) \in Families(S \ {v})
        BY CofactorFacts
    <2>2. ASSUME NEW q, \A t \in S : AgreeOnPairs(p, q, S \ {t})
          PROVE  NonSupersetsStep(p, f, g) = NonSupersetsStep(q, f, g)
        <3>1. /\ p[<<OffSet(f, v), OffSet(g, v)>>] = q[<<OffSet(f, v), OffSet(g, v)>>]
              /\ p[<<OnSet0(f, v), OffSet(g, v)>>] = q[<<OnSet0(f, v), OffSet(g, v)>>]
              /\ p[<<OnSet0(f, v), OnSet0(g, v)>>] = q[<<OnSet0(f, v), OnSet0(g, v)>>]
            BY <2>1, <2>2 DEF AgreeOnPairs
        <3> QED
            BY <1>1, <3>1 DEF NonSupersetsOn
    <2>3. ASSUME \A a, b \in Families(V) : p[<<a, b>>] \in Families(V)
          PROVE  NonSupersetsStep(p, f, g) \in Families(V)
        <3>1. Families(S \ {v}) \subseteq Families(V)
            BY DEF Families
        <3>2. /\ p[<<OffSet(f, v), OffSet(g, v)>>] \in Families(V)
              /\ p[<<OnSet0(f, v), OffSet(g, v)>>] \in Families(V)
              /\ p[<<OnSet0(f, v), OffSet(g, v)>>] \cap p[<<OnSet0(f, v), OnSet0(g, v)>>]
                    \in Families(V)
            BY <2>1, <2>3, <3>1 DEF Families
        <3>3. /\ Zuniq(v, p[<<OffSet(f, v), OffSet(g, v)>>], p[<<OnSet0(f, v), OffSet(g, v)>>])
                    \in Families(V)
              /\ Zuniq(v, p[<<OffSet(f, v), OffSet(g, v)>>],
                       p[<<OnSet0(f, v), OffSet(g, v)>>] \cap p[<<OnSet0(f, v), OnSet0(g, v)>>])
                    \in Families(V)
            BY <3>2, ZuniqFamily
        <3> QED
            BY <1>1, <3>2, <3>3 DEF NonSupersetsOn
    <2> QED
        BY <2>2, <2>3
<1>2. S \in SUBSET Elems /\ f \in Families(V) /\ Empty \in Families(V) /\ Unit \in Families(V)
    BY DEF Families, Empty, Unit
<1>3. \/ g = Empty /\ \A r : NonSupersetsStep(r, f, g) = f
      \/ f \in {Empty, g} /\ \A r : NonSupersetsStep(r, f, g) = Empty
      \/ g = Unit /\ \A r : NonSupersetsStep(r, f, g) = Empty
      \/ f = Unit /\ g \notin {Empty, Unit} /\ \A r : NonSupersetsStep(r, f, g) = Unit
      \/ \E v \in S : NonSupersetsOn(f, g, v)
    BY <1>2, NonSupersetsCases
<1> QED
    BY <1>1, <1>2, <1>3

\* non_supersets() selects the sets that contain no set of the other operand.
LEMMA NonSupersetsIs ==
    ASSUME NEW f \in Families(Elems), NEW g \in Families(Elems), Antichain(g)
    PROVE  NonSupersets(f, g) = NonSup(f, g)
<1> DEFINE V == Support(f) \cup Support(g)
           D == Pairs(f, g)
           R == Families(V)
           step == [x \in [D -> R] \X D |-> NonSupersetsStep(x[1], x[2][1], x[2][2])]
           found == CHOOSE h : h = [p \in D |-> NonSupersetsStep(h, p[1], p[2])]
           Good == {S \in SUBSET V : \A a, b \in Families(S) :
                                        Antichain(b) => found[<<a, b>>] = NonSup(a, b)}
<1>1. /\ V \in SUBSET Elems /\ IsFiniteSet(V) /\ f \in Families(V) /\ g \in Families(V)
      /\ D = Families(V) \X Families(V)
    BY OperandFacts DEF Pairs
<1>10. NonSupersets(f, g) = found[<<f, g>>]
    BY DEF NonSupersets, found
<1> HIDE DEF V, D
<1>2. R # {} /\ V \in SUBSET V
    BY <1>1
<1>3. step \in [[D -> R] \X D -> R]
    <2>1. ASSUME NEW h \in [D -> R], NEW p \in D
          PROVE  NonSupersetsStep(h, p[1], p[2]) \in R
        <3>1. \A a, b \in Families(V) : h[<<a, b>>] \in Families(V)
            BY <1>1
        <3> QED
            BY <1>1, <1>2, <3>1, NonSupersetsInner
    <2> QED
        BY <2>1
<1>4. ASSUME NEW q \in [D -> R], NEW h \in [D -> R], NEW S \in SUBSET V,
             NEW p \in Families(S) \X Families(S), \A t \in S : AgreeOnPairs(q, h, S \ {t})
      PROVE  step[<<q, p>>] = step[<<h, p>>]
    <2>1. p \in D
        BY <1>1 DEF Families
    <2>2. NonSupersetsStep(q, p[1], p[2]) = NonSupersetsStep(h, p[1], p[2])
        BY <1>1, <1>4, NonSupersetsInner
    <2> QED
        BY <2>1, <2>2
<1>5. \A h \in [D -> R], p \in D : step[<<h, p>>] = NonSupersetsStep(h, p[1], p[2])
    OBVIOUS
<1> HIDE DEF R, step
<1>6. Solvable(D, R, step)
    BY <1>1, <1>2, <1>3, <1>4, PairRecursion DEF R
<1>7. PICK h \in [D -> R] : \A p \in D : h[p] = step[<<h, p>>]
    BY <1>6 DEF Solvable
<1>8. h = [p \in D |-> NonSupersetsStep(h, p[1], p[2])]
    BY <1>5, <1>7
<1>9. found = [p \in D |-> NonSupersetsStep(found, p[1], p[2])]
    BY <1>8, Zenon
<1> HIDE DEF found
<1>11. \A a, b \in Families(V) : found[<<a, b>>] = NonSupersetsStep(found, a, b)
    BY <1>1, <1>9
<1>12. ASSUME NEW S \in SUBSET V, \A t \in S : S \ {t} \in Good
       PROVE  S \in Good
    <2>1. \A t \in S : \A a, b \in Families(S \ {t}) :
            Antichain(b) => found[<<a, b>>] = NonSup(a, b)
        BY <1>12
    <2>2. S \in SUBSET Elems /\ Families(S) \subseteq Families(V)
        BY <1>1 DEF Families
    <2>3. ASSUME NEW a \in Families(S), NEW b \in Families(S), Antichain(b)
          PROVE  NonSupersetsStep(found, a, b) = NonSup(a, b)
        BY <2>1, <2>2, <2>3, NonSupersetsSteps
    <2> QED
        BY <1>11, <2>2, <2>3
<1> HIDE DEF Good
<1>13. V \in Good
    BY <1>1, <1>12, SetInduction
<1> QED
    BY <1>1, <1>10, <1>13 DEF Good

LEMMA ProperSubset ==
    ASSUME NEW T \in SUBSET Elems, NEW U, U \subseteq T, U # T
    PROVE  /\ Cardinality(T) \in Nat /\ Cardinality(U) \in Nat
           /\ Cardinality(U) < Cardinality(T)
<1>1. IsFiniteSet(T)
    BY ElemFacts, FS_Subset
<1>2. IsFiniteSet(U) /\ Cardinality(U) <= Cardinality(T) /\ Cardinality(U) # Cardinality(T)
    BY <1>1, FS_Subset
<1> QED
    BY <1>1, <1>2, FS_CardinalityType

\* Below a set of a family there is a minimal one, and above it a maximal one.
LEMMA MinimalBelow ==
    ASSUME NEW f \in Families(Elems), NEW s \in f
    PROVE  \E t \in Minimal(f) : t \subseteq s
<1> DEFINE Ks == {Cardinality(t) : t \in {u \in f : u \subseteq s}}
<1>1. \A t \in f : t \in SUBSET Elems /\ Cardinality(t) \in Nat
    BY ElemFacts, FS_Subset, FS_CardinalityType DEF Families
<1>2. Ks \in SUBSET Nat /\ Ks # {}
    BY <1>1
<1>3. PICK n \in Ks : \A m \in Ks : n <= m
    BY <1>2, LeastElement
<1>4. PICK t \in f : t \subseteq s /\ Cardinality(t) = n
    BY <1>3
<1>5. ASSUME NEW u \in f, u \subseteq t, u # t PROVE FALSE
    <2>1. Cardinality(u) \in Ks
        BY <1>4, <1>5
    <2>2. n <= Cardinality(u)
        BY <1>3, <2>1
    <2>3. Cardinality(u) < Cardinality(t)
        BY <1>1, <1>5, ProperSubset
    <2> QED
        BY <1>1, <1>4, <2>2, <2>3
<1> QED
    BY <1>4, <1>5 DEF Minimal

LEMMA MaximalAbove ==
    ASSUME NEW f \in Families(Elems), NEW s \in f
    PROVE  \E t \in Maximal(f) : s \subseteq t
<1> DEFINE Ks == {Cardinality(Elems \ t) : t \in {u \in f : s \subseteq u}}
<1>1. \A t \in f : t \in SUBSET Elems /\ Cardinality(Elems \ t) \in Nat
    BY ElemFacts, FS_Subset, FS_CardinalityType DEF Families
<1>2. Ks \in SUBSET Nat /\ Ks # {}
    BY <1>1
<1>3. PICK n \in Ks : \A m \in Ks : n <= m
    BY <1>2, LeastElement
<1>4. PICK t \in f : s \subseteq t /\ Cardinality(Elems \ t) = n
    BY <1>3
<1>5. ASSUME NEW u \in f, t \subseteq u, u # t PROVE FALSE
    <2>1. Cardinality(Elems \ u) \in Ks
        BY <1>4, <1>5
    <2>2. n <= Cardinality(Elems \ u)
        BY <1>3, <2>1
    <2>3. u \in SUBSET Elems /\ t \in SUBSET Elems
        BY <1>1
    <2>4. Elems \ u \subseteq Elems \ t /\ Elems \ u # Elems \ t /\ Elems \ t \in SUBSET Elems
        BY <1>5, <2>3
    <2>5. Cardinality(Elems \ u) < Cardinality(Elems \ t)
        BY <2>4, ProperSubset
    <2> QED
        BY <1>1, <1>4, <2>2, <2>5
<1> QED
    BY <1>4, <1>5 DEF Maximal

\* So the minimal sets exclude the same supersets as all sets.
LEMMA MinimalFacts ==
    ASSUME NEW f \in Families(Elems)
    PROVE  /\ Minimal(f) \in Families(Elems) /\ Antichain(Minimal(f))
           /\ \A s : Inside(Minimal(f), s) <=> Inside(f, s)
<1>1. Minimal(f) \in Families(Elems) /\ Antichain(Minimal(f))
    BY DEF Minimal, Families, Antichain
<1>2. ASSUME NEW s, Inside(f, s) PROVE Inside(Minimal(f), s)
    <2>1. PICK t \in f : t \subseteq s
        BY <1>2 DEF Inside
    <2>2. PICK u \in Minimal(f) : u \subseteq t
        BY MinimalBelow
    <2> QED
        BY <2>1, <2>2 DEF Inside
<1>3. \A s : Inside(Minimal(f), s) => Inside(f, s)
    BY DEF Inside, Minimal
<1> QED
    BY <1>1, <1>2, <1>3

LEMMA MaximalFacts ==
    ASSUME NEW f \in Families(Elems)
    PROVE  /\ Maximal(f) \in Families(Elems)
           /\ \A s : Covering(Maximal(f), s) <=> Covering(f, s)
<1>1. Maximal(f) \in Families(Elems)
    BY DEF Maximal, Families
<1>2. ASSUME NEW s, Covering(f, s) PROVE Covering(Maximal(f), s)
    <2>1. PICK t \in f : s \subseteq t
        BY <1>2 DEF Covering
    <2>2. PICK u \in Maximal(f) : t \subseteq u
        BY MaximalAbove
    <2> QED
        BY <2>1, <2>2 DEF Covering
<1>3. \A s : Covering(Maximal(f), s) => Covering(f, s)
    BY DEF Covering, Maximal
<1> QED
    BY <1>1, <1>2, <1>3

LEMMA MinimalSplit ==
    ASSUME NEW f \in Families(Elems), NEW v
    PROVE  /\ OffSet(Minimal(f), v) = Minimal(OffSet(f, v))
           /\ OnSet0(Minimal(f), v) = NonSup(Minimal(OnSet0(f, v)), Minimal(OffSet(f, v)))
<1>1. OffSet(Minimal(f), v) = Minimal(OffSet(f, v))
    BY DEF OffSet, Minimal
<1>2. ASSUME NEW s
      PROVE  s \in OnSet0(Minimal(f), v)
                <=> s \in NonSup(Minimal(OnSet0(f, v)), Minimal(OffSet(f, v)))
    <2>1. OffSet(f, v) \in Families(Elems) /\ OnSet0(f, v) \in Families(Elems)
        BY CofactorFacts DEF Families
    <2>2. /\ s \in OnSet0(Minimal(f), v) <=> v \notin s /\ s \cup {v} \in Minimal(f)
          /\ s \in OnSet0(f, v) <=> v \notin s /\ s \cup {v} \in f
        BY OnSet0In, Zenon
    <2>3. s \in NonSup(Minimal(OnSet0(f, v)), Minimal(OffSet(f, v)))
            <=> s \in Minimal(OnSet0(f, v)) /\ ~Inside(OffSet(f, v), s)
        BY <2>1, NonIn, MinimalFacts
    <2>4. ASSUME v \notin s, s \cup {v} \in Minimal(f)
          PROVE  s \in Minimal(OnSet0(f, v)) /\ ~Inside(OffSet(f, v), s)
        <3>1. s \cup {v} \in f /\ \A t \in f : t \subseteq s \cup {v} => t = s \cup {v}
            BY <2>4 DEF Minimal
        <3>2. ASSUME NEW t \in OnSet0(f, v), t \subseteq s PROVE t = s
            <4>1. v \notin t /\ t \cup {v} \in f
                BY OnSet0In
            <4>2. t \cup {v} = s \cup {v}
                BY <3>1, <3>2, <4>1
            <4> QED
                BY <2>4, <4>1, <4>2
        <3>3. ASSUME NEW t \in OffSet(f, v), t \subseteq s PROVE FALSE
            <4>1. t \in f /\ v \notin t
                BY OffSetIn
            <4>2. t = s \cup {v}
                BY <3>1, <3>3, <4>1
            <4> QED
                BY <4>1, <4>2
        <3>4. s \in OnSet0(f, v)
            BY <2>2, <2>4, <3>1
        <3> QED
            BY <3>2, <3>3, <3>4 DEF Minimal, Inside
    <2>5. ASSUME s \in Minimal(OnSet0(f, v)), ~Inside(OffSet(f, v), s)
          PROVE  v \notin s /\ s \cup {v} \in Minimal(f)
        <3>1. s \in OnSet0(f, v) /\ \A t \in OnSet0(f, v) : t \subseteq s => t = s
            BY <2>5 DEF Minimal
        <3>2. v \notin s /\ s \cup {v} \in f
            BY <2>2, <3>1
        <3>3. ASSUME NEW t \in f, t \subseteq s \cup {v} PROVE t = s \cup {v}
            <4>1. CASE v \in t
                <5>1. t \ {v} \in OnSet0(f, v)
                    BY <4>1, OnSet0Has
                <5>2. t \ {v} \subseteq s
                    BY <3>3
                <5>3. t \ {v} = s
                    BY <3>1, <5>1, <5>2
                <5> QED
                    BY <4>1, <5>3
            <4>2. CASE v \notin t
                <5>1. t \in OffSet(f, v) /\ t \subseteq s
                    BY <3>3, <4>2, OffSetIn
                <5> QED
                    BY <2>5, <5>1 DEF Inside
            <4> QED
                BY <4>1, <4>2
        <3> QED
            BY <3>2, <3>3 DEF Minimal
    <2> QED
        BY <2>2, <2>3, <2>4, <2>5
<1> QED
    BY <1>1, <1>2

LEMMA MaximalSplit ==
    ASSUME NEW f \in Families(Elems), NEW v
    PROVE  /\ OnSet0(Maximal(f), v) = Maximal(OnSet0(f, v))
           /\ OffSet(Maximal(f), v) = NonSub(Maximal(OffSet(f, v)), Maximal(OnSet0(f, v)))
<1>1. ASSUME NEW s PROVE s \in OnSet0(Maximal(f), v) <=> s \in Maximal(OnSet0(f, v))
    <2>1. /\ s \in OnSet0(Maximal(f), v) <=> v \notin s /\ s \cup {v} \in Maximal(f)
          /\ s \in OnSet0(f, v) <=> v \notin s /\ s \cup {v} \in f
        BY OnSet0In, Zenon
    <2>2. ASSUME v \notin s, s \cup {v} \in Maximal(f) PROVE s \in Maximal(OnSet0(f, v))
        <3>1. s \cup {v} \in f /\ \A t \in f : s \cup {v} \subseteq t => t = s \cup {v}
            BY <2>2 DEF Maximal
        <3>2. ASSUME NEW t \in OnSet0(f, v), s \subseteq t PROVE t = s
            <4>1. v \notin t /\ t \cup {v} \in f
                BY OnSet0In
            <4>2. t \cup {v} = s \cup {v}
                BY <3>1, <3>2, <4>1
            <4> QED
                BY <2>2, <4>1, <4>2
        <3> QED
            BY <2>1, <2>2, <3>1, <3>2 DEF Maximal
    <2>3. ASSUME s \in Maximal(OnSet0(f, v)) PROVE v \notin s /\ s \cup {v} \in Maximal(f)
        <3>1. s \in OnSet0(f, v) /\ \A t \in OnSet0(f, v) : s \subseteq t => t = s
            BY <2>3 DEF Maximal
        <3>2. v \notin s /\ s \cup {v} \in f
            BY <2>1, <3>1
        <3>3. ASSUME NEW t \in f, s \cup {v} \subseteq t PROVE t = s \cup {v}
            <4>1. v \in t
                BY <3>3
            <4>2. t \ {v} \in OnSet0(f, v)
                BY <4>1, OnSet0Has
            <4>3. t \ {v} = s
                BY <3>1, <3>2, <3>3, <4>2
            <4> QED
                BY <4>1, <4>3
        <3> QED
            BY <3>2, <3>3 DEF Maximal
    <2> QED
        BY <2>1, <2>2, <2>3
<1>2. ASSUME NEW s
      PROVE  s \in OffSet(Maximal(f), v)
                <=> s \in NonSub(Maximal(OffSet(f, v)), Maximal(OnSet0(f, v)))
    <2>1. OffSet(f, v) \in Families(Elems) /\ OnSet0(f, v) \in Families(Elems)
        BY CofactorFacts DEF Families
    <2>2. s \in NonSub(Maximal(OffSet(f, v)), Maximal(OnSet0(f, v)))
            <=> s \in Maximal(OffSet(f, v)) /\ ~Covering(OnSet0(f, v), s)
        BY <2>1, NonIn, MaximalFacts
    <2>3. ASSUME v \notin s, s \in Maximal(f)
          PROVE  s \in Maximal(OffSet(f, v)) /\ ~Covering(OnSet0(f, v), s)
        <3>1. s \in f /\ \A t \in f : s \subseteq t => t = s
            BY <2>3 DEF Maximal
        <3>2. ASSUME NEW t \in OnSet0(f, v), s \subseteq t PROVE FALSE
            <4>1. v \notin t /\ t \cup {v} \in f
                BY OnSet0In
            <4>2. t \cup {v} = s
                BY <3>1, <3>2, <4>1
            <4> QED
                BY <2>3, <4>2
        <3> QED
            BY <2>3, <3>1, <3>2, OffSetIn DEF Maximal, Covering
    <2>4. ASSUME s \in Maximal(OffSet(f, v)), ~Covering(OnSet0(f, v), s)
          PROVE  v \notin s /\ s \in Maximal(f)
        <3>1. s \in f /\ v \notin s /\ \A t \in OffSet(f, v) : s \subseteq t => t = s
            BY <2>4, OffSetIn DEF Maximal
        <3>2. ASSUME NEW t \in f, s \subseteq t PROVE t = s
            <4>1. CASE v \in t
                <5>1. t \ {v} \in OnSet0(f, v) /\ s \subseteq t \ {v}
                    BY <3>1, <3>2, <4>1, OnSet0Has
                <5> QED
                    BY <2>4, <5>1 DEF Covering
            <4>2. CASE v \notin t
                BY <3>1, <3>2, <4>2, OffSetIn
            <4> QED
                BY <4>1, <4>2
        <3> QED
            BY <3>1, <3>2 DEF Maximal
    <2> QED
        BY <2>2, <2>3, <2>4, OffSetIn
<1> QED
    BY <1>1, <1>2

LEMMA MinimalSteps ==
    ASSUME NEW S \in SUBSET Elems, NEW r,
           \A t \in S : \A a \in Families(S \ {t}) : r[a] = Minimal(a),
           NEW f \in Families(S)
    PROVE  MinimalStep(r, f) = Minimal(f)
<1>1. f \in Families(Elems)
    BY DEF Families
<1>2. CASE f \in {Empty, Unit}
    <2>1. Minimal(f) = f
        BY <1>2 DEF Minimal, Empty, Unit
    <2>2. IsTerm(f)
        BY <1>1, <1>2, TopFacts DEF IsTerm
    <2> QED
        BY <2>1, <2>2 DEF MinimalStep
<1>3. CASE f \notin {Empty, Unit}
    <2> DEFINE v == Top(f)
    <2>1. v \in S /\ v \in Elems /\ v # 0
        BY <1>1, <1>3, TopFacts, SupportFacts, ElemFacts
    <2>2. MinimalStep(r, f) = Zuniq(v, r[OffSet(f, v)], NonSupersets(r[OnSet0(f, v)], r[OffSet(f, v)]))
        BY <2>1 DEF MinimalStep, IsTerm, Lo, Hi
    <2> HIDE DEF v
    <2>3. OffSet(f, v) \in Families(S \ {v}) /\ OnSet0(f, v) \in Families(S \ {v})
        BY CofactorFacts
    <2>4. r[OffSet(f, v)] = Minimal(OffSet(f, v)) /\ r[OnSet0(f, v)] = Minimal(OnSet0(f, v))
        BY <2>1, <2>3
    <2>5. OffSet(f, v) \in Families(Elems) /\ OnSet0(f, v) \in Families(Elems)
        BY <2>3 DEF Families
    <2>6. NonSupersets(Minimal(OnSet0(f, v)), Minimal(OffSet(f, v)))
                = NonSup(Minimal(OnSet0(f, v)), Minimal(OffSet(f, v)))
        BY <2>5, MinimalFacts, NonSupersetsIs
    <2>7. Minimal(f) \in Families(S)
        BY DEF Minimal, Families
    <2>8. Zuniq(v, OffSet(Minimal(f), v), OnSet0(Minimal(f), v)) = Minimal(f)
        BY <2>1, <2>7, NodeIs
    <2> QED
        BY <1>1, <2>2, <2>4, <2>6, <2>8, MinimalSplit
<1> QED
    BY <1>2, <1>3

\* minimal() leaves the sets that contain no other.
LEMMA MinimalIs ==
    ASSUME NEW f \in Families(Elems)
    PROVE  MinimalOf(f) = Minimal(f)
<1> DEFINE V == Support(f)
           ref == [x \in Over(f, f) |-> Minimal(x)]
           found == CHOOSE h : h = [x \in Over(f, f) |-> MinimalStep(h, x)]
<1>1. /\ V \in SUBSET Elems /\ IsFiniteSet(V) /\ f \in Families(V)
      /\ Over(f, f) = Families(V)
    BY OperandFacts
<1>2. \A a \in Families(V) : ref[a] = Minimal(a)
    BY <1>1
<1>3. \A S \in SUBSET V : \A t \in S : Families(S) \subseteq Families(V)
                                     /\ Families(S \ {t}) \subseteq Families(V)
    BY Fewer
<1> HIDE DEF V, ref
<1>4. ASSUME NEW h, NEW S \in SUBSET V, NEW a \in Families(S),
             \A t \in S : AgreeOn(h, ref, S \ {t})
      PROVE  MinimalStep(h, a) = Minimal(a)
    <2>1. \A t \in S : \A x \in Families(S \ {t}) : h[x] = Minimal(x)
        BY <1>2, <1>3, <1>4 DEF AgreeOn
    <2> QED
        BY <1>1, <2>1, MinimalSteps
<1>5. ref = [x \in Over(f, f) |-> MinimalStep(ref, x)]
    <2>1. \A a \in Families(V) : MinimalStep(ref, a) = Minimal(a)
        BY <1>4, V \in SUBSET V DEF AgreeOn
    <2> QED
        BY <1>1, <2>1 DEF ref
<1>6. found = [x \in Over(f, f) |-> MinimalStep(found, x)]
    BY <1>5, Zenon
<1> HIDE DEF found
<1>7. \A a \in Families(V) : found[a] = MinimalStep(found, a)
    BY <1>1, <1>6
<1>8. ASSUME NEW S \in SUBSET V, \A t \in S : AgreeOn(found, ref, S \ {t})
      PROVE  AgreeOn(found, ref, S)
    <2>1. \A a \in Families(S) : MinimalStep(found, a) = Minimal(a)
        BY <1>4, <1>8
    <2>2. Families(S) \subseteq Families(V)
        BY Fewer
    <2> QED
        BY <1>2, <1>7, <2>1, <2>2 DEF AgreeOn
<1>9. AgreeOn(found, ref, V)
    BY <1>1, <1>8, FamilyInduction
<1>10. MinimalOf(f) = found[f]
    BY DEF MinimalOf, found
<1> QED
    BY <1>1, <1>2, <1>9, <1>10 DEF AgreeOn

LEMMA MaximalSteps ==
    ASSUME NEW S \in SUBSET Elems, NEW r,
           \A t \in S : \A a \in Families(S \ {t}) : r[a] = Maximal(a),
           NEW f \in Families(S)
    PROVE  MaximalStep(r, f) = Maximal(f)
<1>1. f \in Families(Elems)
    BY DEF Families
<1>2. CASE f \in {Empty, Unit}
    <2>1. Maximal(f) = f
        BY <1>2 DEF Maximal, Empty, Unit
    <2>2. IsTerm(f)
        BY <1>1, <1>2, TopFacts DEF IsTerm
    <2> QED
        BY <2>1, <2>2 DEF MaximalStep
<1>3. CASE f \notin {Empty, Unit}
    <2> DEFINE v == Top(f)
    <2>1. v \in S /\ v \in Elems /\ v # 0
        BY <1>1, <1>3, TopFacts, SupportFacts, ElemFacts
    <2>2. MaximalStep(r, f) = Zuniq(v, NonSubsets(r[OffSet(f, v)], r[OnSet0(f, v)]), r[OnSet0(f, v)])
        BY <2>1 DEF MaximalStep, IsTerm, Lo, Hi
    <2> HIDE DEF v
    <2>3. OffSet(f, v) \in Families(S \ {v}) /\ OnSet0(f, v) \in Families(S \ {v})
        BY CofactorFacts
    <2>4. r[OffSet(f, v)] = Maximal(OffSet(f, v)) /\ r[OnSet0(f, v)] = Maximal(OnSet0(f, v))
        BY <2>1, <2>3
    <2>5. OffSet(f, v) \in Families(Elems) /\ OnSet0(f, v) \in Families(Elems)
        BY <2>3 DEF Families
    <2>6. NonSubsets(Maximal(OffSet(f, v)), Maximal(OnSet0(f, v)))
                = NonSub(Maximal(OffSet(f, v)), Maximal(OnSet0(f, v)))
        BY <2>5, MaximalFacts, NonSubsetsIs
    <2>7. Maximal(f) \in Families(S)
        BY DEF Maximal, Families
    <2>8. Zuniq(v, OffSet(Maximal(f), v), OnSet0(Maximal(f), v)) = Maximal(f)
        BY <2>1, <2>7, NodeIs
    <2> QED
        BY <1>1, <2>2, <2>4, <2>6, <2>8, MaximalSplit
<1> QED
    BY <1>2, <1>3

\* maximal() leaves the sets that no other contains.
LEMMA MaximalIs ==
    ASSUME NEW f \in Families(Elems)
    PROVE  MaximalOf(f) = Maximal(f)
<1> DEFINE V == Support(f)
           ref == [x \in Over(f, f) |-> Maximal(x)]
           found == CHOOSE h : h = [x \in Over(f, f) |-> MaximalStep(h, x)]
<1>1. /\ V \in SUBSET Elems /\ IsFiniteSet(V) /\ f \in Families(V)
      /\ Over(f, f) = Families(V)
    BY OperandFacts
<1>2. \A a \in Families(V) : ref[a] = Maximal(a)
    BY <1>1
<1>3. \A S \in SUBSET V : \A t \in S : Families(S) \subseteq Families(V)
                                     /\ Families(S \ {t}) \subseteq Families(V)
    BY Fewer
<1> HIDE DEF V, ref
<1>4. ASSUME NEW h, NEW S \in SUBSET V, NEW a \in Families(S),
             \A t \in S : AgreeOn(h, ref, S \ {t})
      PROVE  MaximalStep(h, a) = Maximal(a)
    <2>1. \A t \in S : \A x \in Families(S \ {t}) : h[x] = Maximal(x)
        BY <1>2, <1>3, <1>4 DEF AgreeOn
    <2> QED
        BY <1>1, <2>1, MaximalSteps
<1>5. ref = [x \in Over(f, f) |-> MaximalStep(ref, x)]
    <2>1. \A a \in Families(V) : MaximalStep(ref, a) = Maximal(a)
        BY <1>4, V \in SUBSET V DEF AgreeOn
    <2> QED
        BY <1>1, <2>1 DEF ref
<1>6. found = [x \in Over(f, f) |-> MaximalStep(found, x)]
    BY <1>5, Zenon
<1> HIDE DEF found
<1>7. \A a \in Families(V) : found[a] = MaximalStep(found, a)
    BY <1>1, <1>6
<1>8. ASSUME NEW S \in SUBSET V, \A t \in S : AgreeOn(found, ref, S \ {t})
      PROVE  AgreeOn(found, ref, S)
    <2>1. \A a \in Families(S) : MaximalStep(found, a) = Maximal(a)
        BY <1>4, <1>8
    <2>2. Families(S) \subseteq Families(V)
        BY Fewer
    <2> QED
        BY <1>2, <1>7, <2>1, <2>2 DEF AgreeOn
<1>9. AgreeOn(found, ref, V)
    BY <1>1, <1>8, FamilyInduction
<1>10. MaximalOf(f) = found[f]
    BY DEF MaximalOf, found
<1> QED
    BY <1>1, <1>2, <1>9, <1>10 DEF AgreeOn
-----------------------------------------------------------------------------
(***************************************************************************)
(* Loops over the elements of a set                                        *)
(***************************************************************************)
\* Two functions that a loop defines, one element after the other, are equal.
LEMMA SameLoop ==
    ASSUME NEW T, IsFiniteSet(T), NEW a, NEW b,
           \A s \in SUBSET T : (\A t \in s : a[s \ {t}] = b[s \ {t}]) => a[s] = b[s]
    PROVE  a[T] = b[T]
<1> DEFINE Good == {s \in SUBSET T : a[s] = b[s]}
<1>1. ASSUME NEW s \in SUBSET T, \A t \in s : s \ {t} \in Good PROVE s \in Good
    BY <1>1
<1> HIDE DEF Good
<1>2. T \in Good
    BY <1>1, SetInduction
<1> QED
    BY <1>2 DEF Good
-----------------------------------------------------------------------------
(***************************************************************************)
(* Hitting sets                                                            *)
(***************************************************************************)
\* The sets of g with any of the elements in J.
Widened(g, J) == Joined(g, SUBSET J)
Without(g, J) == \A a \in g : a \cap J = {}

LEMMA WidenedIn ==
    ASSUME NEW g, NEW J, Without(g, J)
    PROVE  \A s : s \in Widened(g, J) <=> s \ J \in g
<1>1. ASSUME NEW s \in Widened(g, J) PROVE s \ J \in g
    <2>1. \E a \in g : \E b : b \subseteq J /\ s = a \cup b
        BY DEF Widened, Joined
    <2>2. PICK a \in g : \E b : b \subseteq J /\ s = a \cup b
        BY <2>1
    <2>3. s \ J = a
        BY <2>2 DEF Without
    <2> QED
        BY <2>3
<1>2. ASSUME NEW s, s \ J \in g PROVE s \in Widened(g, J)
    <2> DEFINE a == s \ J
               b == s \cap J
    <2>1. s = a \cup b /\ a \in g /\ b \in SUBSET J
        BY <1>2
    <2> HIDE DEF a, b
    <2> QED
        BY <2>1 DEF Widened, Joined
<1> QED
    BY <1>1, <1>2

\* Adding the sets changed by an element frees it.
WidenedBy(g, J, e) == Widened(g, J) \cup Change(Widened(g, J), e)

LEMMA WidenedFree ==
    ASSUME NEW g, NEW J, NEW e, e \notin J, Without(g, J), Without(g, {e})
    PROVE  WidenedBy(g, J, e) = Widened(g, J \cup {e})
<1>1. Without(g, J \cup {e})
    BY DEF Without
<1>2. \A s : s \in Widened(g, J) <=> s \ J \in g
    BY WidenedIn
<1>3. \A s : s \in Widened(g, J \cup {e}) <=> s \ (J \cup {e}) \in g
    BY <1>1, WidenedIn
<1>4. ASSUME NEW s \in Widened(g, J) PROVE e \notin s
    <2>1. s \ J \in g
        BY <1>2
    <2>2. (s \ J) \cap {e} = {}
        BY <2>1 DEF Without
    <2> QED
        BY <2>2
<1>5. \A s : s \in Change(Widened(g, J), e) <=> \E x \in Widened(g, J) : s = x \cup {e}
    BY <1>4 DEF Change
<1>6. ASSUME NEW s \in Widened(g, J) PROVE s \in Widened(g, J \cup {e})
    <2>1. s \ (J \cup {e}) = s \ J
        BY <1>4
    <2> QED
        BY <1>2, <1>3, <2>1
<1>7. ASSUME NEW x \in Widened(g, J) PROVE x \cup {e} \in Widened(g, J \cup {e})
    <2>1. (x \cup {e}) \ (J \cup {e}) = x \ J
        BY <1>4
    <2> QED
        BY <1>2, <1>3, <2>1
<1>8. ASSUME NEW s \in Widened(g, J \cup {e}), e \notin s PROVE s \in Widened(g, J)
    <2>1. s \ (J \cup {e}) = s \ J
        BY <1>8
    <2> QED
        BY <1>2, <1>3, <2>1
<1>9. ASSUME NEW s \in Widened(g, J \cup {e}), e \in s
      PROVE  \E x \in Widened(g, J) : s = x \cup {e}
    <2>1. (s \ {e}) \ J = s \ (J \cup {e}) /\ s = (s \ {e}) \cup {e}
        BY <1>9
    <2> QED
        BY <1>2, <1>3, <2>1
<1>10. ASSUME NEW s
       PROVE  s \in WidenedBy(g, J, e) <=> s \in Widened(g, J \cup {e})
    <2>1. s \in Change(Widened(g, J), e) <=> \E x \in Widened(g, J) : s = x \cup {e}
        BY <1>5
    <2>2. s \in WidenedBy(g, J, e) <=> s \in Widened(g, J) \/ s \in Change(Widened(g, J), e)
        BY DEF WidenedBy
    <2>3. ASSUME s \in Change(Widened(g, J), e) PROVE s \in Widened(g, J \cup {e})
        <3>1. PICK x \in Widened(g, J) : s = x \cup {e}
            BY <2>1, <2>3
        <3> QED
            BY <1>7, <3>1
    <2>4. ASSUME s \in Widened(g, J \cup {e}), e \in s PROVE s \in Change(Widened(g, J), e)
        <3>1. PICK x \in Widened(g, J) : s = x \cup {e}
            BY <1>9, <2>4
        <3> QED
            BY <2>1, <3>1
    <2>5. ASSUME s \in Widened(g, J \cup {e}), e \notin s PROVE s \in Widened(g, J)
        BY <1>8, <2>5
    <2> QED
        BY <1>6, <2>2, <2>3, <2>4, <2>5
<1> QED
    BY <1>10 DEF WidenedBy

FreedAlong(g, seq) == FoldLeft(LAMBDA acc, j : acc \cup Change(acc, j), g, seq)

LEMMA FreedIs ==
    ASSUME NEW v \in 0..NumElems, NEW g, NEW below, NEW next \in (v + 1)..(NumElems + 1),
           next = IF IsTerm(below) THEN NumElems + 1 ELSE Top(below),
           Without(g, (v + 1)..(next - 1))
    PROVE  Freed(g, below, v) = Widened(g, (v + 1)..(next - 1))
<1> DEFINE n == next - 1 - v
           later(x) == {v + i : i \in x}
           seq == [i \in 1..n |-> v + i]
           free(h, x) == IF x = {} THEN g ELSE h[x \ {Max(x)}] \cup Change(h[x \ {Max(x)}], seq[Max(x)])
           ref == [x \in SUBSET DOMAIN seq |-> Widened(g, later(x))]
           iter == CHOOSE h : h = [x \in SUBSET DOMAIN seq |-> free(h, x)]
<1>1. n \in Nat /\ v \in Nat /\ next \in Nat
    BY LevelAssumption
<1>2. later(1..n) = (v + 1)..(next - 1)
    <2>1. \A k : k \in (v + 1)..(next - 1) => k - v \in 1..n /\ k = v + (k - v)
        BY <1>1
    <2>2. \A k \in (v + 1)..(next - 1) : k \in later(1..n)
        BY <2>1
    <2>3. \A i \in 1..n : v + i \in (v + 1)..(next - 1)
        BY <1>1
    <2> QED
        BY <2>2, <2>3
<1>3. ASSUME NEW x \in SUBSET (1..n), x # {} PROVE Max(x) \in x
    <2>1. x \in SUBSET (0..n)
        BY <1>1
    <2>2. \E k \in x : \A y \in x : k >= y
        BY <1>1, <1>3, <2>1, GreatestElement
    <2> QED
        BY <2>2 DEF Max
<1>4. ASSUME NEW x \in SUBSET (1..n), NEW h, \A t \in x : h[x \ {t}] = ref[x \ {t}]
      PROVE  free(h, x) = Widened(g, later(x))
    <2>1. CASE x = {}
        <3>1. SUBSET later(x) = {{}}
            BY <2>1
        <3>2. Joined(g, {{}}) = g
            BY DEF Joined
        <3> QED
            BY <2>1, <3>1, <3>2 DEF Widened
    <2>2. CASE x # {}
        <3> DEFINE j == Max(x)
        <3>1. j \in x
            BY <1>3, <2>2
        <3>2. free(h, x) = h[x \ {j}] \cup Change(h[x \ {j}], v + j)
            BY <2>2, <3>1
        <3>3. h[x \ {j}] = Widened(g, later(x \ {j}))
            BY <1>4, <3>1
        <3> HIDE DEF j, free
        <3>4. later(x) = later(x \ {j}) \cup {v + j} /\ v + j \notin later(x \ {j})
            <4>1. \A i \in x : v + i = v + j => i = j
                BY <1>1, <3>1
            <4> QED
                BY <3>1, <4>1
        <3>5. v + j \in (v + 1)..(next - 1)
            BY <1>1, <3>1
        <3>6. \A a \in g : v + j \notin a
            BY <3>5 DEF Without
        <3>11. Without(g, later(x \ {j}))
            <4>1. \A i \in x \ {j} : v + i \in (v + 1)..(next - 1)
                BY <1>1
            <4> QED
                BY <4>1 DEF Without
        <3> HIDE DEF later
        <3> DEFINE J == later(x \ {j})
                   e == v + j
        <3>7. e \notin J /\ later(x) = J \cup {e} /\ Without(g, J)
            BY <3>4, <3>11
        <3>8. free(h, x) = WidenedBy(g, J, e)
            BY <3>2, <3>3 DEF WidenedBy
        <3>9. Without(g, {e})
            BY <3>6 DEF Without
        <3> HIDE DEF J, e
        <3>10. WidenedBy(g, J, e) = Widened(g, J \cup {e})
            BY <3>7, <3>9, WidenedFree
        <3> QED
            BY <3>7, <3>8, <3>10
    <2> QED
        BY <2>1, <2>2
<1>5. Freed(g, below, v) = iter[DOMAIN seq]
    <2> DEFINE last == IF IsTerm(below) THEN NumElems + 1 ELSE Top(below)
    <2>1. Freed(g, below, v) = FreedAlong(g, [i \in 1..(last - 1 - v) |-> v + i])
        BY DEF Freed, FreedAlong
    <2>2. last = next
        OBVIOUS
    <2>3. FreedAlong(g, seq) = iter[DOMAIN seq]
        <3> HIDE DEF seq
        <3> QED
            BY DEF FreedAlong, FoldLeft, MapThenFoldSet, iter
    <2> HIDE DEF last
    <2> QED
        BY <2>1, <2>2, <2>3
<1>11. DOMAIN seq = 1..n
    OBVIOUS
<1> HIDE DEF free, n, later, seq
<1>6. ref = [x \in SUBSET DOMAIN seq |-> free(ref, x)]
    <2>1. \A x \in SUBSET (1..n) : free(ref, x) = Widened(g, later(x))
        BY <1>4
    <2> QED
        BY <1>11, <2>1
<1>7. iter = [x \in SUBSET DOMAIN seq |-> free(iter, x)]
    BY <1>6, Zenon
<1> HIDE DEF iter
<1>8. \A x \in SUBSET (1..n) : (\A t \in x : iter[x \ {t}] = ref[x \ {t}]) => iter[x] = ref[x]
    BY <1>4, <1>7, <1>11
<1>9. IsFiniteSet(1..n)
    BY <1>1, FS_Interval
<1> HIDE DEF ref
<1>10. iter[1..n] = ref[1..n]
    BY <1>8, <1>9, SameLoop
<1> QED
    BY <1>2, <1>5, <1>10, <1>11 DEF ref

\* The sets of elements from v on that hit every set of m, and what is in
\* cache[] for m.
Hits(v, m) == {h \in SUBSET From(v) : \A s \in m : h \cap s # {}}
Crossing(m) == IF IsTerm(m) THEN Empty ELSE Hits(Top(m), m)

\* A family over the elements from v + 1 on: the next element it tells about.
LEMMA BelowFacts ==
    ASSUME NEW v \in 0..NumElems, NEW m \in Families(From(v + 1)), m \notin {Empty, Unit}
    PROVE  /\ Top(m) \in (v + 1)..NumElems /\ ~IsTerm(m)
           /\ m \in Families(From(Top(m)))
           /\ From(v + 1) = From(Top(m)) \cup ((v + 1)..(Top(m) - 1))
           /\ From(Top(m)) \cap ((v + 1)..(Top(m) - 1)) = {}
<1>1. From(v + 1) \in SUBSET Elems /\ v \in Nat /\ NumElems \in Nat
    BY LevelAssumption DEF From, Elems
<1>2. m \in Families(Elems) /\ Support(m) \in SUBSET From(v + 1)
    BY <1>1, SupportFacts DEF Families
<1>3. Top(m) \in Support(m) /\ Top(m) \in Elems /\ \A w \in Support(m) : Top(m) <= w
    BY <1>2, TopFacts
<1>4. Top(m) \in (v + 1)..NumElems
    BY <1>2, <1>3 DEF From
<1>5. Support(m) \in SUBSET From(Top(m))
    BY <1>1, <1>2, <1>3, <1>4 DEF From
<1>6. m \in Families(From(Top(m)))
    BY <1>5 DEF Families, Support
<1>7. /\ From(v + 1) = From(Top(m)) \cup ((v + 1)..(Top(m) - 1))
      /\ From(Top(m)) \cap ((v + 1)..(Top(m) - 1)) = {}
    BY <1>1, <1>4 DEF From
<1>8. ~IsTerm(m)
    BY <1>1, <1>4 DEF IsTerm
<1> QED
    BY <1>4, <1>6, <1>7, <1>8

LEMMA FreedHits ==
    ASSUME NEW v \in 0..NumElems, NEW m \in Families(From(v + 1)), m # Empty
    PROVE  Freed(Crossing(m), m, v) = Hits(v + 1, m)
<1>1. v \in Nat /\ NumElems \in Nat
    BY LevelAssumption
<1>2. CASE m = Unit
    <2>1. IsTerm(m) /\ Hits(v + 1, m) = Empty
        <3>1. Unit \in Families(Elems)
            BY DEF Unit, Families
        <3>2. IsTerm(Unit)
            BY <3>1, TopFacts DEF IsTerm
        <3> QED
            BY <1>2, <3>2 DEF Hits, Unit, Empty
    <2>2. Crossing(m) = Empty
        BY <2>1 DEF Crossing
    <2> DEFINE last == NumElems + 1
    <2>3. /\ Without(Empty, (v + 1)..(last - 1)) /\ last \in (v + 1)..(NumElems + 1)
          /\ last = IF IsTerm(m) THEN NumElems + 1 ELSE Top(m)
        BY <1>1, <2>1 DEF Without, Empty
    <2> HIDE DEF last
    <2>4. Freed(Empty, m, v) = Widened(Empty, (v + 1)..(last - 1))
        BY <2>3, FreedIs
    <2>5. Widened(Empty, (v + 1)..(last - 1)) = Empty
        BY DEF Widened, Joined, Empty
    <2> QED
        BY <2>1, <2>2, <2>4, <2>5
<1>3. CASE m # Unit
    <2> DEFINE t == Top(m)
               I == (v + 1)..(t - 1)
    <2>1. /\ t \in (v + 1)..NumElems /\ ~IsTerm(m) /\ m \in Families(From(t))
          /\ From(v + 1) = From(t) \cup I /\ From(t) \cap I = {}
        BY <1>3, BelowFacts
    <2>2. Crossing(m) = Hits(t, m)
        BY <2>1 DEF Crossing
    <2>3. Without(Hits(t, m), I)
        BY <2>1 DEF Without, Hits
    <2>4. t \in (v + 1)..(NumElems + 1)
        BY <1>1, <2>1
    <2>5. t = IF IsTerm(m) THEN NumElems + 1 ELSE Top(m)
        BY <2>1
    <2> HIDE DEF t
    <2>6. Freed(Hits(t, m), m, v) = Widened(Hits(t, m), I)
        BY <2>3, <2>4, <2>5, FreedIs
    <2> HIDE DEF I
    <2>7. \A s : s \in Widened(Hits(t, m), I) <=> s \ I \in Hits(t, m)
        BY <2>3, WidenedIn
    <2>8. \A s : s \ I \in Hits(t, m) <=> s \in Hits(v + 1, m)
        <3>1. ASSUME NEW s PROVE s \subseteq From(v + 1) <=> s \ I \subseteq From(t)
            BY <2>1
        <3>2. ASSUME NEW s, NEW a \in m PROVE (s \ I) \cap a = s \cap a
            BY <2>1 DEF Families
        <3> QED
            BY <3>1, <3>2 DEF Hits
    <2>9. \A s : s \in Widened(Hits(t, m), I) <=> s \in Hits(v + 1, m)
        BY <2>7, <2>8
    <2>10. Widened(Hits(t, m), I) = Hits(v + 1, m)
        <3> DEFINE W == Widened(Hits(t, m), I)
                   H == Hits(v + 1, m)
        <3>1. \A s : s \in W <=> s \in H
            BY <2>9
        <3> HIDE DEF W, H
        <3>2. W = H
            BY <3>1
        <3> QED
            BY <3>2 DEF W, H
    <2> QED
        BY <2>2, <2>6, <2>10
<1> QED
    BY <1>2, <1>3

\* Below 0 everything is free.
LEMMA FreedUnit ==
    ASSUME NEW v \in 0..NumElems
    PROVE  Freed(Unit, Empty, v) = SUBSET From(v + 1)
<1>1. v \in Nat /\ NumElems \in Nat
    BY LevelAssumption
<1>2. IsTerm(Empty)
    <2>1. Empty \in Families(Elems)
        BY DEF Empty, Families
    <2> QED
        BY <2>1, TopFacts DEF IsTerm
<1> DEFINE last == NumElems + 1
<1>3. /\ Without(Unit, (v + 1)..(last - 1)) /\ last \in (v + 1)..(NumElems + 1)
      /\ last = IF IsTerm(Empty) THEN NumElems + 1 ELSE Top(Empty)
    BY <1>1, <1>2 DEF Without, Unit
<1>5. (v + 1)..(last - 1) = From(v + 1)
    BY <1>1 DEF From
<1> HIDE DEF last
<1>4. Freed(Unit, Empty, v) = Widened(Unit, (v + 1)..(last - 1))
    BY <1>3, FreedIs
<1>6. Widened(Unit, From(v + 1)) = SUBSET From(v + 1)
    BY DEF Widened, Joined, Unit
<1> QED
    BY <1>4, <1>5, <1>6

LEMMA HitsSplit ==
    ASSUME NEW v \in 1..NumElems, NEW f
    PROVE  \A h : h \in Hits(v, f) <=>
               \/ h \in Hits(v + 1, OnSet0(f, v)) \cap Hits(v + 1, OffSet(f, v))
               \/ v \in h /\ h \ {v} \in Hits(v + 1, OffSet(f, v))
<1>1. From(v + 1) = From(v) \ {v} /\ v \in From(v)
    BY FromFacts
<1>2. ASSUME NEW h, v \in h
      PROVE  h \in Hits(v, f) <=> h \ {v} \in Hits(v + 1, OffSet(f, v))
    <2>1. h \subseteq From(v) <=> h \ {v} \subseteq From(v + 1)
        BY <1>1, <1>2
    <2>2. (\A s \in f : h \cap s # {}) <=> \A s \in OffSet(f, v) : (h \ {v}) \cap s # {}
        BY <1>2 DEF OffSet
    <2> QED
        BY <2>1, <2>2 DEF Hits
<1>3. ASSUME NEW h, v \notin h
      PROVE  h \in Hits(v, f)
                <=> h \in Hits(v + 1, OnSet0(f, v)) \cap Hits(v + 1, OffSet(f, v))
    <2>1. h \subseteq From(v) <=> h \subseteq From(v + 1)
        BY <1>1, <1>3
    <2>2. ASSUME \A s \in f : h \cap s # {}, NEW s \in OnSet0(f, v) PROVE h \cap s # {}
        <3>1. s \cup {v} \in f
            BY OnSet0In
        <3>2. h \cap (s \cup {v}) # {}
            BY <2>2, <3>1
        <3> QED
            BY <1>3, <3>2
    <2>3. ASSUME \A s \in OnSet0(f, v) \cup OffSet(f, v) : h \cap s # {}, NEW s \in f
          PROVE  h \cap s # {}
        <3>1. CASE v \in s
            <4>1. s \ {v} \in OnSet0(f, v)
                BY <3>1, OnSet0Has
            <4> QED
                BY <2>3, <4>1
        <3>2. CASE v \notin s
            BY <2>3, <3>2, OffSetIn
        <3> QED
            BY <3>1, <3>2
    <2>4. \A s \in OffSet(f, v) : s \in f
        BY OffSetIn
    <2> QED
        BY <2>1, <2>2, <2>3, <2>4 DEF Hits
<1>4. ASSUME NEW h, h \in Hits(v + 1, OnSet0(f, v)) PROVE v \notin h
    BY <1>1, <1>4 DEF Hits
<1> QED
    BY <1>2, <1>3, <1>4

LEMMA HittingSteps ==
    ASSUME NEW S \in SUBSET Elems, NEW r,
           \A t \in S : \A a \in Families(S \ {t}) : r[a] = Crossing(a),
           NEW f \in Families(S)
    PROVE  HittingStep(r, f) = Crossing(f)
<1>1. f \in Families(Elems)
    BY DEF Families
<1>2. CASE f \in {Empty, Unit}
    <2>1. IsTerm(f)
        BY <1>1, <1>2, TopFacts DEF IsTerm
    <2> QED
        BY <2>1 DEF HittingStep, Crossing
<1>3. CASE f \notin {Empty, Unit}
    <2> DEFINE v == Top(f)
               l == OffSet(f, v)
               u == OnSet0(f, v)
               rest == Hits(v + 1, l)
    <2>1. /\ v \in S /\ v \in Elems /\ v # 0 /\ v \in Support(f)
          /\ \A w \in Support(f) : v <= w
        BY <1>1, <1>3, TopFacts, SupportFacts, ElemFacts
    <2>2. v \in 1..NumElems /\ v \in 0..NumElems
        BY <2>1, LevelAssumption DEF Elems
    <2>3. HittingStep(r, f) =
            IF l = Empty
            THEN (IF u = Empty THEN Empty ELSE Freed(r[u], u, v)) \cup Change(Freed(Unit, Empty, v), v)
            ELSE ((IF u = Empty THEN Empty ELSE Freed(r[u], u, v))
                    \cap (IF l = Empty THEN Empty ELSE Freed(r[l], l, v)))
                  \cup Change(IF l = Empty THEN Empty ELSE Freed(r[l], l, v), v)
        BY <2>1 DEF HittingStep, IsTerm, Lo, Hi
    <2>4. Crossing(f) = Hits(v, f)
        BY <2>1 DEF Crossing, IsTerm
    <2>5. f \in Families(From(v))
        <3>1. \A w \in Support(f) : w \in Elems
            BY <1>1, SupportFacts
        <3>2. \A w \in Support(f) : w \in From(v)
            BY <2>1, <2>2, <3>1, LevelAssumption DEF From, Elems
        <3> QED
            BY <3>2 DEF Families, Support
    <2> HIDE DEF v
    <2>6. u # Empty
        <3>1. PICK s \in f : v \in s
            BY <2>1, SupportFacts
        <3>2. s \ {v} \in OnSet0(f, v)
            BY <3>1, OnSet0Has
        <3> QED
            BY <3>2 DEF Empty
    <2>7. l \in Families(S \ {v}) /\ u \in Families(S \ {v})
        BY CofactorFacts
    <2>8. l \in Families(From(v + 1)) /\ u \in Families(From(v + 1))
        <3>1. From(v + 1) = From(v) \ {v}
            BY <2>2, FromFacts
        <3> QED
            BY <2>5, <3>1, CofactorFacts
    <2>9. r[l] = Crossing(l) /\ r[u] = Crossing(u)
        BY <2>1, <2>7
    <2>10. /\ Freed(r[u], u, v) = Hits(v + 1, u)
           /\ l # Empty => Freed(r[l], l, v) = rest
        BY <2>2, <2>6, <2>8, <2>9, FreedHits
    <2>11. l = Empty => rest = SUBSET From(v + 1)
        BY DEF Hits, Empty
    <2>12. Freed(Unit, Empty, v) = SUBSET From(v + 1)
        BY <2>2, FreedUnit
    <2>13. Hits(v + 1, u) \subseteq SUBSET From(v + 1)
        BY DEF Hits
    <2>14. HittingStep(r, f) = (Hits(v + 1, u) \cap rest) \cup Change(rest, v)
        <3>1. CASE l = Empty
            <4>1. Hits(v + 1, u) \cap rest = Hits(v + 1, u)
                BY <2>11, <2>13, <3>1
            <4> QED
                BY <2>3, <2>6, <2>10, <2>11, <2>12, <3>1, <4>1
        <3>2. CASE l # Empty
            BY <2>3, <2>6, <2>10, <3>2
        <3> QED
            BY <3>1, <3>2
    <2>15. \A h : h \in Change(rest, v) <=> v \in h /\ h \ {v} \in rest
        <3>1. From(v + 1) = From(v) \ {v}
            BY <2>2, FromFacts
        <3>2. \A h \in rest : v \notin h
            BY <3>1 DEF Hits
        <3> HIDE DEF rest
        <3>3. \A h : h \in Change(rest, v) <=> \E x \in rest : h = x \cup {v}
            BY <3>2 DEF Change
        <3> QED
            BY <3>2, <3>3
    <2>16. \A h : h \in Hits(v, f) <=>
                \/ h \in Hits(v + 1, u) \cap rest
                \/ v \in h /\ h \ {v} \in rest
        BY <2>2, HitsSplit
    <2> HIDE DEF u, rest
    <2>17. \A h : h \in (Hits(v + 1, u) \cap rest) \cup Change(rest, v) <=> h \in Hits(v, f)
        BY <2>15, <2>16
    <2>18. (Hits(v + 1, u) \cap rest) \cup Change(rest, v) = Hits(v, f)
        <3> DEFINE X == (Hits(v + 1, u) \cap rest) \cup Change(rest, v)
                   Y == Hits(v, f)
        <3>1. \A h : h \in X <=> h \in Y
            BY <2>17
        <3> HIDE DEF X, Y
        <3>2. X = Y
            BY <3>1
        <3> QED
            BY <3>2 DEF X, Y
    <2> QED
        BY <2>4, <2>14, <2>18
<1> QED
    BY <1>2, <1>3

\* What hitting() has in cache[] at last.
LEMMA HittingNodeIs ==
    ASSUME NEW f \in Families(Elems)
    PROVE  HittingNode(f) = Crossing(f)
<1> DEFINE V == Support(f)
           ref == [x \in Over(f, f) |-> Crossing(x)]
           found == CHOOSE h : h = [x \in Over(f, f) |-> HittingStep(h, x)]
<1>1. /\ V \in SUBSET Elems /\ IsFiniteSet(V) /\ f \in Families(V)
      /\ Over(f, f) = Families(V)
    BY OperandFacts
<1>2. \A a \in Families(V) : ref[a] = Crossing(a)
    BY <1>1
<1>3. \A S \in SUBSET V : \A t \in S : Families(S) \subseteq Families(V)
                                     /\ Families(S \ {t}) \subseteq Families(V)
    BY Fewer
<1> HIDE DEF V, ref
<1>4. ASSUME NEW h, NEW S \in SUBSET V, NEW a \in Families(S),
             \A t \in S : AgreeOn(h, ref, S \ {t})
      PROVE  HittingStep(h, a) = Crossing(a)
    <2>1. \A t \in S : \A x \in Families(S \ {t}) : h[x] = Crossing(x)
        BY <1>2, <1>3, <1>4 DEF AgreeOn
    <2> QED
        BY <1>1, <2>1, HittingSteps
<1>5. ref = [x \in Over(f, f) |-> HittingStep(ref, x)]
    <2>1. \A a \in Families(V) : HittingStep(ref, a) = Crossing(a)
        BY <1>4, V \in SUBSET V DEF AgreeOn
    <2> QED
        BY <1>1, <2>1 DEF ref
<1>6. found = [x \in Over(f, f) |-> HittingStep(found, x)]
    BY <1>5, Zenon
<1> HIDE DEF found
<1>7. \A a \in Families(V) : found[a] = HittingStep(found, a)
    BY <1>1, <1>6
<1>8. ASSUME NEW S \in SUBSET V, \A t \in S : AgreeOn(found, ref, S \ {t})
      PROVE  AgreeOn(found, ref, S)
    <2>1. \A a \in Families(S) : HittingStep(found, a) = Crossing(a)
        BY <1>4, <1>8
    <2>2. Families(S) \subseteq Families(V)
        BY Fewer
    <2> QED
        BY <1>2, <1>7, <2>1, <2>2 DEF AgreeOn
<1>9. AgreeOn(found, ref, V)
    BY <1>1, <1>8, FamilyInduction
<1>10. HittingNode(f) = found[f]
    BY DEF HittingNode, found
<1> QED
    BY <1>1, <1>2, <1>9, <1>10 DEF AgreeOn

\* hitting() gives the sets that hit every set of the family, if it has one.
LEMMA HittingIs ==
    ASSUME NEW f \in Families(Elems), f # Empty
    PROVE  Hitting(f) = Transversals(Elems, f)
<1>1. From(1) = Elems /\ 0 \in 0..NumElems /\ 0 + 1 = 1
    BY LevelAssumption DEF From, Elems
<1>2. CASE f = Unit
    BY <1>2, EmptyUnit DEF Hitting, Transversals, Unit, Empty
<1>3. CASE f # Unit
    <2>1. Hitting(f) = Freed(HittingNode(f), f, 0)
        BY <1>3 DEF Hitting
    <2>2. HittingNode(f) = Crossing(f)
        BY HittingNodeIs
    <2>3. Freed(Crossing(f), f, 0) = Hits(1, f)
        BY <1>1, FreedHits
    <2>4. Hits(1, f) = Transversals(Elems, f)
        BY <1>1 DEF Hits, Transversals
    <2> QED
        BY <2>1, <2>2, <2>3, <2>4
<1> QED
    BY <1>2, <1>3

-----------------------------------------------------------------------------
(***************************************************************************)
(* Relations between variables                                             *)
(***************************************************************************)
\* Wherever v can stand without w, w can stand instead.
OneWay(f, v, w) == \A s : v \notin s /\ w \notin s /\ s \cup {v} \in f => s \cup {w} \in f
Alike(f, v, w) == OneWay(f, v, w) /\ OneWay(f, w, v)

LEMMA ExchangeFacts ==
    ASSUME NEW v, NEW w, v # w, NEW s
    PROVE  /\ v \in s /\ w \in s => Exchange(s, v, w) = s
           /\ v \notin s /\ w \notin s => Exchange(s, v, w) = s
           /\ v \in s /\ w \notin s => Exchange(s, v, w) = (s \ {v}) \cup {w}
           /\ v \notin s /\ w \in s => Exchange(s, v, w) = (s \ {w}) \cup {v}
BY DEF Exchange

LEMMA CoImpliesIs ==
    ASSUME NEW f, NEW v, NEW w, v # w
    PROVE  CoImplies(f, v, w) <=> OneWay(f, v, w)
<1>1. ASSUME CoImplies(f, v, w), NEW s, v \notin s, w \notin s, s \cup {v} \in f
      PROVE  s \cup {w} \in f
    <2> DEFINE t == s \cup {v}
    <2>1. Exchange(t, v, w) = (t \ {v}) \cup {w}
        BY <1>1, ExchangeFacts
    <2>2. Exchange(t, v, w) \in f
        BY <1>1 DEF CoImplies
    <2>3. (t \ {v}) \cup {w} = s \cup {w}
        BY <1>1
    <2> QED
        BY <2>1, <2>2, <2>3
<1>2. ASSUME OneWay(f, v, w), NEW s \in f, v \in s, w \notin s
      PROVE  Exchange(s, v, w) \in f
    <2>1. (s \ {v}) \cup {v} = s
        BY <1>2
    <2>2. (s \ {v}) \cup {w} \in f
        BY <1>2, <2>1 DEF OneWay
    <2>3. Exchange(s, v, w) = (s \ {v}) \cup {w}
        BY <1>2, ExchangeFacts
    <2> QED
        BY <2>2, <2>3
<1> QED
    BY <1>1, <1>2 DEF CoImplies, OneWay

\* Two variables are symmetric if each can stand for the other.
LEMMA SymmetricIs ==
    ASSUME NEW f, NEW v, NEW w, v # w
    PROVE  Symmetric(f, v, w) <=> Alike(f, v, w)
<1>1. \A s : Exchange(Exchange(s, v, w), v, w) = s
    <2>1. ASSUME NEW s PROVE Exchange(Exchange(s, v, w), v, w) = s
        <3>1. CASE (v \in s /\ w \in s) \/ (v \notin s /\ w \notin s)
            BY <3>1, ExchangeFacts
        <3>2. CASE v \in s /\ w \notin s
            <4> DEFINE t == (s \ {v}) \cup {w}
            <4>1. Exchange(s, v, w) = t
                BY <3>2, ExchangeFacts
            <4>2. Exchange(t, v, w) = (t \ {w}) \cup {v}
                BY ExchangeFacts
            <4>3. (t \ {w}) \cup {v} = s
                BY <3>2
            <4> QED
                BY <4>1, <4>2, <4>3
        <3>3. CASE v \notin s /\ w \in s
            <4> DEFINE t == (s \ {w}) \cup {v}
            <4>1. Exchange(s, v, w) = t
                BY <3>3, ExchangeFacts
            <4>2. Exchange(t, v, w) = (t \ {v}) \cup {w}
                BY ExchangeFacts
            <4>3. (t \ {v}) \cup {w} = s
                BY <3>3
            <4> QED
                BY <4>1, <4>2, <4>3
        <3> QED
            BY <3>1, <3>2, <3>3
    <2> QED
        BY <2>1
<1>2. ASSUME Symmetric(f, v, w) PROVE CoImplies(f, v, w) /\ CoImplies(f, w, v)
    <2>1. \A s \in f : Exchange(s, v, w) \in f
        BY <1>2 DEF Symmetric
    <2>2. \A s : Exchange(s, w, v) = Exchange(s, v, w)
        BY DEF Exchange
    <2> QED
        BY <2>1, <2>2 DEF CoImplies
<1>3. ASSUME CoImplies(f, v, w), CoImplies(f, w, v) PROVE Symmetric(f, v, w)
    <2>1. ASSUME NEW s \in f PROVE Exchange(s, v, w) \in f
        <3>1. Exchange(s, w, v) = Exchange(s, v, w)
            BY DEF Exchange
        <3> QED
            BY <1>3, <3>1, ExchangeFacts DEF CoImplies
    <2>2. \A s : s \in {Exchange(t, v, w) : t \in f} <=> s \in f
        BY <1>1, <2>1
    <2>3. {Exchange(t, v, w) : t \in f} = f
        BY <2>2, Zenon
    <2> QED
        BY <2>3 DEF Symmetric
<1> QED
    BY <1>2, <1>3, CoImpliesIs DEF Alike

\* The members of cofactors by two variables.
LEMMA TwiceIn ==
    ASSUME NEW f, NEW v, NEW w, v # w
    PROVE  /\ \A s : s \in OffSet(OffSet(f, v), w) <=> v \notin s /\ w \notin s /\ s \in f
           /\ \A s : s \in OffSet(OnSet0(f, v), w) <=> v \notin s /\ w \notin s /\ s \cup {v} \in f
           /\ \A s : s \in OnSet0(OffSet(f, v), w) <=> v \notin s /\ w \notin s /\ s \cup {w} \in f
           /\ \A s : s \in OnSet0(OnSet0(f, v), w) <=>
                v \notin s /\ w \notin s /\ (s \cup {w}) \cup {v} \in f
<1> SUFFICES ASSUME NEW s
             PROVE  /\ s \in OffSet(OffSet(f, v), w) <=> v \notin s /\ w \notin s /\ s \in f
                    /\ s \in OffSet(OnSet0(f, v), w) <=>
                            v \notin s /\ w \notin s /\ s \cup {v} \in f
                    /\ s \in OnSet0(OffSet(f, v), w) <=>
                            v \notin s /\ w \notin s /\ s \cup {w} \in f
                    /\ s \in OnSet0(OnSet0(f, v), w) <=>
                            v \notin s /\ w \notin s /\ (s \cup {w}) \cup {v} \in f
    OBVIOUS
<1> DEFINE a == OffSet(f, v)
           b == OnSet0(f, v)
           x == s \cup {w}
<1>1. \A z : z \in a <=> z \in f /\ v \notin z
    BY OffSetIn
<1>2. \A z : z \in b <=> v \notin z /\ z \cup {v} \in f
    BY OnSet0In
<1>3. v \notin x <=> v \notin s
    OBVIOUS
<1> HIDE DEF a, b
<1>4. (s \in OffSet(a, w) <=> s \in a /\ w \notin s) /\ (s \in OffSet(b, w) <=> s \in b /\ w \notin s)
    BY OffSetIn
<1>5. (s \in OnSet0(a, w) <=> w \notin s /\ x \in a) /\ (s \in OnSet0(b, w) <=> w \notin s /\ x \in b)
    BY OnSet0In
<1> HIDE DEF x
<1>6. (x \in a <=> x \in f /\ v \notin x) /\ (x \in b <=> v \notin x /\ x \cup {v} \in f)
    BY <1>1, <1>2
<1>7. (s \in a <=> s \in f /\ v \notin s) /\ (s \in b <=> v \notin s /\ s \cup {v} \in f)
    BY <1>1, <1>2
<1>8. /\ s \in OffSet(a, w) <=> v \notin s /\ w \notin s /\ s \in f
      /\ s \in OffSet(b, w) <=> v \notin s /\ w \notin s /\ s \cup {v} \in f
      /\ s \in OnSet0(a, w) <=> v \notin s /\ w \notin s /\ x \in f
      /\ s \in OnSet0(b, w) <=> v \notin s /\ w \notin s /\ x \cup {v} \in f
    BY <1>3, <1>4, <1>5, <1>6, <1>7
<1> QED
    BY <1>8 DEF a, b, x

\* The same in terms of the cofactors by v.
LEMMA RelatedCofactors ==
    ASSUME NEW f, NEW v, NEW w, v # w
    PROVE  /\ OneWay(f, v, w) <=> OffSet(OnSet0(f, v), w) \subseteq OnSet0(OffSet(f, v), w)
           /\ Alike(f, v, w) <=> OnSet0(OffSet(f, v), w) = OffSet(OnSet0(f, v), w)
<1> DEFINE a == OffSet(OnSet0(f, v), w)
           b == OnSet0(OffSet(f, v), w)
<1>1. \A s : s \in a <=> w \notin s /\ v \notin s /\ s \cup {v} \in f
    BY TwiceIn
<1>2. \A s : s \in b <=> w \notin s /\ v \notin s /\ s \cup {w} \in f
    BY TwiceIn
<1> HIDE DEF a, b
<1>3. OneWay(f, v, w) <=> a \subseteq b
    BY <1>1, <1>2 DEF OneWay
<1>4. OneWay(f, w, v) <=> b \subseteq a
    BY <1>1, <1>2 DEF OneWay
<1> QED
    BY <1>3, <1>4 DEF Alike, a, b

\* The cofactors by another variable say it of the whole.
LEMMA OneWaySplit ==
    ASSUME NEW f, NEW v, NEW w, NEW t, t # v, t # w
    PROVE  OneWay(f, v, w) <=> OneWay(OnSet0(f, t), v, w) /\ OneWay(OffSet(f, t), v, w)
<1>1. ASSUME OneWay(f, v, w), NEW s, v \notin s, w \notin s, s \cup {v} \in OnSet0(f, t)
      PROVE  s \cup {w} \in OnSet0(f, t)
    <2>1. t \notin s \cup {v} /\ (s \cup {t}) \cup {v} \in f
        <3>1. (s \cup {v}) \cup {t} = (s \cup {t}) \cup {v}
            OBVIOUS
        <3> QED
            BY <1>1, <3>1, OnSet0In
    <2>2. (s \cup {t}) \cup {w} \in f
        BY <1>1, <2>1 DEF OneWay
    <2>3. (s \cup {t}) \cup {w} = (s \cup {w}) \cup {t} /\ t \notin s \cup {w}
        BY <2>1
    <2> QED
        BY <2>2, <2>3, OnSet0In
<1>2. ASSUME OneWay(f, v, w), NEW s, v \notin s, w \notin s, s \cup {v} \in OffSet(f, t)
      PROVE  s \cup {w} \in OffSet(f, t)
    <2>1. t \notin s \cup {v} /\ s \cup {v} \in f
        BY <1>2, OffSetIn
    <2>2. s \cup {w} \in f
        BY <1>2, <2>1 DEF OneWay
    <2>3. t \notin s \cup {w}
        BY <2>1
    <2> QED
        BY <2>2, <2>3, OffSetIn
<1>3. ASSUME OneWay(OnSet0(f, t), v, w), OneWay(OffSet(f, t), v, w),
             NEW s, v \notin s, w \notin s, s \cup {v} \in f
      PROVE  s \cup {w} \in f
    <2>1. CASE t \in s
        <3> DEFINE r == s \ {t}
        <3>1. r \cup {t} = s /\ (r \cup {v}) \cup {t} = s \cup {v} /\ (r \cup {w}) \cup {t} = s \cup {w}
              /\ t \notin r \cup {v} /\ v \notin r /\ w \notin r
            BY <1>3, <2>1
        <3> HIDE DEF r
        <3>2. r \cup {v} \in OnSet0(f, t)
            BY <1>3, <3>1, OnSet0In
        <3>3. r \cup {w} \in OnSet0(f, t)
            BY <1>3, <3>1, <3>2 DEF OneWay
        <3> QED
            BY <3>1, <3>3, OnSet0In
    <2>2. CASE t \notin s
        <3>1. s \cup {v} \in OffSet(f, t)
            BY <1>3, <2>2, OffSetIn
        <3>2. s \cup {w} \in OffSet(f, t)
            BY <1>3, <3>1 DEF OneWay
        <3> QED
            BY <3>2, OffSetIn
    <2> QED
        BY <2>1, <2>2
<1> QED
    BY <1>1, <1>2, <1>3 DEF OneWay

LEMMA AlikeSplit ==
    ASSUME NEW f, NEW v, NEW w, NEW t, t # v, t # w
    PROVE  Alike(f, v, w) <=> Alike(OnSet0(f, t), v, w) /\ Alike(OffSet(f, t), v, w)
BY OneWaySplit DEF Alike

\* Every variable implies those that are in every set that has it.
LEMMA ImplyChkIs ==
    ASSUME NEW f, NEW v, NEW w
    PROVE  ImplyChk(f, v, w) <=> Implies(f, v, w)
<1>1. CASE v = w
    BY <1>1 DEF ImplyChk, Implies
<1>2. CASE f \in {Empty, Unit}
    BY <1>2 DEF ImplyChk, Implies, Empty, Unit
<1>3. CASE v # w /\ f \notin {Empty, Unit}
    <2> DEFINE a == OffSet(OnSet0(f, v), w)
    <2>1. \A s : s \in a <=> w \notin s /\ v \notin s /\ s \cup {v} \in f
        BY OffSetIn, OnSet0In
    <2>2. ImplyChk(f, v, w) <=> a = Empty
        BY <1>3 DEF ImplyChk
    <2> HIDE DEF a
    <2>3. ASSUME a = Empty, NEW s \in f, v \in s PROVE w \in s
        <3>1. (s \ {v}) \cup {v} = s
            BY <2>3
        <3>2. s \ {v} \notin a
            BY <2>3 DEF Empty
        <3> QED
            BY <1>3, <2>1, <3>1, <3>2
    <2>4. ASSUME Implies(f, v, w) PROVE a = Empty
        <3>1. \A s : s \notin a
            BY <1>3, <2>1, <2>4 DEF Implies
        <3> QED
            BY <3>1 DEF Empty
    <2> QED
        BY <2>2, <2>3, <2>4 DEF Implies
<1> QED
    BY <1>1, <1>2, <1>3

LEMMA CoImplyChkIs ==
    ASSUME NEW f, NEW v, NEW w
    PROVE  CoImplyChk(f, v, w) <=> CoImplies(f, v, w)
<1>1. CASE v = w
    BY <1>1 DEF CoImplyChk, CoImplies
<1>2. CASE f \in {Empty, Unit}
    BY <1>2 DEF CoImplyChk, CoImplies, Empty, Unit
<1>3. CASE v # w /\ f \notin {Empty, Unit}
    BY <1>3, CoImpliesIs, RelatedCofactors DEF CoImplyChk
<1> QED
    BY <1>1, <1>2, <1>3

LEMMA SymmetricTrivial ==
    /\ \A f, v : Symmetric(f, v, v)
    /\ \A v, w : Symmetric(Empty, v, w) /\ Symmetric(Unit, v, w)
<1>1. \A v, s : Exchange(s, v, v) = s
    BY DEF Exchange
<1>2. \A v, w : Exchange({}, v, w) = {}
    BY DEF Exchange
<1> QED
    BY <1>1, <1>2 DEF Symmetric, Empty, Unit

\* Cofactors by two variables, one after the other.
LEMMA CofactorsCommute ==
    ASSUME NEW f, NEW v, NEW w, v # w
    PROVE  /\ OffSet(OffSet(f, v), w) = OffSet(OffSet(f, w), v)
           /\ OffSet(OnSet0(f, v), w) = OnSet0(OffSet(f, w), v)
           /\ OnSet0(OnSet0(f, v), w) = OnSet0(OnSet0(f, w), v)
<1>2. \A s : (s \cup {v}) \cup {w} = (s \cup {w}) \cup {v}
    OBVIOUS
<1>3. \A s : s \in OffSet(OffSet(f, v), w) <=> s \in OffSet(OffSet(f, w), v)
    BY TwiceIn
<1>4. ASSUME NEW s PROVE s \in OffSet(OnSet0(f, v), w) <=> s \in OnSet0(OffSet(f, w), v)
    <2>1. s \in OffSet(OnSet0(f, v), w) <=> v \notin s /\ w \notin s /\ s \cup {v} \in f
        BY TwiceIn
    <2>2. s \in OnSet0(OffSet(f, w), v) <=> w \notin s /\ v \notin s /\ s \cup {v} \in f
        BY TwiceIn
    <2> QED
        BY <2>1, <2>2
<1>5. ASSUME NEW s PROVE s \in OnSet0(OnSet0(f, v), w) <=> s \in OnSet0(OnSet0(f, w), v)
    <2>1. s \in OnSet0(OnSet0(f, v), w) <=>
            v \notin s /\ w \notin s /\ (s \cup {w}) \cup {v} \in f
        BY TwiceIn
    <2>2. s \in OnSet0(OnSet0(f, w), v) <=>
            w \notin s /\ v \notin s /\ (s \cup {v}) \cup {w} \in f
        BY TwiceIn
    <2> QED
        BY <1>2, <2>1, <2>2
<1> DEFINE a == OffSet(OffSet(f, v), w)
           b == OffSet(OffSet(f, w), v)
           c == OffSet(OnSet0(f, v), w)
           d == OnSet0(OffSet(f, w), v)
           x == OnSet0(OnSet0(f, v), w)
           y == OnSet0(OnSet0(f, w), v)
<1>6. (\A s : s \in a <=> s \in b) /\ (\A s : s \in c <=> s \in d) /\ (\A s : s \in x <=> s \in y)
    BY <1>3, <1>4, <1>5
<1> HIDE DEF a, b, c, d, x, y
<1>7. a = b /\ c = d /\ x = y
    BY <1>6
<1> QED
    BY <1>7 DEF a, b, c, d, x, y

\* A family made of its cofactors has them.
LEMMA GluedFacts ==
    ASSUME NEW S, NEW v \in S, NEW l \in Families(S \ {v}), NEW h \in Families(S \ {v}),
           NEW f, f = l \cup Change(h, v)
    PROVE  OffSet(f, v) = l /\ OnSet0(f, v) = h /\ f \in Families(S)
<1> DEFINE a == OffSet(f, v)
           b == OnSet0(f, v)
<1>1. \A s : s \in f <=> s \in l \/ (v \in s /\ s \ {v} \in h)
    BY ChangeFacts
<1>2. \A s : (s \in l => v \notin s /\ s \subseteq S) /\ (s \in h => v \notin s /\ s \subseteq S)
    BY DEF Families
<1>3. \A s : s \in a <=> s \in l
    BY <1>1, <1>2, OffSetIn
<1>4. \A s : v \notin s => (s \cup {v}) \ {v} = s
    OBVIOUS
<1>5. \A s : s \in b <=> v \notin s /\ s \cup {v} \in f
    BY OnSet0In
<1>6. \A s : s \in b <=> s \in h
    <2>1. ASSUME NEW s, s \in b PROVE s \in h
        <3>1. v \notin s /\ s \cup {v} \in f
            BY <1>5, <2>1
        <3>2. v \in s \cup {v}
            OBVIOUS
        <3>3. (s \cup {v}) \ {v} \in h
            BY <1>1, <1>2, <3>1, <3>2
        <3> QED
            BY <1>4, <3>1, <3>3
    <2>2. ASSUME NEW s, s \in h PROVE s \in b
        <3>1. v \notin s /\ (s \cup {v}) \ {v} \in h /\ v \in s \cup {v}
            BY <1>2, <1>4, <2>2
        <3>2. s \cup {v} \in f
            BY <1>1, <3>1
        <3> QED
            BY <1>5, <3>1, <3>2
    <2> QED
        BY <2>1, <2>2
<1> HIDE DEF a, b
<1>7. a = l /\ b = h
    BY <1>3, <1>6
<1>8. f \in Families(S)
    <2>1. ASSUME NEW s \in f PROVE s \subseteq S
        <3>1. CASE s \in l
            BY <1>2, <3>1
        <3>2. CASE v \in s /\ s \ {v} \in h
            BY <1>2, <3>2
        <3> QED
            BY <1>1, <3>1, <3>2
    <2> QED
        BY <2>1 DEF Families
<1> QED
    BY <1>7, <1>8 DEF a, b

LEMMA SymChkSteps ==
    ASSUME NEW S \in SUBSET Elems, NEW r,
           \A t \in S : \A a \in Families(S \ {t}) : \A x, y \in S \ {t} :
               r[<<a, x, y>>] = Symmetric(a, x, y),
           NEW f \in Families(S), NEW va \in S, NEW vb \in S
    PROVE  SymChkStep(r, f, va, vb) <=> Symmetric(f, va, vb)
<1> DEFINE v1 == HigherOf(va, vb)
           v2 == LowerOf(va, vb)
           t == Top(f)
           f0 == OffSet(f, v1)
           f1 == OnSet0(f, v1)
           t2 == HigherOf(Top(f1), Top(f0))
           g0 == OffSet(f0, t2) \cup Change(OffSet(f1, t2), t2)
           g1 == OnSet0(f0, t2) \cup Change(OnSet0(f1, t2), t2)
<1>1. SymChkStep(r, f, va, vb) <=>
        \/ f \in {Empty, Unit} \/ va = vb
        \/ IF Level(t) > Level(v1)
           THEN r[<<OnSet0(f, t), v1, v2>>] /\ r[<<OffSet(f, t), v1, v2>>]
           ELSE IF Level(t2) <= Level(v2) THEN OnSet0(f0, v2) = OffSet(f1, v2)
           ELSE r[<<g1, t2, v2>>] /\ r[<<g0, t2, v2>>]
    BY DEF SymChkStep
<1>2. CASE f \in {Empty, Unit} \/ va = vb
    BY <1>1, <1>2, SymmetricTrivial
<1>3. CASE f \notin {Empty, Unit} /\ va # vb
    <2>1. /\ v1 \in {va, vb} /\ v2 \in {va, vb} /\ v1 # v2
          /\ v1 \in S /\ v2 \in S /\ v1 \in Elems /\ v2 \in Elems
        BY <1>3 DEF HigherOf, LowerOf
    <2>2. Symmetric(f, va, vb) <=> Alike(f, v1, v2)
        BY <1>3, <2>1, SymmetricIs DEF Alike
    <2>3. f \in Families(Elems)
        BY DEF Families
    <2>4. f0 \in Families(S \ {v1}) /\ f1 \in Families(S \ {v1})
        BY CofactorFacts
    <2>5. Alike(f, v1, v2) <=> OnSet0(f0, v2) = OffSet(f1, v2)
        BY <2>1, RelatedCofactors
    <2>6. t \in S /\ t \in Elems
        <3>1. t \in Support(f) /\ t \in Elems
            BY <1>3, <2>3, TopFacts
        <3> QED
            BY <3>1, SupportFacts
    <2> HIDE DEF v1, v2, t
    <2>7. CASE Level(t) > Level(v1)
        <3>1. t # v1 /\ t # v2
            <4>1. Level(v2) <= Level(v1)
                BY <2>1, ElemFacts DEF v1, v2, HigherOf, LowerOf
            <4>2. Level(t) \in Nat /\ Level(v1) \in Nat /\ Level(v2) \in Nat
                BY <2>1, <2>6, ElemFacts
            <4> QED
                BY <2>7, <4>1, <4>2
        <3>2. OnSet0(f, t) \in Families(S \ {t}) /\ OffSet(f, t) \in Families(S \ {t})
            BY CofactorFacts
        <3>3. v1 \in S \ {t} /\ v2 \in S \ {t}
            BY <2>1, <3>1
        <3>4. /\ r[<<OnSet0(f, t), v1, v2>>] <=> Symmetric(OnSet0(f, t), v1, v2)
              /\ r[<<OffSet(f, t), v1, v2>>] <=> Symmetric(OffSet(f, t), v1, v2)
            BY <2>6, <3>2, <3>3
        <3>5. Alike(f, v1, v2) <=> Alike(OnSet0(f, t), v1, v2) /\ Alike(OffSet(f, t), v1, v2)
            BY <3>1, AlikeSplit
        <3>6. /\ Symmetric(OnSet0(f, t), v1, v2) <=> Alike(OnSet0(f, t), v1, v2)
              /\ Symmetric(OffSet(f, t), v1, v2) <=> Alike(OffSet(f, t), v1, v2)
            BY <2>1, SymmetricIs
        <3>7. SymChkStep(r, f, va, vb) <=>
                r[<<OnSet0(f, t), v1, v2>>] /\ r[<<OffSet(f, t), v1, v2>>]
            BY <1>1, <1>3, <2>7
        <3> QED
            BY <2>2, <3>4, <3>5, <3>6, <3>7
    <2>8. CASE ~(Level(t) > Level(v1)) /\ Level(t2) <= Level(v2)
        <3>1. SymChkStep(r, f, va, vb) <=> OnSet0(f0, v2) = OffSet(f1, v2)
            BY <1>1, <1>3, <2>8
        <3> QED
            BY <2>2, <2>5, <3>1
    <2>9. CASE ~(Level(t) > Level(v1)) /\ ~(Level(t2) <= Level(v2))
        <3>1. t2 \in S \ {v1} /\ t2 # v2
            <4>1. f0 \in Families(Elems) /\ f1 \in Families(Elems)
                BY <2>4 DEF Families
            <4>2. ~(f0 \in {Empty, Unit} /\ f1 \in {Empty, Unit})
                <5>1. Level(v2) \in Nat /\ Level(0) = 0
                    BY <2>1, ElemFacts, LevelAssumption
                <5>2. f0 \in {Empty, Unit} /\ f1 \in {Empty, Unit} => t2 = 0
                    BY <4>1, TopFacts DEF HigherOf
                <5> HIDE DEF t2
                <5> QED
                    BY <2>9, <5>1, <5>2
            <4>3. t2 \in Support(f1) \cup Support(f0)
                BY <4>1, <4>2, HigherFacts
            <4>4. Support(f1) \subseteq S \ {v1} /\ Support(f0) \subseteq S \ {v1}
                BY <2>4, SupportFacts
            <4> HIDE DEF t2
            <4>5. t2 # v2
                <5>1. Level(v2) \in Nat
                    BY <2>1, ElemFacts
                <5> QED
                    BY <2>9, <5>1
            <4> QED
                BY <4>3, <4>4, <4>5
        <3> DEFINE T == S \ {v1}
        <3>2. /\ OffSet(f0, t2) \in Families(T \ {t2}) /\ OffSet(f1, t2) \in Families(T \ {t2})
              /\ OnSet0(f0, t2) \in Families(T \ {t2}) /\ OnSet0(f1, t2) \in Families(T \ {t2})
            BY <2>4, CofactorFacts
        <3>12. t2 \in T
            BY <3>1
        <3> HIDE DEF t2, f0, f1, T
        <3>3. /\ g0 \in Families(T) /\ OffSet(g0, t2) = OffSet(f0, t2)
              /\ OnSet0(g0, t2) = OffSet(f1, t2)
            <4> DEFINE l == OffSet(f0, t2)
                       h == OffSet(f1, t2)
            <4>1. l \in Families(T \ {t2}) /\ h \in Families(T \ {t2})
                BY <3>2
            <4>2. g0 = l \cup Change(h, t2)
                OBVIOUS
            <4> HIDE DEF l, h, g0
            <4>3. OffSet(g0, t2) = l /\ OnSet0(g0, t2) = h /\ g0 \in Families(T)
                BY <3>12, <4>1, <4>2, GluedFacts
            <4> QED
                BY <4>3 DEF l, h
        <3>4. /\ g1 \in Families(T) /\ OffSet(g1, t2) = OnSet0(f0, t2)
              /\ OnSet0(g1, t2) = OnSet0(f1, t2)
            <4> DEFINE l == OnSet0(f0, t2)
                       h == OnSet0(f1, t2)
            <4>1. l \in Families(T \ {t2}) /\ h \in Families(T \ {t2})
                BY <3>2
            <4>2. g1 = l \cup Change(h, t2)
                OBVIOUS
            <4> HIDE DEF l, h, g1
            <4>3. OffSet(g1, t2) = l /\ OnSet0(g1, t2) = h /\ g1 \in Families(T)
                BY <3>12, <4>1, <4>2, GluedFacts
            <4> QED
                BY <4>3 DEF l, h
        <3>5. SymChkStep(r, f, va, vb) <=> r[<<g1, t2, v2>>] /\ r[<<g0, t2, v2>>]
            BY <1>1, <1>3, <2>9
        <3> HIDE DEF g0, g1
        <3>6. t2 \in T /\ v2 \in T
            BY <2>1, <3>12 DEF T
        <3>7. /\ r[<<g0, t2, v2>>] <=> Symmetric(g0, t2, v2)
              /\ r[<<g1, t2, v2>>] <=> Symmetric(g1, t2, v2)
            BY <2>1, <3>3, <3>4, <3>6 DEF T
        <3>8. /\ Symmetric(g0, t2, v2) <=> OnSet0(OffSet(f0, t2), v2) = OffSet(OffSet(f1, t2), v2)
              /\ Symmetric(g1, t2, v2) <=> OnSet0(OnSet0(f0, t2), v2) = OffSet(OnSet0(f1, t2), v2)
            <4>1. /\ Symmetric(g0, t2, v2) <=> Alike(g0, t2, v2)
                  /\ Symmetric(g1, t2, v2) <=> Alike(g1, t2, v2)
                BY <3>1, SymmetricIs
            <4>2. Alike(g0, t2, v2) <=> OnSet0(OffSet(g0, t2), v2) = OffSet(OnSet0(g0, t2), v2)
                BY <3>1, RelatedCofactors
            <4>3. Alike(g1, t2, v2) <=> OnSet0(OffSet(g1, t2), v2) = OffSet(OnSet0(g1, t2), v2)
                BY <3>1, RelatedCofactors
            <4> QED
                BY <3>3, <3>4, <4>1, <4>2, <4>3
        <3>9. Alike(f, v1, v2) <=> Alike(OnSet0(f, t2), v1, v2) /\ Alike(OffSet(f, t2), v1, v2)
            BY <3>1, AlikeSplit
        <3>10. Alike(OffSet(f, t2), v1, v2) <=>
                    OnSet0(OffSet(f0, t2), v2) = OffSet(OffSet(f1, t2), v2)
            <4>1. OffSet(OffSet(f, t2), v1) = OffSet(f0, t2)
                BY <3>1, CofactorsCommute DEF f0
            <4>2. OnSet0(OffSet(f, t2), v1) = OffSet(f1, t2)
                BY <3>1, CofactorsCommute DEF f1
            <4> QED
                BY <2>1, <4>1, <4>2, RelatedCofactors
        <3>11. Alike(OnSet0(f, t2), v1, v2) <=>
                    OnSet0(OnSet0(f0, t2), v2) = OffSet(OnSet0(f1, t2), v2)
            <4>1. OffSet(OnSet0(f, t2), v1) = OnSet0(f0, t2)
                BY <3>1, CofactorsCommute DEF f0
            <4>2. OnSet0(OnSet0(f, t2), v1) = OnSet0(f1, t2)
                BY <3>1, CofactorsCommute DEF f1
            <4> QED
                BY <2>1, <4>1, <4>2, RelatedCofactors
        <3> QED
            BY <2>2, <3>5, <3>7, <3>8, <3>9, <3>10, <3>11
    <2> QED
        BY <2>7, <2>8, <2>9
<1> QED
    BY <1>2, <1>3

\* SymChk() tells whether two variables are symmetric.
LEMMA SymChkIs ==
    ASSUME NEW f \in Families(Elems), NEW va \in Elems, NEW vb \in Elems
    PROVE  SymChk(f, va, vb) <=> Symmetric(f, va, vb)
<1> DEFINE V == Support(f) \cup {va, vb}
           D == (SUBSET SUBSET V) \X V \X V
           ref == [x \in D |-> Symmetric(x[1], x[2], x[3])]
           found == CHOOSE h : h = [x \in D |-> SymChkStep(h, x[1], x[2], x[3])]
           AgreeAt(h, S) == \A a \in Families(S) : \A x, y \in S : h[<<a, x, y>>] = Symmetric(a, x, y)
           Good == {S \in SUBSET V : AgreeAt(found, S)}
<1>1. SymChk(f, va, vb) = found[<<f, va, vb>>]
    BY DEF SymChk
<1>2. V \in SUBSET Elems /\ IsFiniteSet(V) /\ va \in V /\ vb \in V /\ f \in Families(V)
    <2>1. Support(f) \in SUBSET Elems /\ f \in Families(Support(f))
        BY DEF Families, Support
    <2>2. V \in SUBSET Elems
        BY <2>1
    <2>3. IsFiniteSet(V)
        BY <2>2, ElemFacts, FS_Subset
    <2> QED
        BY <2>1, <2>2, <2>3 DEF Families
<1>3. D = Families(V) \X V \X V
    BY DEF Families
<1> HIDE DEF V
<1> HIDE DEF D
<1>4. \A S \in SUBSET V : \A a \in Families(S) : \A x, y \in S :
            /\ <<a, x, y>> \in D
            /\ <<a, x, y>>[1] = a /\ <<a, x, y>>[2] = x /\ <<a, x, y>>[3] = y
    BY <1>3 DEF Families
<1>5. ASSUME NEW S \in SUBSET V, NEW h, \A t \in S : AgreeAt(h, S \ {t}),
             NEW a \in Families(S), NEW x \in S, NEW y \in S
      PROVE  SymChkStep(h, a, x, y) = Symmetric(a, x, y)
    <2>1. \A t \in S : \A b \in Families(S \ {t}) : \A u, w \in S \ {t} :
                h[<<b, u, w>>] = Symmetric(b, u, w)
        BY <1>5
    <2>2. SymChkStep(h, a, x, y) <=> Symmetric(a, x, y)
        BY <1>2, <2>1, SymChkSteps
    <2>3. SymChkStep(h, a, x, y) \in BOOLEAN /\ Symmetric(a, x, y) \in BOOLEAN
        BY DEF SymChkStep, Symmetric
    <2> QED
        BY <2>2, <2>3
<1>6. \A S \in SUBSET V : AgreeAt(ref, S)
    <2>1. ASSUME NEW S \in SUBSET V, NEW a \in Families(S), NEW x \in S, NEW y \in S
          PROVE  ref[<<a, x, y>>] = Symmetric(a, x, y)
        BY <1>4
    <2> QED
        BY <2>1
<1>7. ref = [x \in D |-> SymChkStep(ref, x[1], x[2], x[3])]
    <2>1. ASSUME NEW z \in D PROVE SymChkStep(ref, z[1], z[2], z[3]) = Symmetric(z[1], z[2], z[3])
        <3>1. z[1] \in Families(V) /\ z[2] \in V /\ z[3] \in V
            BY <1>3
        <3>2. V \in SUBSET V /\ \A t \in V : V \ {t} \in SUBSET V
            OBVIOUS
        <3>3. \A t \in V : AgreeAt(ref, V \ {t})
            BY <1>6, <3>2
        <3> HIDE DEF ref, AgreeAt
        <3> QED
            BY <1>5, <3>1, <3>2, <3>3
    <2> QED
        BY <2>1
<1>8. found = [x \in D |-> SymChkStep(found, x[1], x[2], x[3])]
    BY <1>7, Zenon
<1> HIDE DEF found, ref
<1>9. ASSUME NEW S \in SUBSET V, \A t \in S : S \ {t} \in Good
      PROVE  S \in Good
    <2>1. \A t \in S : AgreeAt(found, S \ {t})
        BY <1>9
    <2>2. ASSUME NEW a \in Families(S), NEW x \in S, NEW y \in S
          PROVE  found[<<a, x, y>>] = Symmetric(a, x, y)
        <3>1. found[<<a, x, y>>] = SymChkStep(found, a, x, y)
            BY <1>4, <1>8
        <3> HIDE DEF AgreeAt
        <3>2. SymChkStep(found, a, x, y) = Symmetric(a, x, y)
            BY <1>5, <2>1
        <3> QED
            BY <3>1, <3>2
    <2> QED
        BY <2>2
<1> HIDE DEF Good
<1>10. V \in Good
    BY <1>2, <1>9, SetInduction
<1> QED
    BY <1>1, <1>2, <1>10 DEF Good

\* Families of singletons.
Ones(vs) == {{v} : v \in vs}

LEMMA OnesFacts ==
    /\ \A vs, s : s \in Ones(vs) <=> \E v \in vs : s = {v}
    /\ \A a, b : Ones(a) \cap Ones(b) = Ones(a \cap b)
    /\ \A a, b : Ones(a) \ Ones(b) = Ones(a \ b)
    /\ \A a, v : Ones(a) \cup Single(v) = Ones(a \cup {v})
    /\ \A a : Ones(a) = Empty <=> a = {}
<1>1. \A vs, s : s \in Ones(vs) <=> \E v \in vs : s = {v}
    BY DEF Ones
<1>2. \A a, b : Ones(a) \cap Ones(b) = Ones(a \cap b)
    BY DEF Ones
<1>3. \A a, b : Ones(a) \ Ones(b) = Ones(a \ b)
    BY DEF Ones
<1>4. \A a, v : Ones(a) \cup Single(v) = Ones(a \cup {v})
    <2>1. \A a, v : Ones(a) \cup {{v}} = Ones(a \cup {v})
        BY DEF Ones
    <2> QED
        BY <2>1, SingleIs
<1>5. \A a : Ones(a) = Empty <=> a = {}
    BY DEF Ones, Empty
<1> QED
    BY <1>1, <1>2, <1>3, <1>4, <1>5

LEMMA CommonIn ==
    ASSUME NEW f, f # Empty
    PROVE  \A v : v \in Common(f) <=> \A s \in f : v \in s
BY DEF Common, Empty

LEMMA CommonSplit ==
    ASSUME NEW f, NEW t, OnSet0(f, t) # Empty
    PROVE  Common(f) = IF OffSet(f, t) = Empty THEN Common(OnSet0(f, t)) \cup {t}
                       ELSE Common(OnSet0(f, t)) \cap Common(OffSet(f, t))
<1> DEFINE f0 == OffSet(f, t)
           f1 == OnSet0(f, t)
<1>1. \A s : (s \in f0 <=> s \in f /\ t \notin s) /\ (s \in f1 <=> t \notin s /\ s \cup {t} \in f)
    BY OffSetIn, OnSet0In
<1>2. \A s \in f : t \in s => s \ {t} \in f1
    BY OnSet0Has
<1> HIDE DEF f0, f1
<1>3. f1 # Empty
    BY DEF f1
<1>4. f # Empty
    BY <1>1, <1>3 DEF Empty
<1>5. \A v : (\A s \in f : v \in s) <=>
                (\A s \in f1 : v \in s \cup {t}) /\ (\A s \in f0 : v \in s)
    <2>1. ASSUME NEW v, \A s \in f1 : v \in s \cup {t}, \A s \in f0 : v \in s, NEW s \in f
          PROVE  v \in s
        <3>1. CASE t \in s
            <4>1. s \ {t} \in f1 /\ (s \ {t}) \cup {t} = s
                BY <1>2, <3>1
            <4> QED
                BY <2>1, <4>1
        <3>2. CASE t \notin s
            BY <1>1, <2>1, <3>2
        <3> QED
            BY <3>1, <3>2
    <2> QED
        BY <1>1, <2>1
<1>6. CASE f0 = Empty
    <2>1. \A v : v \in Common(f) <=> v \in Common(f1) \cup {t}
        BY <1>1, <1>3, <1>4, <1>5, <1>6, CommonIn DEF Empty
    <2>2. Common(f) = Common(f1) \cup {t}
        BY <2>1
    <2> QED
        BY <1>6, <2>2 DEF f0, f1
<1>7. CASE f0 # Empty
    <2>1. PICK z \in f0 : t \notin z
        BY <1>1, <1>7 DEF Empty
    <2>2. \A v : v \in Common(f0) <=> \A s \in f0 : v \in s
        BY <1>7, CommonIn
    <2>3. \A v : v \in Common(f1) <=> \A s \in f1 : v \in s
        BY <1>3, CommonIn
    <2>4. \A v : v \in Common(f) <=> \A s \in f : v \in s
        BY <1>4, CommonIn
    <2>5. t \notin Common(f0)
        BY <2>1, <2>2
    <2>6. \A v : v # t => ((\A s \in f1 : v \in s \cup {t}) <=> (\A s \in f1 : v \in s))
        OBVIOUS
    <2>7. \A v : v \in Common(f) <=> v \in Common(f1) /\ v \in Common(f0)
        BY <1>5, <2>2, <2>3, <2>4, <2>5, <2>6
    <2>8. Common(f) = Common(f1) \cap Common(f0)
        BY <2>7
    <2> QED
        BY <1>7, <2>8 DEF f0, f1
<1> QED
    BY <1>6, <1>7

LEMMA AlwaysSteps ==
    ASSUME NEW S \in SUBSET Elems, NEW r,
           \A t \in S : \A a \in Families(S \ {t}) : r[a] = Ones(Common(a)),
           NEW f \in Families(S)
    PROVE  AlwaysStep(r, f) = Ones(Common(f))
<1> DEFINE t == Top(f)
           f0 == OffSet(f, t)
           f1 == OnSet0(f, t)
<1>1. CASE f \in {Empty, Unit}
    <2>1. Common(f) = {}
        BY <1>1 DEF Common, Empty, Unit
    <2>2. AlwaysStep(r, f) = Empty
        BY <1>1 DEF AlwaysStep
    <2> QED
        BY <2>1, <2>2, OnesFacts
<1>2. CASE f \notin {Empty, Unit}
    <2>1. f \in Families(Elems)
        BY DEF Families
    <2>2. t \in Support(f) /\ t \in S
        BY <1>2, <2>1, TopFacts, SupportFacts
    <2>3. f0 \in Families(S \ {t}) /\ f1 \in Families(S \ {t})
        BY CofactorFacts
    <2>4. f1 # Empty
        <3>1. PICK s \in f : t \in s
            BY <2>2 DEF Support
        <3> QED
            BY <3>1, OnSet0Has DEF Empty
    <2>5. AlwaysStep(r, f) = IF f0 = Empty THEN r[f1] \cup Single(t)
                             ELSE IF r[f1] # Empty THEN r[f1] \cap r[f0] ELSE r[f1]
        BY <1>2 DEF AlwaysStep
    <2>6. Common(f) = IF f0 = Empty THEN Common(f1) \cup {t} ELSE Common(f1) \cap Common(f0)
        BY <2>4, CommonSplit
    <2> HIDE DEF t, f0, f1
    <2>7. r[f1] = Ones(Common(f1)) /\ r[f0] = Ones(Common(f0))
        BY <2>2, <2>3
    <2>8. CASE f0 = Empty
        BY <2>5, <2>6, <2>7, <2>8, OnesFacts
    <2>9. CASE f0 # Empty
        <3>1. Ones(Common(f)) = r[f1] \cap r[f0]
            BY <2>6, <2>7, <2>9, OnesFacts
        <3>2. r[f1] = Empty => r[f1] \cap r[f0] = r[f1]
            BY DEF Empty
        <3> QED
            BY <2>5, <2>9, <3>1, <3>2
    <2> QED
        BY <2>8, <2>9
<1> QED
    BY <1>1, <1>2

\* Always() gives the elements of all sets.
LEMMA AlwaysIs ==
    ASSUME NEW f \in Families(Elems)
    PROVE  Always(f) = Ones(Common(f))
<1> DEFINE V == Support(f)
           ref == [x \in Over(f, f) |-> Ones(Common(x))]
           always == CHOOSE h : h = [x \in Over(f, f) |-> AlwaysStep(h, x)]
<1>1. V \in SUBSET Elems /\ IsFiniteSet(V) /\ f \in Families(V) /\ Over(f, f) = Families(V)
    <2>1. V = Support(f) \cup Support(f)
        OBVIOUS
    <2> HIDE DEF V
    <2> QED
        BY <2>1, OperandFacts
<1>2. Always(f) = always[f]
    BY DEF Always
<1> HIDE DEF V
<1>3. ASSUME NEW S \in SUBSET V, NEW x \in Families(S), NEW h,
             \A t \in S : AgreeOn(h, ref, S \ {t})
      PROVE  AlwaysStep(h, x) = Ones(Common(x))
    <2>1. \A t \in S : \A a \in Families(S \ {t}) : h[a] = Ones(Common(a))
        <3>1. ASSUME NEW t \in S, NEW a \in Families(S \ {t}) PROVE h[a] = Ones(Common(a))
            <4>1. a \in Over(f, f)
                BY <1>1 DEF Families
            <4>2. h[a] = ref[a]
                BY <1>3, <3>1 DEF AgreeOn
            <4> QED
                BY <4>1, <4>2
        <3> QED
            BY <3>1
    <2> QED
        BY <1>1, <2>1, AlwaysSteps
<1>4. ref = [x \in Over(f, f) |-> AlwaysStep(ref, x)]
    <2>1. \A t \in V : AgreeOn(ref, ref, V \ {t})
        BY DEF AgreeOn
    <2>2. ASSUME NEW x \in Over(f, f) PROVE AlwaysStep(ref, x) = Ones(Common(x))
        <3> HIDE DEF ref
        <3> QED
            BY <1>1, <1>3, <2>1
    <2> QED
        BY <2>2
<1>5. always = [x \in Over(f, f) |-> AlwaysStep(always, x)]
    BY <1>4, Zenon
<1> HIDE DEF always
<1>6. ASSUME NEW S \in SUBSET V, \A t \in S : AgreeOn(always, ref, S \ {t})
      PROVE  AgreeOn(always, ref, S)
    <2>1. ASSUME NEW x \in Families(S) PROVE always[x] = ref[x]
        <3>1. x \in Over(f, f)
            BY <1>1 DEF Families
        <3>2. AlwaysStep(always, x) = Ones(Common(x))
            <4> HIDE DEF ref
            <4> QED
                BY <1>3, <1>6
        <3> QED
            BY <1>5, <3>1, <3>2
    <2> QED
        BY <2>1 DEF AgreeOn
<1>7. AgreeOn(always, ref, V)
    <2> HIDE DEF ref
    <2> QED
        BY <1>1, <1>6, FamilyInduction
<1> QED
    BY <1>1, <1>2, <1>7 DEF AgreeOn

\* How a variable relates the halves f0 and f1 of a family.
Matches(f0, f1, x, relation) ==
    IF relation = "symmetric" THEN OffSet(f1, x) = OnSet0(f0, x)
    ELSE OffSet(f1, x) \subseteq OnSet0(f0, x)
Matching(f0, f1, relation) == {x \in Elems : f1 # Empty /\ Matches(f0, f1, x, relation)}

LEMMA MatchesIn ==
    ASSUME NEW f0, NEW f1, NEW relation, NEW x, Matches(f0, f1, x, relation), f1 # Empty
    PROVE  x \in Support(f0) \cup Support(f1)
<1>1. OffSet(f1, x) \subseteq OnSet0(f0, x)
    BY DEF Matches
<1>2. PICK s \in f1 : TRUE
    BY DEF Empty
<1>3. CASE x \in s
    BY <1>2, <1>3 DEF Support
<1>4. CASE x \notin s
    <2>1. s \in OnSet0(f0, x)
        BY <1>1, <1>2, <1>4, OffSetIn
    <2>2. s \cup {x} \in f0
        BY <2>1, OnSet0In
    <2> QED
        BY <2>2 DEF Support
<1> QED
    BY <1>3, <1>4

\* It does so in the cofactors by another variable, and the other way round.
LEMMA MatchesSplit ==
    ASSUME NEW f0, NEW f1, NEW relation, NEW t, NEW x, x # t
    PROVE  Matches(f0, f1, x, relation) <=>
                /\ Matches(OnSet0(f0, t), OnSet0(f1, t), x, relation)
                /\ Matches(OffSet(f0, t), OffSet(f1, t), x, relation)
<1> DEFINE a == OffSet(f1, x)
           b == OnSet0(f0, x)
           a1 == OffSet(OnSet0(f1, t), x)
           b1 == OnSet0(OnSet0(f0, t), x)
           a0 == OffSet(OffSet(f1, t), x)
           b0 == OnSet0(OffSet(f0, t), x)
<1>1. a1 = OnSet0(a, t) /\ b1 = OnSet0(b, t) /\ a0 = OffSet(a, t) /\ b0 = OffSet(b, t)
    BY CofactorsCommute
<1>2. \A s : s \in a <=> IF t \in s THEN s \ {t} \in a1 ELSE s \in a0
    <2> HIDE DEF a, a0, a1
    <2>1. \A s : s \in a <=> IF t \in s THEN s \ {t} \in OnSet0(a, t) ELSE s \in OffSet(a, t)
        BY Split
    <2> QED
        BY <1>1, <2>1
<1>3. \A s : s \in b <=> IF t \in s THEN s \ {t} \in b1 ELSE s \in b0
    <2> HIDE DEF b, b0, b1
    <2>1. \A s : s \in b <=> IF t \in s THEN s \ {t} \in OnSet0(b, t) ELSE s \in OffSet(b, t)
        BY Split
    <2> QED
        BY <1>1, <2>1
<1>4. \A s : (s \in a1 <=> t \notin s /\ s \cup {t} \in a) /\ (s \in b1 <=> t \notin s /\ s \cup {t} \in b)
    BY <1>1, OnSet0In
<1>5. \A s : (s \in a0 <=> t \notin s /\ s \in a) /\ (s \in b0 <=> t \notin s /\ s \in b)
    BY <1>1, OffSetIn
<1>6. CASE relation = "symmetric"
    <2>1. (Matches(f0, f1, x, relation) <=> a = b)
          /\ (Matches(OnSet0(f0, t), OnSet0(f1, t), x, relation) <=> a1 = b1)
          /\ (Matches(OffSet(f0, t), OffSet(f1, t), x, relation) <=> a0 = b0)
        BY <1>6 DEF Matches
    <2>2. a = b => a1 = b1 /\ a0 = b0
        BY <1>1
    <2> HIDE DEF a, b, a1, b1, a0, b0
    <2>3. ASSUME a1 = b1, a0 = b0 PROVE a = b
        <3>1. \A s : s \in a <=> s \in b
            BY <1>2, <1>3, <2>3
        <3> QED
            BY <3>1
    <2> QED
        BY <2>1, <2>2, <2>3
<1>7. CASE relation # "symmetric"
    <2>1. (Matches(f0, f1, x, relation) <=> a \subseteq b)
          /\ (Matches(OnSet0(f0, t), OnSet0(f1, t), x, relation) <=> a1 \subseteq b1)
          /\ (Matches(OffSet(f0, t), OffSet(f1, t), x, relation) <=> a0 \subseteq b0)
        BY <1>7 DEF Matches
    <2> HIDE DEF a, b, a1, b1, a0, b0
    <2>2. a \subseteq b => a1 \subseteq b1 /\ a0 \subseteq b0
        BY <1>4, <1>5
    <2>3. a1 \subseteq b1 /\ a0 \subseteq b0 => a \subseteq b
        BY <1>2, <1>3
    <2> QED
        BY <2>1, <2>2, <2>3
<1> QED
    BY <1>6, <1>7

LEMMA MatchesNone ==
    /\ \A f, x, relation : Matches(f, Empty, x, relation) <=>
            relation # "symmetric" \/ x \notin Support(f)
    /\ \A f \in {Empty, Unit} : \A x, relation : ~Matches(f, Unit, x, relation)
<1>1. \A f, x : OnSet0(f, x) = Empty <=> x \notin Support(f)
    <2>1. ASSUME NEW f, NEW x, x \in Support(f) PROVE OnSet0(f, x) # Empty
        <3>1. PICK s \in f : x \in s
            BY <2>1 DEF Support
        <3> QED
            BY <3>1, OnSet0Has DEF Empty
    <2>2. \A f, x : x \notin Support(f) => OnSet0(f, x) = Empty
        BY NotIn
    <2> QED
        BY <2>1, <2>2
<1>2. \A x : OffSet(Empty, x) = Empty /\ OffSet(Unit, x) = Unit
    BY DEF OffSet, Empty, Unit
<1>3. \A f \in {Empty, Unit} : \A x : OnSet0(f, x) = Empty
    BY <1>1 DEF Support, Empty, Unit
<1>4. \A f : Empty \subseteq f
    BY DEF Empty
<1>5. ~(Unit \subseteq Empty)
    BY DEF Empty, Unit
<1>6. ASSUME NEW f, NEW x, NEW relation
      PROVE  Matches(f, Empty, x, relation) <=> relation # "symmetric" \/ x \notin Support(f)
    BY <1>1, <1>2, <1>4 DEF Matches
<1>7. ASSUME NEW f \in {Empty, Unit}, NEW x, NEW relation
      PROVE  ~Matches(f, Unit, x, relation)
    BY <1>2, <1>3, <1>5 DEF Matches
<1> QED
    BY <1>6, <1>7

LEMMA HalvesSteps ==
    ASSUME NEW S \in SUBSET Elems, NEW r, NEW relation,
           \A t \in S : \A a, b \in Families(S \ {t}) : r[<<a, b>>] = Ones(Matching(a, b, relation)),
           NEW f0 \in Families(S), NEW f1 \in Families(S)
    PROVE  HalvesStep(r, f0, f1, relation) = Ones(Matching(f0, f1, relation))
<1> DEFINE t == HigherOf(Top(f1), Top(f0))
           f00 == OffSet(f0, t)
           f01 == OnSet0(f0, t)
           f10 == OffSet(f1, t)
           f11 == OnSet0(f1, t)
           ones == r[<<f01, f11>>]
           zeros == r[<<f00, f10>>]
           others(f) == IF relation = "symmetric" THEN SupportSets(f) ELSE {}
           alike == IF relation = "symmetric" THEN f10 = f01 ELSE f10 \subseteq f01
           h == CASE f11 = Empty -> zeros \ others(f01)
                  [] f11 # Empty /\ f10 = Empty -> ones \ others(f00)
                  [] OTHER -> IF ones # Empty THEN ones \cap zeros ELSE ones
           m == Matching(f0, f1, relation)
<1>1. HalvesStep(r, f0, f1, relation) =
        IF f1 = Empty \/ (f1 = Unit /\ f0 \in {Empty, Unit}) THEN Empty
        ELSE IF alike THEN h \cup Single(t) ELSE h
    BY DEF HalvesStep
<1>2. CASE f1 = Empty \/ (f1 = Unit /\ f0 \in {Empty, Unit})
    <2>1. m = {}
        BY <1>2, MatchesNone DEF Matching
    <2> QED
        BY <1>1, <1>2, <2>1, OnesFacts
<1>3. CASE f1 # Empty /\ ~(f1 = Unit /\ f0 \in {Empty, Unit})
    <2>1. t \in S /\ t \in Elems
        <3>1. f0 \in Families(Elems) /\ f1 \in Families(Elems)
            BY DEF Families
        <3>2. t \in Support(f1) \cup Support(f0)
            BY <1>3, <3>1, HigherFacts
        <3> HIDE DEF t
        <3>3. t \in S
            BY <3>2, SupportFacts
        <3> QED
            BY <3>3
    <2>2. /\ f00 \in Families(S \ {t}) /\ f01 \in Families(S \ {t})
          /\ f10 \in Families(S \ {t}) /\ f11 \in Families(S \ {t})
        BY CofactorFacts
    <2>3. ones = Ones(Matching(f01, f11, relation)) /\ zeros = Ones(Matching(f00, f10, relation))
        BY <2>1, <2>2
    <2>4. \A x : x # t => (Matches(f0, f1, x, relation) <=>
            Matches(f01, f11, x, relation) /\ Matches(f00, f10, x, relation))
        BY MatchesSplit
    <2>5. Matches(f0, f1, t, relation) <=> alike
        BY DEF Matches
    <2>6. f11 = Empty => f10 # Empty
        <3>1. PICK s \in f1 : TRUE
            BY <1>3 DEF Empty
        <3>2. t \notin s => s \in f10
            BY <3>1, OffSetIn
        <3>3. t \in s => s \ {t} \in f11
            BY <3>1, OnSet0Has
        <3> QED
            BY <3>2, <3>3 DEF Empty
    <2>7. \A a, b \in Families(S \ {t}) : t \notin Matching(a, b, relation)
        <3>1. ASSUME NEW a \in Families(S \ {t}), NEW b \in Families(S \ {t}),
                     t \in Matching(a, b, relation)
              PROVE  FALSE
            <4> HIDE DEF t
            <4>1. t \in Support(a) \cup Support(b)
                BY <3>1, MatchesIn DEF Matching
            <4> QED
                BY <4>1, SupportFacts
        <3> QED
            BY <3>1
    <2>8. \A f : SupportSets(f) = Ones(Support(f))
        BY DEF SupportSets, Ones
    <2> DEFINE n == {x \in m : x # t}
    <2>9. h = Ones(n)
        <3> HIDE DEF t, f00, f01, f10, f11
        <3> DEFINE m1 == Matching(f01, f11, relation)
                   m0 == Matching(f00, f10, relation)
        <3>1. \A x : x \in n <=>
                x \in Elems /\ x # t /\ Matches(f01, f11, x, relation) /\ Matches(f00, f10, x, relation)
            BY <1>3, <2>4 DEF Matching
        <3>2. \A x : (x \in m1 <=> x \in Elems /\ f11 # Empty /\ Matches(f01, f11, x, relation))
                     /\ (x \in m0 <=> x \in Elems /\ f10 # Empty /\ Matches(f00, f10, x, relation))
            BY DEF Matching
        <3>3. t \notin m1 /\ t \notin m0
            BY <2>2, <2>7
        <3>4. ones = Ones(m1) /\ zeros = Ones(m0)
            BY <2>3
        <3> HIDE DEF n, m1, m0, ones, zeros
        <3>5. CASE f11 = Empty
            <4>1. \A x : Matches(f01, f11, x, relation) <=>
                        relation # "symmetric" \/ x \notin Support(f01)
                BY <3>5, MatchesNone
            <4>2. n = IF relation = "symmetric" THEN m0 \ Support(f01) ELSE m0
                BY <2>6, <3>1, <3>2, <3>3, <3>5, <4>1
            <4>3. h = zeros \ others(f01)
                BY <3>5
            <4>4. others(f01) = IF relation = "symmetric" THEN Ones(Support(f01)) ELSE {}
                BY <2>8
            <4> HIDE DEF h, others
            <4>5. CASE relation = "symmetric"
                <5>1. Ones(m0) \ Ones(Support(f01)) = Ones(m0 \ Support(f01))
                    BY OnesFacts
                <5> QED
                    BY <3>4, <4>2, <4>3, <4>4, <4>5, <5>1
            <4>6. CASE relation # "symmetric"
                BY <3>4, <4>2, <4>3, <4>4, <4>6
            <4> QED
                BY <4>5, <4>6
        <3>6. CASE f11 # Empty /\ f10 = Empty
            <4>1. \A x : Matches(f00, f10, x, relation) <=>
                        relation # "symmetric" \/ x \notin Support(f00)
                BY <3>6, MatchesNone
            <4>2. n = IF relation = "symmetric" THEN m1 \ Support(f00) ELSE m1
                BY <3>1, <3>2, <3>3, <3>6, <4>1
            <4>3. h = ones \ others(f00)
                BY <3>6
            <4>4. others(f00) = IF relation = "symmetric" THEN Ones(Support(f00)) ELSE {}
                BY <2>8
            <4> HIDE DEF h, others
            <4>5. CASE relation = "symmetric"
                <5>1. Ones(m1) \ Ones(Support(f00)) = Ones(m1 \ Support(f00))
                    BY OnesFacts
                <5> QED
                    BY <3>4, <4>2, <4>3, <4>4, <4>5, <5>1
            <4>6. CASE relation # "symmetric"
                BY <3>4, <4>2, <4>3, <4>4, <4>6
            <4> QED
                BY <4>5, <4>6
        <3>7. CASE f11 # Empty /\ f10 # Empty
            <4>1. n = m1 \cap m0
                BY <3>1, <3>2, <3>3, <3>7
            <4>2. h = IF ones # Empty THEN ones \cap zeros ELSE ones
                BY <3>7
            <4>3. ones = Empty => ones \cap zeros = ones
                BY DEF Empty
            <4>4. h = ones \cap zeros
                BY <4>2, <4>3
            <4> QED
                BY <3>4, <4>1, <4>4, OnesFacts
        <3> QED
            BY <3>5, <3>6, <3>7
    <2>10. m = IF alike THEN n \cup {t} ELSE n
        <3>1. t \in m <=> alike
            BY <1>3, <2>1, <2>5 DEF Matching
        <3> HIDE DEF m, alike, t
        <3> QED
            BY <3>1
    <2> HIDE DEF h, n, alike, t
    <2>11. HalvesStep(r, f0, f1, relation) = IF alike THEN h \cup Single(t) ELSE h
        BY <1>1, <1>3
    <2> HIDE DEF m
    <2>12. CASE alike
        <3>1. Ones(n) \cup Single(t) = Ones(n \cup {t})
            BY OnesFacts
        <3>2. HalvesStep(r, f0, f1, relation) = Ones(m)
            BY <2>9, <2>10, <2>11, <2>12, <3>1
        <3> QED
            BY <3>2 DEF m
    <2>13. CASE ~alike
        <3>1. HalvesStep(r, f0, f1, relation) = Ones(m)
            BY <2>9, <2>10, <2>11, <2>13
        <3> QED
            BY <3>1 DEF m
    <2> QED
        BY <2>12, <2>13
<1> QED
    BY <1>2, <1>3

LEMMA HalvesIs ==
    ASSUME NEW f0 \in Families(Elems), NEW f1 \in Families(Elems), NEW relation
    PROVE  HalvesSet(f0, f1, relation) = Ones(Matching(f0, f1, relation))
<1> DEFINE V == Support(f0) \cup Support(f1)
           D == Pairs(f0, f1)
           ref == [p \in D |-> Ones(Matching(p[1], p[2], relation))]
           found == CHOOSE h : h = [p \in D |-> HalvesStep(h, p[1], p[2], relation)]
<1>1. V \in SUBSET Elems /\ IsFiniteSet(V) /\ f0 \in Families(V) /\ f1 \in Families(V)
      /\ Over(f0, f1) = Families(V)
    BY OperandFacts
<1>2. D = Families(V) \X Families(V)
    BY <1>1 DEF Pairs
<1>3. HalvesSet(f0, f1, relation) = found[<<f0, f1>>]
    BY DEF HalvesSet
<1> HIDE DEF V, D
<1>4. ASSUME NEW S \in SUBSET V, NEW a \in Families(S), NEW b \in Families(S), NEW h,
             \A t \in S : AgreeOnPairs(h, ref, S \ {t})
      PROVE  HalvesStep(h, a, b, relation) = Ones(Matching(a, b, relation))
    <2>1. \A t \in S : \A x, y \in Families(S \ {t}) :
                h[<<x, y>>] = Ones(Matching(x, y, relation))
        <3>1. ASSUME NEW t \in S, NEW x \in Families(S \ {t}), NEW y \in Families(S \ {t})
              PROVE  h[<<x, y>>] = Ones(Matching(x, y, relation))
            <4>1. <<x, y>> \in D
                BY <1>2 DEF Families
            <4>2. h[<<x, y>>] = ref[<<x, y>>]
                BY <1>4, <3>1 DEF AgreeOnPairs
            <4> QED
                BY <4>1, <4>2
        <3> QED
            BY <3>1
    <2> QED
        BY <1>1, <2>1, HalvesSteps
<1>5. ref = [p \in D |-> HalvesStep(ref, p[1], p[2], relation)]
    <2>1. \A t \in V : AgreeOnPairs(ref, ref, V \ {t})
        BY DEF AgreeOnPairs
    <2>2. ASSUME NEW p \in D
          PROVE  HalvesStep(ref, p[1], p[2], relation) = Ones(Matching(p[1], p[2], relation))
        <3>1. p[1] \in Families(V) /\ p[2] \in Families(V)
            BY <1>2
        <3> HIDE DEF ref
        <3> QED
            BY <1>4, <2>1, <3>1
    <2> QED
        BY <2>2
<1>6. found = [p \in D |-> HalvesStep(found, p[1], p[2], relation)]
    BY <1>5, Zenon
<1> HIDE DEF found
<1>7. ASSUME NEW S \in SUBSET V, \A t \in S : AgreeOnPairs(found, ref, S \ {t})
      PROVE  AgreeOnPairs(found, ref, S)
    <2>1. ASSUME NEW a \in Families(S), NEW b \in Families(S)
          PROVE  found[<<a, b>>] = ref[<<a, b>>]
        <3>1. <<a, b>> \in D /\ <<a, b>>[1] = a /\ <<a, b>>[2] = b
            BY <1>2 DEF Families
        <3>2. HalvesStep(found, a, b, relation) = Ones(Matching(a, b, relation))
            <4> HIDE DEF ref
            <4> QED
                BY <1>4, <1>7
        <3> QED
            BY <1>6, <3>1, <3>2
    <2> QED
        BY <2>1 DEF AgreeOnPairs
<1>8. AgreeOnPairs(found, ref, V)
    <2> HIDE DEF ref
    <2> QED
        BY <1>1, <1>7, PairInduction
<1>9. <<f0, f1>> \in D /\ <<f0, f1>>[1] = f0 /\ <<f0, f1>>[2] = f1
    BY <1>1, <1>2
<1> QED
    BY <1>1, <1>3, <1>8, <1>9 DEF AgreeOnPairs

\* The variables that v's halves match are those in the relation to v.
LEMMA MatchingHalves ==
    ASSUME NEW f \in Families(Elems), NEW v, OnSet0(f, v) # Empty
    PROVE  /\ Matching(OffSet(f, v), OnSet0(f, v), "symmetric")
                = {x \in Support(f) \ {v} : Symmetric(f, v, x)}
           /\ Matching(OffSet(f, v), OnSet0(f, v), "coimplied")
                = {x \in Support(f) \ {v} : CoImplies(f, v, x)}
<1> DEFINE f0 == OffSet(f, v)
           f1 == OnSet0(f, v)
<1>1. f0 \in Families(Elems \ {v}) /\ f1 \in Families(Elems \ {v})
      /\ Support(f0) \subseteq Support(f) /\ Support(f1) \subseteq Support(f)
    BY CofactorFacts
<1>2. v \notin Support(f0) \cup Support(f1)
    <2>1. v \notin Support(f0)
        BY <1>1, SupportFacts
    <2>2. v \notin Support(f1)
        BY <1>1, SupportFacts
    <2> QED
        BY <2>1, <2>2
<1>3. \A x : x # v => (Matches(f0, f1, x, "symmetric") <=> Symmetric(f, v, x))
    <2>1. ASSUME NEW x, x # v PROVE Matches(f0, f1, x, "symmetric") <=> Symmetric(f, v, x)
        <3>1. Symmetric(f, v, x) <=> Alike(f, v, x)
            BY <2>1, SymmetricIs
        <3>2. Alike(f, v, x) <=> OnSet0(f0, x) = OffSet(f1, x)
            BY <2>1, RelatedCofactors
        <3> QED
            BY <3>1, <3>2 DEF Matches
    <2> QED
        BY <2>1
<1>4. \A x : x # v => (Matches(f0, f1, x, "coimplied") <=> CoImplies(f, v, x))
    <2>1. ASSUME NEW x, x # v PROVE Matches(f0, f1, x, "coimplied") <=> CoImplies(f, v, x)
        <3>1. CoImplies(f, v, x) <=> OneWay(f, v, x)
            BY <2>1, CoImpliesIs
        <3>2. OneWay(f, v, x) <=> OffSet(f1, x) \subseteq OnSet0(f0, x)
            BY <2>1, RelatedCofactors
        <3>3. "coimplied" # "symmetric"
            OBVIOUS
        <3> QED
            BY <3>1, <3>2, <3>3 DEF Matches
    <2> QED
        BY <2>1
<1>5. Support(f) \in SUBSET Elems
    BY SupportFacts
<1> HIDE DEF f0, f1
<1>6. f1 # Empty
    BY DEF f1
<1>7. \A x, relation : Matches(f0, f1, x, relation) => x \in Support(f) \ {v}
    BY <1>1, <1>2, <1>6, MatchesIn
<1>8. \A x : x \in Matching(f0, f1, "symmetric") <=>
                x \in Support(f) \ {v} /\ Symmetric(f, v, x)
    BY <1>3, <1>5, <1>6, <1>7 DEF Matching
<1>9. \A x : x \in Matching(f0, f1, "coimplied") <=>
                x \in Support(f) \ {v} /\ CoImplies(f, v, x)
    BY <1>4, <1>5, <1>6, <1>7 DEF Matching
<1>10. Matching(f0, f1, "symmetric") = {x \in Support(f) \ {v} : Symmetric(f, v, x)}
    BY <1>8
<1>11. Matching(f0, f1, "coimplied") = {x \in Support(f) \ {v} : CoImplies(f, v, x)}
    BY <1>9
<1> QED
    BY <1>10, <1>11 DEF f0, f1

LEMMA NoSetWith ==
    ASSUME NEW f, NEW v
    PROVE  OnSet0(f, v) = Empty <=> v \notin Support(f)
<1>1. ASSUME v \in Support(f) PROVE OnSet0(f, v) # Empty
    <2>1. PICK s \in f : v \in s
        BY <1>1 DEF Support
    <2> QED
        BY <2>1, OnSet0Has DEF Empty
<1> QED
    BY <1>1, NotIn

\* SymSet() gives the variables that are symmetric to one that is used.
LEMMA SymSetIs ==
    ASSUME NEW f \in Families(Elems), NEW v \in Elems
    PROVE  SymSet(f, v) = Ones({x \in Support(f) \ {v} : v \in Support(f) /\ Symmetric(f, v, x)})
<1> DEFINE f0 == OffSet(f, v)
           f1 == OnSet0(f, v)
           m == Matching(f0, f1, "symmetric")
<1>1. f0 \in Families(Elems) /\ f1 \in Families(Elems)
    <2>1. f0 \in Families(Elems \ {v}) /\ f1 \in Families(Elems \ {v})
        BY CofactorFacts
    <2> QED
        BY <2>1 DEF Families
<1>2. SymSet(f, v) = Ones(m)
    BY <1>1, HalvesIs DEF SymSet
<1>3. CASE v \in Support(f)
    <2>1. f1 # Empty
        BY <1>3, NoSetWith
    <2>2. m = {x \in Support(f) \ {v} : Symmetric(f, v, x)}
        BY <2>1, MatchingHalves
    <2>3. {x \in Support(f) \ {v} : Symmetric(f, v, x)}
            = {x \in Support(f) \ {v} : v \in Support(f) /\ Symmetric(f, v, x)}
        BY <1>3
    <2> QED
        BY <1>2, <2>2, <2>3
<1>4. CASE v \notin Support(f)
    <2>1. f1 = Empty
        BY <1>4, NoSetWith
    <2> HIDE DEF f0, f1
    <2>2. m = {}
        BY <2>1 DEF Matching
    <2>3. {x \in Support(f) \ {v} : v \in Support(f) /\ Symmetric(f, v, x)} = {}
        BY <1>4
    <2> QED
        BY <1>2, <2>2, <2>3
<1> QED
    BY <1>3, <1>4

\* CoImplySet() gives the variables that can stand for v.
LEMMA CoImplySetIs ==
    ASSUME NEW f \in Families(Elems), NEW v \in Elems
    PROVE  CoImplySet(f, v) = Ones({x \in Support(f) \ {v} : CoImplies(f, v, x)})
<1> DEFINE f0 == OffSet(f, v)
           f1 == OnSet0(f, v)
<1>1. f0 \in Families(Elems) /\ f1 \in Families(Elems)
    <2>1. f0 \in Families(Elems \ {v}) /\ f1 \in Families(Elems \ {v})
        BY CofactorFacts
    <2> QED
        BY <2>1 DEF Families
<1>2. CASE f1 # Empty
    <2>1. CoImplySet(f, v) = HalvesSet(f0, f1, "coimplied")
        BY <1>2 DEF CoImplySet
    <2>2. Matching(f0, f1, "coimplied") = {x \in Support(f) \ {v} : CoImplies(f, v, x)}
        BY <1>2, MatchingHalves
    <2>3. HalvesSet(f0, f1, "coimplied") = Ones(Matching(f0, f1, "coimplied"))
        BY <1>1, HalvesIs
    <2> QED
        BY <2>1, <2>2, <2>3
<1>3. CASE f1 = Empty
    <2>1. CoImplySet(f, v) = Ones(Support(f))
        BY <1>3 DEF CoImplySet, SupportSets, Ones
    <2>2. v \notin Support(f)
        BY <1>3, NoSetWith
    <2>3. \A x : CoImplies(f, v, x)
        BY <2>2 DEF CoImplies, Support
    <2>4. {x \in Support(f) \ {v} : CoImplies(f, v, x)} = Support(f)
        BY <2>2, <2>3
    <2> QED
        BY <2>1, <2>4
<1> QED
    BY <1>2, <1>3

\* ImplySet() gives the variables of every set that has v.
LEMMA ImplySetIs ==
    ASSUME NEW f \in Families(Elems), NEW v \in Elems
    PROVE  ImplySet(f, v) = Ones({x \in Support(f) \ {v} : Implies(f, v, x)})
<1> DEFINE f1 == OnSet0(f, v)
           m == {x \in Support(f) \ {v} : Implies(f, v, x)}
<1>1. f1 \in Families(Elems \ {v}) /\ Support(f1) \subseteq Support(f)
    BY CofactorFacts
<1>2. CASE f1 # Empty
    <2>1. f1 \in Families(Elems)
        BY <1>1 DEF Families
    <2>2. ImplySet(f, v) = Ones(Common(f1))
        BY <1>2, <2>1, AlwaysIs DEF ImplySet
    <2>3. \A s : s \in f1 <=> v \notin s /\ s \cup {v} \in f
        BY OnSet0In
    <2>4. \A s \in f : v \in s => s \ {v} \in f1
        BY OnSet0Has
    <2> HIDE DEF f1
    <2>5. \A x : x \in Common(f1) <=> \A s \in f1 : x \in s
        BY <1>2, CommonIn
    <2>6. PICK z \in f1 : v \notin z /\ z \cup {v} \in f
        BY <1>2, <2>3 DEF Empty
    <2>7. \A x : x \in Common(f1) => x \in m
        <3>1. ASSUME NEW x, x \in Common(f1) PROVE x \in m
            <4>1. x \in z /\ x # v
                BY <2>5, <2>6, <3>1
            <4>2. x \in Support(f)
                BY <2>6, <4>1 DEF Support
            <4>3. \A s \in f : v \in s => x \in s
                BY <2>4, <2>5, <3>1
            <4> QED
                BY <4>1, <4>2, <4>3 DEF Implies
        <3> QED
            BY <3>1
    <2>8. \A x : x \in m => x \in Common(f1)
        <3>1. ASSUME NEW x, x \in m, NEW s \in f1 PROVE x \in s
            <4>1. s \cup {v} \in f /\ v \in s \cup {v} /\ x # v
                BY <2>3, <3>1
            <4>2. x \in s \cup {v}
                BY <3>1, <4>1 DEF Implies
            <4> QED
                BY <4>1, <4>2
        <3> QED
            BY <2>5, <3>1
    <2> HIDE DEF m
    <2>9. Common(f1) = m
        BY <2>7, <2>8
    <2> QED
        BY <2>2, <2>9 DEF m
<1>3. CASE f1 = Empty
    <2>1. ImplySet(f, v) = Ones(Support(f))
        BY <1>3 DEF ImplySet, SupportSets, Ones
    <2>2. v \notin Support(f)
        BY <1>3, NoSetWith
    <2>3. \A x : Implies(f, v, x)
        BY <2>2 DEF Implies, Support
    <2>4. m = Support(f)
        BY <2>2, <2>3
    <2> QED
        BY <2>1, <2>4
<1> QED
    BY <1>2, <1>3

\* Symmetry is an equivalence.
Equivalence(vars, rel) ==
    /\ \A x \in vars : <<x, x>> \in rel
    /\ \A x, y \in vars : <<x, y>> \in rel => <<y, x>> \in rel
    /\ \A x, y, z \in vars : <<x, y>> \in rel /\ <<y, z>> \in rel => <<x, z>> \in rel
Symmetries(f) == {p \in Support(f) \X Support(f) : Symmetric(f, p[1], p[2])}

LEMMA OneWayChain ==
    ASSUME NEW f, NEW a, NEW b, NEW c, a # b, b # c, a # c, OneWay(f, a, b), OneWay(f, b, c)
    PROVE  OneWay(f, a, c)
<1>1. ASSUME NEW s, a \notin s, c \notin s, s \cup {a} \in f PROVE s \cup {c} \in f
    <2>1. CASE b \notin s
        <3>1. s \cup {b} \in f
            BY <1>1, <2>1 DEF OneWay
        <3> QED
            BY <1>1, <2>1, <3>1 DEF OneWay
    <2>2. CASE b \in s
        <3> DEFINE r == s \ {b}
                   ra == r \cup {a}
                   rc == r \cup {c}
        <3>1. /\ b \notin ra /\ c \notin ra /\ ra \cup {b} = s \cup {a}
              /\ a \notin rc /\ b \notin rc /\ rc \cup {b} = s \cup {c}
              /\ ra \cup {c} = rc \cup {a}
            BY <1>1, <2>2
        <3> HIDE DEF ra, rc
        <3>2. ra \cup {c} \in f
            BY <1>1, <3>1 DEF OneWay
        <3>3. rc \cup {b} \in f
            BY <3>1, <3>2 DEF OneWay
        <3> QED
            BY <3>1, <3>3
    <2> QED
        BY <2>1, <2>2
<1> QED
    BY <1>1 DEF OneWay

LEMMA SymmetriesAre ==
    ASSUME NEW f
    PROVE  Equivalence(Support(f), Symmetries(f))
<1>1. \A x, y \in Support(f) : <<x, y>> \in Symmetries(f) <=> x = y \/ Alike(f, x, y)
    <2>1. ASSUME NEW x \in Support(f), NEW y \in Support(f)
          PROVE  <<x, y>> \in Symmetries(f) <=> x = y \/ Alike(f, x, y)
        <3>1. <<x, y>> \in Symmetries(f) <=> Symmetric(f, x, y)
            BY DEF Symmetries
        <3> QED
            BY <3>1, SymmetricTrivial, SymmetricIs
    <2> QED
        BY <2>1
<1>2. \A x, y : Alike(f, x, y) => Alike(f, y, x)
    BY DEF Alike
<1>3. ASSUME NEW x, NEW y, NEW z, Alike(f, x, y), Alike(f, y, z), x # y, y # z, x # z
      PROVE  Alike(f, x, z)
    BY <1>3, OneWayChain DEF Alike
<1>4. \A x, y, z \in Support(f) :
            <<x, y>> \in Symmetries(f) /\ <<y, z>> \in Symmetries(f) => <<x, z>> \in Symmetries(f)
    BY <1>1, <1>2, <1>3
<1> QED
    BY <1>1, <1>2, <1>4 DEF Equivalence

Class(g, rel, x) == {y \in g : <<x, y>> \in rel}
Classes(g, rel) == {Class(g, rel, x) : x \in g}

\* The classes of what is left when a class is taken.
LEMMA ClassesSplit ==
    ASSUME NEW V, NEW rel, Equivalence(V, rel), NEW g \in SUBSET V, NEW t \in g,
           NEW c, c = Class(g, rel, t)
    PROVE  Classes(g, rel) = {c} \cup Classes(g \ c, rel) /\ t \in c
<1>1. \A x \in g : x \in c <=> <<t, x>> \in rel
    BY DEF Class
<1>2. \A x \in c : x \in g
    BY DEF Class
<1>3. ASSUME NEW x \in c PROVE Class(g, rel, x) = c
    <2>1. x \in g /\ x \in V /\ t \in V
        BY <1>2
    <2>2. <<t, x>> \in rel /\ <<x, t>> \in rel
        BY <1>1, <2>1 DEF Equivalence
    <2>3. \A y \in g : <<x, y>> \in rel <=> <<t, y>> \in rel
        <3>1. \A y \in g : y \in V
            OBVIOUS
        <3> QED
            BY <2>1, <2>2, <3>1 DEF Equivalence
    <2> QED
        BY <1>1, <1>2, <2>3 DEF Class
<1>4. ASSUME NEW x \in g \ c PROVE Class(g \ c, rel, x) = Class(g, rel, x)
    <2>1. ASSUME NEW y \in c PROVE <<x, y>> \notin rel
        <3>1. x \in V /\ y \in V /\ t \in V /\ y \in g
            BY <1>2, <2>1
        <3>2. <<t, y>> \in rel /\ <<t, x>> \notin rel
            BY <1>1, <1>4, <2>1, <3>1
        <3> QED
            BY <3>1, <3>2 DEF Equivalence
    <2> QED
        BY <2>1 DEF Class
<1>5. t \in c
    BY <1>1 DEF Equivalence
<1> DEFINE rest == g \ c
           A == Classes(g, rel)
           B == Classes(rest, rel)
<1>6. \A k : k \in A <=> \E x \in g : k = Class(g, rel, x)
    BY DEF Classes
<1>7. \A k : k \in B <=> \E x \in rest : k = Class(rest, rel, x)
    BY DEF Classes
<1>8. \A k : k \in A <=> k = c \/ k \in B
    <2>1. ASSUME NEW k \in A PROVE k = c \/ k \in B
        <3>1. PICK x \in g : k = Class(g, rel, x)
            BY <1>6, <2>1
        <3>2. x \in c \/ x \in rest
            OBVIOUS
        <3> QED
            BY <1>3, <1>4, <1>7, <3>1, <3>2
    <2>2. ASSUME NEW k \in B PROVE k \in A
        <3>1. PICK x \in rest : k = Class(rest, rel, x)
            BY <1>7, <2>2
        <3> QED
            BY <1>4, <1>6, <3>1
    <2>3. c \in A
        BY <1>3, <1>5, <1>6
    <2> QED
        BY <2>1, <2>2, <2>3
<1> HIDE DEF A, B
<1>9. A = {c} \cup B
    BY <1>8
<1> QED
    BY <1>5, <1>9 DEF A, B

\* The loops of SymGrp() and SymGrpNaive() give the classes of the variables.
LEMMA GroupsAre ==
    ASSUME NEW V \in SUBSET Elems, NEW pairs, NEW rel, Equivalence(V, rel),
           \A x, y \in V : x # y => (<<x, y>> \in pairs <=> <<x, y>> \in rel)
    PROVE  Groups(V, pairs) = Classes(V, rel)
<1> DEFINE group(g) == {Top({g})} \cup {v \in g : <<Top({g}), v>> \in pairs}
           ref == [g \in SUBSET V |-> Classes(g, rel)]
           found == CHOOSE h : h = [g \in SUBSET V |->
                                      IF g = {} THEN {} ELSE {group(g)} \cup h[g \ group(g)]]
           Good == {S \in SUBSET V : \A g \in SUBSET S : found[g] = ref[g]}
<1>1. Groups(V, pairs) = found[V]
    BY DEF Groups
<1>2. ASSUME NEW g \in SUBSET V, g # {}
      PROVE  /\ Top({g}) \in g
             /\ group(g) = Class(g, rel, Top({g}))
             /\ Classes(g, rel) = {group(g)} \cup Classes(g \ group(g), rel)
             /\ Top({g}) \in group(g)
    <2> DEFINE t == Top({g})
    <2>1. {g} \in Families(Elems) /\ Support({g}) = g
        BY DEF Families, Support
    <2>2. {g} \notin {Empty, Unit}
        BY <1>2 DEF Empty, Unit
    <2>3. t \in g
        BY <2>1, <2>2, TopFacts
    <2> HIDE DEF t
    <2>4. {t} \cup {v \in g : <<t, v>> \in pairs} = Class(g, rel, t)
        <3>1. t \in V /\ \A v \in g : v \in V
            BY <2>3
        <3>2. \A v \in g : v \in Class(g, rel, t) <=> v = t \/ <<t, v>> \in pairs
            BY <2>3, <3>1 DEF Class, Equivalence
        <3>3. \A v \in Class(g, rel, t) : v \in g
            BY DEF Class
        <3> HIDE DEF Class
        <3> QED
            BY <2>3, <3>2, <3>3
    <2>5. group(g) = Class(g, rel, t)
        BY <2>4 DEF t
    <2>6. Classes(g, rel) = {Class(g, rel, t)} \cup Classes(g \ Class(g, rel, t), rel)
          /\ t \in Class(g, rel, t)
        BY <2>3, ClassesSplit
    <2> HIDE DEF group
    <2>7. Classes(g, rel) = {group(g)} \cup Classes(g \ group(g), rel) /\ t \in group(g)
        BY <2>5, <2>6
    <2> QED
        BY <2>3, <2>5, <2>7 DEF t
<1>3. Classes({}, rel) = {}
    BY DEF Classes
<1> HIDE DEF group
<1>4. ref = [g \in SUBSET V |-> IF g = {} THEN {} ELSE {group(g)} \cup ref[g \ group(g)]]
    <2>1. ASSUME NEW g \in SUBSET V
          PROVE  Classes(g, rel) = IF g = {} THEN {} ELSE {group(g)} \cup ref[g \ group(g)]
        <3>1. g \ group(g) \in SUBSET V
            OBVIOUS
        <3>2. ref[g \ group(g)] = Classes(g \ group(g), rel)
            BY <3>1
        <3> HIDE DEF ref
        <3> QED
            BY <1>2, <1>3, <3>2
    <2> QED
        BY <2>1
<1>5. found = [g \in SUBSET V |-> IF g = {} THEN {} ELSE {group(g)} \cup found[g \ group(g)]]
    BY <1>4, Zenon
<1> HIDE DEF found
<1>6. ASSUME NEW S \in SUBSET V, \A t \in S : S \ {t} \in Good PROVE S \in Good
    <2>1. ASSUME NEW g \in SUBSET S PROVE found[g] = ref[g]
        <3>1. g \in SUBSET V
            OBVIOUS
        <3>2. CASE g = {}
            BY <1>3, <1>5, <3>1, <3>2
        <3>3. CASE g # {}
            <4> DEFINE rest == g \ group(g)
            <4>1. Top({g}) \in S /\ rest \in SUBSET (S \ {Top({g})})
                BY <1>2, <3>1, <3>3
            <4>2. found[rest] = ref[rest]
                BY <1>6, <4>1
            <4>3. found[g] = {group(g)} \cup found[rest]
                BY <1>5, <3>1, <3>3
            <4>4. ref[g] = Classes(g, rel) /\ ref[rest] = Classes(rest, rel)
                BY <3>1
            <4> HIDE DEF ref
            <4> QED
                BY <1>2, <3>1, <3>3, <4>2, <4>3, <4>4
        <3> QED
            BY <3>2, <3>3
    <2> QED
        BY <2>1
<1>7. IsFiniteSet(V)
    BY ElemFacts, FS_Subset
<1> HIDE DEF Good
<1>8. V \in Good
    BY <1>6, <1>7, SetInduction
<1>9. found[V] = ref[V]
    BY <1>8 DEF Good
<1> QED
    BY <1>1, <1>9

SymmetryClasses(f) == {{y \in Support(f) : Symmetric(f, x, y)} : x \in Support(f)}

LEMMA ClassesAre ==
    ASSUME NEW f
    PROVE  Classes(Support(f), Symmetries(f)) = SymmetryClasses(f)
<1>1. ASSUME NEW x \in Support(f)
      PROVE  Class(Support(f), Symmetries(f), x) = {y \in Support(f) : Symmetric(f, x, y)}
    BY DEF Class, Symmetries
<1> QED
    BY <1>1 DEF Classes, SymmetryClasses

LEMMA SymGrpIs ==
    ASSUME NEW f \in Families(Elems)
    PROVE  SymGrp(f) = {c \in SymmetryClasses(f) : Cardinality(c) > 1}
<1>1. Support(f) \in SUBSET Elems
    BY SupportFacts
<1>2. \A x, y \in Support(f) : <<x, y>> \in SymPairs(f) <=> <<x, y>> \in Symmetries(f)
    <2>1. ASSUME NEW x \in Support(f), NEW y \in Support(f)
          PROVE  <<x, y>> \in SymPairs(f) <=> <<x, y>> \in Symmetries(f)
        <3>1. SymChk(f, x, y) <=> Symmetric(f, x, y)
            BY <1>1, SymChkIs
        <3> QED
            BY <3>1 DEF SymPairs, Symmetries
    <2> QED
        BY <2>1
<1>3. Groups(Support(f), SymPairs(f)) = Classes(Support(f), Symmetries(f))
    BY <1>1, <1>2, SymmetriesAre, GroupsAre
<1> QED
    BY <1>3, ClassesAre DEF SymGrp

LEMMA SymGrpNaiveIs ==
    ASSUME NEW f \in Families(Elems)
    PROVE  SymGrpNaive(f) = SymmetryClasses(f)
<1>1. Support(f) \in SUBSET Elems
    BY SupportFacts
<1>2. \A x, y \in Support(f) : x # y => (<<x, y>> \in NaivePairs(f) <=> <<x, y>> \in Symmetries(f))
    <2>1. ASSUME NEW x \in Support(f), NEW y \in Support(f), x # y
          PROVE  <<x, y>> \in NaivePairs(f) <=> <<x, y>> \in Symmetries(f)
        <3>1. OnSet0(OffSet(f, x), y) = OffSet(OnSet0(f, x), y) <=> Symmetric(f, x, y)
            BY <2>1, RelatedCofactors, SymmetricIs
        <3> QED
            BY <3>1 DEF NaivePairs, Symmetries
    <2> QED
        BY <2>1
<1>3. Groups(Support(f), NaivePairs(f)) = Classes(Support(f), Symmetries(f))
    BY <1>1, <1>2, SymmetriesAre, GroupsAre
<1> QED
    BY <1>3, ClassesAre DEF SymGrpNaive

\* A family of more than one set.
Many(f) == \E a, b \in f : a # b

LEMMA ManyWith ==
    ASSUME NEW f, NEW v
    PROVE  /\ Many(OnSet0(f, v)) <=> \E a, b \in f : v \in a /\ v \in b /\ a # b
           /\ ~Many(OnSet0(OnSet0(f, v), v))
<1>1. ASSUME NEW a \in OnSet0(f, v), NEW b \in OnSet0(f, v), a # b
      PROVE  \E x, y \in f : v \in x /\ v \in y /\ x # y
    <2>1. v \notin a /\ v \notin b /\ a \cup {v} \in f /\ b \cup {v} \in f
        BY OnSet0In
    <2>2. a \cup {v} # b \cup {v}
        BY <1>1, <2>1
    <2> QED
        BY <2>1, <2>2
<1>2. ASSUME NEW a \in f, NEW b \in f, v \in a, v \in b, a # b PROVE Many(OnSet0(f, v))
    <2>1. a \ {v} \in OnSet0(f, v) /\ b \ {v} \in OnSet0(f, v)
        BY <1>2, OnSet0Has
    <2>2. a \ {v} # b \ {v}
        BY <1>2
    <2> QED
        BY <2>1, <2>2 DEF Many
<1>3. \A s : s \notin OnSet0(OnSet0(f, v), v)
    <2>1. ASSUME NEW s, s \in OnSet0(OnSet0(f, v), v) PROVE FALSE
        <3> DEFINE x == s \cup {v}
        <3>1. x \in OnSet0(f, v)
            BY <2>1, OnSet0In
        <3>2. v \in x
            OBVIOUS
        <3> HIDE DEF x
        <3> QED
            BY <3>1, <3>2, OnSet0In
    <2> QED
        BY <2>1
<1> QED
    BY <1>1, <1>2, <1>3 DEF Many

LEMMA ManyLess ==
    ASSUME NEW f, NEW v, NEW w, Many(OnSet0(OnSet0(f, v), w))
    PROVE  Many(OnSet0(f, w))
<1>1. v # w
    BY ManyWith
<1>2. PICK a, b \in OnSet0(f, v) : w \in a /\ w \in b /\ a # b
    BY ManyWith
<1>3. v \notin a /\ v \notin b /\ a \cup {v} \in f /\ b \cup {v} \in f
    BY OnSet0In
<1>4. a \cup {v} # b \cup {v} /\ w \in a \cup {v} /\ w \in b \cup {v}
    BY <1>2, <1>3
<1> QED
    BY <1>3, <1>4, ManyWith

LEMMA ManyNode ==
    ASSUME NEW f \in Families(Elems)
    PROVE  Many(f) <=> Top(f) # 0 /\ (OffSet(f, Top(f)) # Empty \/ Many(OnSet0(f, Top(f))))
<1>1. CASE f \in {Empty, Unit}
    BY <1>1, TopFacts DEF Many, Empty, Unit
<1>2. CASE f \notin {Empty, Unit}
    <2>1. PICK t : t = Top(f)
        OBVIOUS
    <2>2. t # 0 /\ t \in Support(f)
        BY <1>2, <2>1, TopFacts, ElemFacts
    <2>3. PICK s \in f : t \in s
        BY <2>2 DEF Support
    <2>4. \A a : a \in OffSet(f, t) <=> a \in f /\ t \notin a
        BY OffSetIn
    <2>5. Many(OnSet0(f, t)) <=> \E a, b \in f : t \in a /\ t \in b /\ a # b
        BY ManyWith
    <2>6. ASSUME OffSet(f, t) # Empty PROVE Many(f)
        <3>1. PICK a : a \in OffSet(f, t)
            BY <2>6 DEF Empty
        <3>2. a \in f /\ a # s
            BY <2>3, <2>4, <3>1
        <3> QED
            BY <3>2 DEF Many
    <2>7. ASSUME OffSet(f, t) = Empty PROVE Many(f) <=> Many(OnSet0(f, t))
        <3>1. \A a \in f : t \in a
            BY <2>4, <2>7 DEF Empty
        <3> QED
            BY <2>5, <3>1 DEF Many
    <2>8. Many(OnSet0(f, t)) => Many(f)
        BY <2>5 DEF Many
    <2> QED
        BY <2>1, <2>2, <2>6, <2>7, <2>8
<1> QED
    BY <1>1, <1>2

LEMMA IsPolyIs ==
    ASSUME NEW f \in Families(Elems)
    PROVE  IsPoly(f) <=> Many(f)
<1> DEFINE V == Support(f)
           D == Over(f, f)
           Step(h, x) == Top(x) # 0 /\ (OffSet(x, Top(x)) # Empty \/ h[OnSet0(x, Top(x))])
           ref == [x \in D |-> Many(x)]
           found == CHOOSE h : h = [x \in D |-> Step(h, x)]
<1>1. V \in SUBSET Elems /\ IsFiniteSet(V) /\ f \in Families(V) /\ D = Families(V)
    <2>1. V = Support(f) \cup Support(f)
        OBVIOUS
    <2> QED
        BY <2>1, OperandFacts
<1>2. IsPoly(f) = found[f]
    BY DEF IsPoly
<1> HIDE DEF V, D
<1>3. ASSUME NEW S \in SUBSET V, NEW x \in Families(S), NEW h, \A t \in S : AgreeOn(h, ref, S \ {t})
      PROVE  Step(h, x) = Many(x)
    <2>1. x \in Families(Elems)
        BY <1>1 DEF Families
    <2> DEFINE t == Top(x)
    <2>2. Many(x) <=> t # 0 /\ (OffSet(x, t) # Empty \/ Many(OnSet0(x, t)))
        BY <2>1, ManyNode
    <2>3. Step(h, x) = (t # 0 /\ (OffSet(x, t) # Empty \/ h[OnSet0(x, t)]))
        OBVIOUS
    <2>4. CASE x \in {Empty, Unit}
        <3>1. t = 0
            BY <2>1, <2>4, TopFacts
        <3> HIDE DEF t
        <3>2. ~Step(h, x) /\ ~Many(x)
            BY <2>2, <2>3, <3>1
        <3> QED
            BY <3>2 DEF Many
    <2>5. CASE x \notin {Empty, Unit}
        <3>1. t \in S
            <4>1. t \in Support(x)
                BY <2>1, <2>5, TopFacts
            <4> HIDE DEF t
            <4> QED
                BY <4>1, SupportFacts
        <3> HIDE DEF t
        <3>2. OnSet0(x, t) \in Families(S \ {t}) /\ OnSet0(x, t) \in D
            <4>1. OnSet0(x, t) \in Families(S \ {t})
                BY CofactorFacts
            <4> QED
                BY <1>1, <4>1 DEF Families
        <3>3. h[OnSet0(x, t)] = Many(OnSet0(x, t))
            BY <1>3, <3>1, <3>2 DEF AgreeOn
        <3> HIDE DEF Step
        <3>4. Step(h, x) = (t # 0 /\ (OffSet(x, t) # Empty \/ Many(OnSet0(x, t))))
            BY <2>3, <3>3
        <3> QED
            BY <2>2, <3>4 DEF Many
    <2> QED
        BY <2>4, <2>5
<1>4. ref = [x \in D |-> Step(ref, x)]
    <2>1. \A t \in V : AgreeOn(ref, ref, V \ {t})
        BY DEF AgreeOn
    <2>2. ASSUME NEW x \in D PROVE Step(ref, x) = Many(x)
        <3> HIDE DEF ref, Step
        <3> QED
            BY <1>1, <1>3, <2>1
    <2> QED
        BY <2>2
<1>5. found = [x \in D |-> Step(found, x)]
    BY <1>4, Zenon
<1> HIDE DEF found, Step
<1>6. ASSUME NEW S \in SUBSET V, \A t \in S : AgreeOn(found, ref, S \ {t})
      PROVE  AgreeOn(found, ref, S)
    <2>1. ASSUME NEW x \in Families(S) PROVE found[x] = ref[x]
        <3>1. x \in D
            BY <1>1 DEF Families
        <3>2. ref[x] = Many(x)
            BY <3>1
        <3> HIDE DEF ref
        <3>3. Step(found, x) = Many(x)
            BY <1>3, <1>6
        <3> QED
            BY <1>5, <3>1, <3>2, <3>3
    <2> QED
        BY <2>1 DEF AgreeOn
<1>7. f \in D /\ ref[f] = Many(f)
    BY <1>1
<1> HIDE DEF ref
<1>8. AgreeOn(found, ref, V)
    BY <1>1, <1>6, FamilyInduction
<1> QED
    BY <1>1, <1>2, <1>7, <1>8 DEF AgreeOn

\* What remains of x when the variables of S have been divided out.
Divided(x, S, r) ==
    /\ Many(r)
    /\ \A t \in S : ~Many(OnSet0(r, t))
    /\ \A u : ~Many(OnSet0(x, u)) => ~Many(OnSet0(r, u))

DivideOnce(x, t) == IF IsPoly(OnSet0(x, t)) THEN OnSet0(x, t) ELSE x
DivideOutStep(h, p) ==
    IF p[2] = {} THEN p[1] ELSE h[<<DivideOnce(p[1], Top({p[2]})), p[2] \ {Top({p[2]})}>>]

LEMMA DivideOnceIs ==
    ASSUME NEW V \in SUBSET Elems, NEW x \in Families(V), Many(x), NEW t
    PROVE  /\ DivideOnce(x, t) \in Families(V)
           /\ Many(DivideOnce(x, t))
           /\ ~Many(OnSet0(DivideOnce(x, t), t))
           /\ \A u : ~Many(OnSet0(x, u)) => ~Many(OnSet0(DivideOnce(x, t), u))
<1> DEFINE x1 == OnSet0(x, t)
<1>1. x1 \in Families(V) /\ x1 \in Families(Elems)
    <2>1. x1 \in Families(V \ {t})
        BY CofactorFacts
    <2> HIDE DEF x1
    <2> QED
        BY <2>1 DEF Families
<1>2. IsPoly(x1) <=> Many(x1)
    BY <1>1, IsPolyIs
<1>3. CASE Many(x1)
    <2>1. DivideOnce(x, t) = x1
        BY <1>2, <1>3 DEF DivideOnce
    <2>2. ~Many(OnSet0(x1, t))
        BY ManyWith
    <2>3. \A u : Many(OnSet0(x1, u)) => Many(OnSet0(x, u))
        BY ManyLess
    <2> HIDE DEF x1
    <2> QED
        BY <1>1, <1>3, <2>1, <2>2, <2>3
<1>4. CASE ~Many(x1)
    <2>1. DivideOnce(x, t) = x
        BY <1>2, <1>4 DEF DivideOnce
    <2> QED
        BY <1>4, <2>1
<1> QED
    BY <1>3, <1>4

LEMMA DivideOutIs ==
    ASSUME NEW f \in Families(Elems), Many(f)
    PROVE  /\ DivideOut(f, Support(f)) \in Families(Support(f))
           /\ Divided(f, Support(f), DivideOut(f, Support(f)))
<1> DEFINE V == Support(f)
           R == Families(V)
           D == R \X SUBSET V
           supp == [p \in D |-> p[2]]
           step == [z \in [D -> R] \X D |-> DivideOutStep(z[1], z[2])]
           found == CHOOSE h : h = [p \in Over(f, f) \X SUBSET V |->
                                      LET t == Top({p[2]})
                                          f1 == OnSet0(p[1], t)
                                      IN  IF p[2] = {} THEN p[1]
                                          ELSE h[<<IF IsPoly(f1) THEN f1 ELSE p[1], p[2] \ {t}>>]]
           Good == {S \in SUBSET V : \A x \in R : Many(x) =>
                        found[<<x, S>>] \in R /\ Divided(x, S, found[<<x, S>>])}
<1>1. V \in SUBSET Elems /\ IsFiniteSet(V) /\ f \in Families(V) /\ Over(f, f) = R
    <2>1. V = Support(f) \cup Support(f)
        OBVIOUS
    <2> QED
        BY <2>1, OperandFacts
<1>2. DivideOut(f, V) = found[<<f, V>>]
    BY DEF DivideOut
<1>3. found = CHOOSE h : h = [p \in D |-> DivideOutStep(h, p)]
    BY <1>1 DEF DivideOutStep, DivideOnce
<1> HIDE DEF found, V
<1>4. \A S \in SUBSET V : S # {} => Top({S}) \in S
    <2>1. ASSUME NEW S \in SUBSET V, S # {} PROVE Top({S}) \in S
        <3>1. {S} \in Families(Elems) /\ Support({S}) = S
            BY <1>1 DEF Families, Support
        <3>2. {S} \notin {Empty, Unit}
            BY <2>1 DEF Empty, Unit
        <3> QED
            BY <3>1, <3>2, TopFacts
    <2> QED
        BY <2>1
<1>5. \A x \in R, S \in SUBSET V : S # {} =>
            /\ DivideOnce(x, Top({S})) \in R
            /\ S \ {Top({S})} \in SUBSET V
            /\ <<DivideOnce(x, Top({S})), S \ {Top({S})}>> \in D
    <2>1. ASSUME NEW x \in R, NEW t PROVE DivideOnce(x, t) \in R
        <3>1. OnSet0(x, t) \in Families(V \ {t})
            BY CofactorFacts
        <3>2. OnSet0(x, t) \in R
            BY <3>1 DEF Families
        <3> QED
            BY <3>2 DEF DivideOnce
    <2> HIDE DEF R
    <2> QED
        BY <2>1
<1>6. Solvable(D, R, step)
    <2>1. \A p \in D : p[1] \in R /\ p[2] \in SUBSET V /\ p = <<p[1], p[2]>>
        OBVIOUS
    <2>2. supp \in [D -> SUBSET V]
        BY <2>1
    <2>3. R # {}
        BY <1>1
    <2>4. ASSUME NEW h \in [D -> R], NEW p \in D PROVE DivideOutStep(h, p) \in R
        <3> HIDE DEF R, D
        <3> QED
            BY <1>5, <2>1, <2>4 DEF DivideOutStep
    <2>5. step \in [[D -> R] \X D -> R]
        <3> HIDE DEF R, D
        <3> QED
            BY <2>4
    <2>6. ASSUME NEW g \in [D -> R], NEW h \in [D -> R], NEW p \in D,
                 \A q \in D : (\E t \in supp[p] : supp[q] \subseteq supp[p] \ {t}) => g[q] = h[q]
          PROVE  step[<<g, p>>] = step[<<h, p>>]
        <3>1. step[<<g, p>>] = DivideOutStep(g, p) /\ step[<<h, p>>] = DivideOutStep(h, p)
            <4> HIDE DEF R, D
            <4> QED
                OBVIOUS
        <3> DEFINE t == Top({p[2]})
                   q == <<DivideOnce(p[1], t), p[2] \ {t}>>
        <3>2. ASSUME p[2] # {} PROVE g[q] = h[q]
            <4>1. t \in p[2] /\ q \in D
                BY <1>4, <1>5, <2>1, <3>2
            <4>2. supp[p] = p[2] /\ supp[q] = p[2] \ {t}
                BY <4>1
            <4> HIDE DEF q, t, supp
            <4> QED
                BY <2>6, <4>1, <4>2
        <3> HIDE DEF step
        <3> QED
            BY <3>1, <3>2 DEF DivideOutStep
    <2>7. Descends(D, R, step, supp)
        <3> HIDE DEF R, D, supp, step
        <3> QED
            BY <2>6 DEF Descends
    <2> HIDE DEF R, D, supp, step
    <2> QED
        BY <1>1, <2>2, <2>3, <2>5, <2>7, SupportRecursion
<1>7. found = [p \in D |-> DivideOutStep(found, p)]
    <2>1. PICK h \in [D -> R] : \A p \in D : h[p] = step[<<h, p>>]
        BY <1>6 DEF Solvable
    <2>2. \A p \in D : h[p] = DivideOutStep(h, p)
        <3> HIDE DEF D, R
        <3> QED
            BY <2>1
    <2>3. h = [p \in D |-> DivideOutStep(h, p)]
        <3> HIDE DEF D, R
        <3> QED
            BY <2>1, <2>2
    <2> QED
        BY <1>3, <2>3, Zenon
<1>8. ASSUME NEW S \in SUBSET V, \A t \in S : S \ {t} \in Good PROVE S \in Good
    <2>1. ASSUME NEW x \in R, Many(x)
          PROVE  found[<<x, S>>] \in R /\ Divided(x, S, found[<<x, S>>])
        <3>1. found[<<x, S>>] = DivideOutStep(found, <<x, S>>)
            BY <1>7
        <3>2. CASE S = {}
            <4>1. found[<<x, S>>] = x
                BY <3>1, <3>2 DEF DivideOutStep
            <4> QED
                BY <2>1, <3>2, <4>1 DEF Divided
        <3>3. CASE S # {}
            <4> DEFINE t == Top({S})
                       y == DivideOnce(x, t)
                       r == found[<<y, S \ {t}>>]
            <4>1. found[<<x, S>>] = r
                BY <3>1, <3>3 DEF DivideOutStep
            <4>2. t \in S
                BY <1>4, <3>3
            <4>3. y \in R /\ Many(y) /\ ~Many(OnSet0(y, t))
                  /\ \A u : ~Many(OnSet0(x, u)) => ~Many(OnSet0(y, u))
                BY <1>1, <2>1, DivideOnceIs
            <4>4. r \in R /\ Divided(y, S \ {t}, r)
                <5> HIDE DEF t, y, R
                <5> QED
                    BY <1>8, <4>2, <4>3
            <4> HIDE DEF r, y, t, R
            <4>5. ~Many(OnSet0(r, t))
                BY <4>3, <4>4 DEF Divided
            <4>6. Divided(x, S, r)
                BY <4>3, <4>4, <4>5 DEF Divided
            <4> QED
                BY <4>1, <4>4, <4>6
        <3> QED
            BY <3>2, <3>3
    <2> QED
        BY <2>1
<1> HIDE DEF Good
<1>9. V \in Good
    BY <1>1, <1>8, SetInduction
<1> QED
    BY <1>1, <1>2, <1>9 DEF Good, V

LEMMA ManyIs ==
    ASSUME NEW f, IsFiniteSet(f)
    PROVE  Cardinality(f) \in Nat /\ (Many(f) <=> Cardinality(f) > 1) /\ (~Many(f) <=> Cardinality(f) < 2)
<1>1. Cardinality(f) \in Nat
    BY FS_CardinalityType
<1>2. ASSUME Many(f) PROVE Cardinality(f) > 1
    <2>1. PICK a, b \in f : a # b
        BY <1>2 DEF Many
    <2>2. Cardinality({a, b}) = 2
        <3>1. IsFiniteSet({a}) /\ Cardinality({a}) = 1
            BY FS_Singleton
        <3>2. {a, b} = {a} \cup {b} /\ b \notin {a}
            BY <2>1
        <3> QED
            BY <3>1, <3>2, FS_AddElement
    <2>3. Cardinality({a, b}) <= Cardinality(f)
        BY FS_Subset
    <2> QED
        BY <1>1, <2>2, <2>3
<1>3. ASSUME ~Many(f) PROVE Cardinality(f) < 2
    <2>1. CASE f = {}
        BY <2>1, FS_EmptySet
    <2>2. CASE f # {}
        <3>1. PICK a \in f : TRUE
            BY <2>2
        <3>2. f = {a}
            BY <1>3, <3>1 DEF Many
        <3> QED
            BY <3>2, FS_Singleton
    <2> QED
        BY <2>1, <2>2
<1> QED
    BY <1>1, <1>2, <1>3

\* Divisor() gives more than one set, but at most one with a variable.
LEMMA DivisorIs ==
    ASSUME NEW f \in Families(Elems), Cardinality(f) > 1
    PROVE  /\ Cardinality(Divisor(f)) > 1
           /\ \A x \in Support(Divisor(f)) : Cardinality(OnSet0(Divisor(f), x)) < 2
<1>1. \A x \in Families(Elems) : IsFiniteSet(x)
    BY ElemFacts, FS_SUBSET, FS_Subset DEF Families
<1>2. Many(f)
    BY <1>1, ManyIs
<1>3. f # Empty /\ IsPoly(f)
    BY <1>2, IsPolyIs DEF Many, Empty
<1> DEFINE r == DivideOut(f, Support(f))
<1>4. Divisor(f) = r
    BY <1>3 DEF Divisor
<1>5. r \in Families(Support(f)) /\ Divided(f, Support(f), r)
    BY <1>2, DivideOutIs
<1> HIDE DEF r
<1>6. Support(r) \in SUBSET Support(f) /\ Support(f) \in SUBSET Elems
    BY <1>5, SupportFacts
<1>7. r \in Families(Elems)
    BY <1>5, <1>6 DEF Families
<1>8. Cardinality(r) > 1
    BY <1>1, <1>5, <1>7, ManyIs DEF Divided
<1>9. ASSUME NEW x \in Support(r) PROVE Cardinality(OnSet0(r, x)) < 2
    <2>1. OnSet0(r, x) \in Families(Elems \ {x})
        BY <1>7, CofactorFacts
    <2>2. OnSet0(r, x) \in Families(Elems)
        BY <2>1 DEF Families
    <2>3. ~Many(OnSet0(r, x))
        BY <1>5, <1>6 DEF Divided
    <2> QED
        BY <1>1, <2>2, <2>3, ManyIs
<1> QED
    BY <1>4, <1>8, <1>9
-----------------------------------------------------------------------------
(***************************************************************************)
(* Sums and products over finite sets                                      *)
(***************************************************************************)
FoldNext(val, op, base, h, s) ==
    IF s = {} THEN base
    ELSE op[<<val[CHOOSE y \in s : TRUE], h[s \ {CHOOSE y \in s : TRUE}]>>]
LeftCommutes(op) ==
    \A a, b, c \in Int : op[<<a, op[<<b, c>>]>>] = op[<<b, op[<<a, c>>]>>]
\* turn has the fold of every part of T; it can take any element out first.
FoldOf(T, val, op, base, turn) ==
    /\ turn \in [SUBSET T -> Int]
    /\ turn[{}] = base
    /\ \A s \in SUBSET T : \A e \in s : turn[s] = op[<<val[e], turn[s \ {e}]>>]

LEMMA FoldFacts ==
    ASSUME NEW T, IsFiniteSet(T), NEW val, \A e \in T : val[e] \in Int,
           NEW op \in [Int \X Int -> Int], LeftCommutes(op), NEW base \in Int,
           NEW turn, turn = CHOOSE h : h = [s \in SUBSET T |-> FoldNext(val, op, base, h, s)]
    PROVE  FoldOf(T, val, op, base, turn)
<1> DEFINE D == SUBSET T
           size == [s \in D |-> Size(s)]
           step == [x \in [D -> Int] \X D |-> FoldNext(val, op, base, x[1], x[2])]
           first(s) == CHOOSE y \in s : TRUE
<1>1. \A s \in D : s # {} => first(s) \in s /\ s \ {first(s)} \in D
    OBVIOUS
<1>0. \A h, s : FoldNext(val, op, base, h, s) =
                    IF s = {} THEN base ELSE op[<<val[first(s)], h[s \ {first(s)}]>>]
    BY DEF FoldNext
<1> HIDE DEF first
<1>2. ASSUME NEW h \in [D -> Int], NEW s \in D
      PROVE  FoldNext(val, op, base, h, s) \in Int
    <2>1. CASE s = {}
        BY <1>0, <2>1
    <2>2. CASE s # {}
        <3> DEFINE a == val[first(s)]
                   b == h[s \ {first(s)}]
        <3>1. a \in Int /\ b \in Int
            BY <1>1, <2>2
        <3>2. FoldNext(val, op, base, h, s) = op[<<a, b>>]
            BY <1>0, <2>2, Zenon
        <3> HIDE DEF a, b
        <3>3. op[<<a, b>>] \in Int
            BY <3>1
        <3> QED
            BY <3>2, <3>3
    <2> QED
        BY <2>1, <2>2
<1>3. step \in [[D -> Int] \X D -> Int]
    BY <1>2
<1>4. size \in [D -> 0..Size(T)] /\ Size(T) \in Nat
    <2>1. \A s \in D : IsFiniteSet(s) /\ Size(s) \in Nat /\ Size(s) <= Size(T)
        BY FS_Subset, FS_CardinalityType DEF Size
    <2>2. Size(T) \in Nat
        BY FS_CardinalityType DEF Size
    <2> QED
        BY <2>1, <2>2
<1>5. ASSUME NEW g \in [D -> Int], NEW h \in [D -> Int], NEW s \in D,
             \A q \in D : size[q] < size[s] => g[q] = h[q]
      PROVE  step[<<g, s>>] = step[<<h, s>>]
    <2>1. CASE s = {}
        <3>1. FoldNext(val, op, base, g, s) = FoldNext(val, op, base, h, s)
            BY <1>0, <2>1
        <3> QED
            BY <3>1
    <2>2. CASE s # {}
        <3> DEFINE r == s \ {first(s)}
        <3>1. r \in D /\ IsFiniteSet(s) /\ first(s) \in s
            BY <1>1, <2>2, FS_Subset
        <3>2. Size(r) < Size(s)
            <4>1. Cardinality(r) = Cardinality(s) - 1 /\ Cardinality(s) \in Nat
                BY <3>1, FS_RemoveElement, FS_CardinalityType
            <4> HIDE DEF r
            <4> QED
                BY <4>1 DEF Size
        <3>3. g[r] = h[r]
            BY <1>5, <3>1, <3>2
        <3>4. FoldNext(val, op, base, g, s) = FoldNext(val, op, base, h, s)
            BY <1>0, <2>2, <3>3
        <3> QED
            BY <3>4
    <2> QED
        BY <2>1, <2>2
<1>6. Shrinks(D, Int, step, size)
    BY <1>5 DEF Shrinks
<1>7. \A h \in [D -> Int], s \in D : step[<<h, s>>] = FoldNext(val, op, base, h, s)
    OBVIOUS
<1> HIDE DEF D, step, size
<1>8. Solvable(D, Int, step)
    BY <1>3, <1>4, <1>6, Recursion
<1>9. PICK h \in [D -> Int] : \A s \in D : h[s] = step[<<h, s>>]
    BY <1>8 DEF Solvable
<1>10. h = [s \in D |-> FoldNext(val, op, base, h, s)]
    BY <1>7, <1>9
<1>11. turn = [s \in D |-> FoldNext(val, op, base, turn, s)]
    BY <1>10, Zenon DEF D
<1>12. \A s \in D : turn[s] = FoldNext(val, op, base, turn, s)
    BY <1>11
<1>20. \A s \in D : s = {} => turn[s] = base
    BY <1>0, <1>12
<1>21. \A s \in D : s # {} => turn[s] = op[<<val[first(s)], turn[s \ {first(s)}]>>]
    BY <1>0, <1>12
<1>14. ASSUME NEW V \in D PROVE turn[V] \in Int
    <2> DEFINE Good == {s \in SUBSET V : turn[s] \in Int}
    <2>1. ASSUME NEW s \in SUBSET V, \A t \in s : s \ {t} \in Good
          PROVE  s \in Good
        <3>1. s \in D
            BY DEF D
        <3>2. CASE s = {}
            BY <1>20, <3>1, <3>2
        <3>3. CASE s # {}
            <4> DEFINE a == val[first(s)]
                       b == turn[s \ {first(s)}]
            <4>1. a \in Int /\ b \in Int
                <5>1. first(s) \in s /\ s \ {first(s)} \in Good /\ first(s) \in T
                    BY <1>1, <2>1, <3>1, <3>3 DEF D
                <5> QED
                    BY <5>1
            <4>2. turn[s] = op[<<a, b>>]
                BY <1>21, <3>1, <3>3
            <4> HIDE DEF a, b
            <4>3. op[<<a, b>>] \in Int
                BY <4>1
            <4> QED
                BY <4>2, <4>3
        <3> QED
            BY <3>2, <3>3
    <2>2. IsFiniteSet(V)
        BY FS_Subset DEF D
    <2> HIDE DEF Good
    <2>3. V \in Good
        BY <2>1, <2>2, SetInduction
    <2> QED
        BY <2>3 DEF Good
<1>15. ASSUME NEW V \in D PROVE \A e \in V : turn[V] = op[<<val[e], turn[V \ {e}]>>]
    <2> DEFINE Good == {s \in SUBSET V : \A e \in s : turn[s] = op[<<val[e], turn[s \ {e}]>>]}
    <2>1. ASSUME NEW s \in SUBSET V, \A t \in s : s \ {t} \in Good
          PROVE  s \in Good
        <3>0. s \in D /\ s \in SUBSET T
            BY DEF D
        <3> SUFFICES ASSUME NEW e \in s PROVE turn[s] = op[<<val[e], turn[s \ {e}]>>]
            OBVIOUS
        <3> DEFINE c == first(s)
        <3>1. c \in s
            BY <1>1, <3>0
        <3>2. turn[s] = op[<<val[c], turn[s \ {c}]>>]
            BY <1>21, <3>0
        <3> HIDE DEF c
        <3>3. CASE e = c
            BY <3>2, <3>3
        <3>4. CASE e # c
            <4> DEFINE r == s \ {c, e}
                       x == val[c]
                       y == val[e]
                       z == turn[r]
            <4>1. (s \ {c}) \ {e} = r /\ (s \ {e}) \ {c} = r
                OBVIOUS
            <4>2. e \in s \ {c} /\ c \in s \ {e} /\ s \ {c} \in Good /\ s \ {e} \in Good
                BY <2>1, <3>1, <3>4
            <4>3. x \in Int /\ y \in Int /\ z \in Int
                <5>1. r \in D
                    BY <3>0 DEF D
                <5> QED
                    BY <1>14, <3>0, <3>1, <5>1
            <4> HIDE DEF r
            <4>4. turn[s \ {c}] = op[<<y, z>>]
                BY <4>1, <4>2
            <4>5. turn[s \ {e}] = op[<<x, z>>]
                BY <4>1, <4>2
            <4> HIDE DEF x, y, z
            <4>6. op[<<x, op[<<y, z>>]>>] = op[<<y, op[<<x, z>>]>>]
                BY <4>3, Zenon DEF LeftCommutes
            <4>7. turn[s] = op[<<x, op[<<y, z>>]>>]
                BY <3>2, <4>4 DEF x
            <4> QED
                BY <4>5, <4>6, <4>7 DEF y
        <3> QED
            BY <3>3, <3>4
    <2>2. IsFiniteSet(V)
        BY FS_Subset DEF D
    <2> HIDE DEF Good
    <2>3. V \in Good
        BY <2>1, <2>2, SetInduction
    <2> QED
        BY <2>3 DEF Good
<1>16. {} \in D
    BY DEF D
<1>17. turn \in [D -> Int]
    BY <1>11, <1>14
<1> QED
    BY <1>15, <1>16, <1>17, <1>20 DEF D, FoldOf

\* The weight of a set is a sum that can be taken in any order.
LEMMA SumFacts ==
    ASSUME NEW T, IsFiniteSet(T), NEW w, \A e \in T : w[e] \in Int
    PROVE  /\ \A s \in SUBSET T : Weight(s, w) \in Int
           /\ Weight({}, w) = 0
           /\ \A s \in SUBSET T : \A e \in s : Weight(s, w) = w[e] + Weight(s \ {e}, w)
<1> DEFINE op == [p \in Int \X Int |-> p[1] + p[2]]
           F == CHOOSE h : h = [s \in SUBSET T |-> FoldNext(w, op, 0, h, s)]
<1>1. op \in [Int \X Int -> Int] /\ \A a, b \in Int : op[<<a, b>>] = a + b
    OBVIOUS
<1> HIDE DEF op
<1>2. LeftCommutes(op)
    <2>1. ASSUME NEW a \in Int, NEW b \in Int, NEW c \in Int
          PROVE  op[<<a, op[<<b, c>>]>>] = op[<<b, op[<<a, c>>]>>]
        <3>1. op[<<b, c>>] = b + c /\ op[<<a, c>>] = a + c /\ b + c \in Int /\ a + c \in Int
            BY <1>1
        <3>2. op[<<a, b + c>>] = a + (b + c) /\ op[<<b, a + c>>] = b + (a + c)
            BY <1>1, <3>1
        <3> QED
            BY <3>1, <3>2
    <2> QED
        BY <2>1 DEF LeftCommutes
<1>3. FoldOf(T, w, op, 0, F)
    <2> HIDE DEF F
    <2>1. F = CHOOSE h : h = [s \in SUBSET T |-> FoldNext(w, op, 0, h, s)]
        BY DEF F
    <2>2. 0 \in Int /\ IsFiniteSet(T) /\ \A e \in T : w[e] \in Int
        OBVIOUS
    <2> QED
        BY <1>1, <1>2, <2>1, <2>2, FoldFacts, Zenon
<1> HIDE DEF F
<1>4. /\ \A s \in SUBSET T : F[s] \in Int
      /\ F[{}] = 0
      /\ \A s \in SUBSET T : \A e \in s : F[s] = w[e] + F[s \ {e}]
    <2>1. F \in [SUBSET T -> Int] /\ F[{}] = 0
        BY <1>3 DEF FoldOf
    <2>2. ASSUME NEW s \in SUBSET T, NEW e \in s PROVE F[s] = w[e] + F[s \ {e}]
        <3>1. F[s] = op[<<w[e], F[s \ {e}]>>]
            BY <1>3 DEF FoldOf
        <3>2. w[e] \in Int /\ F[s \ {e}] \in Int
            BY <2>1
        <3> QED
            BY <1>1, <3>1, <3>2
    <2> QED
        BY <2>1, <2>2
<1>5. ASSUME NEW s \in SUBSET T PROVE Weight(s, w) = F[s]
    <2> DEFINE next(h, x) == IF x = {} THEN 0
                             ELSE w[CHOOSE y \in x : TRUE] + h[x \ {CHOOSE y \in x : TRUE}]
               ref == [x \in SUBSET s |-> F[x]]
               turn == CHOOSE h : h = [x \in SUBSET s |-> next(h, x)]
    <2>1. Weight(s, w) = turn[s]
        BY DEF Weight, SumFunctionOnSet, FoldFunctionOnSet, MapThenFoldSet
    <2>2. ASSUME NEW x \in SUBSET s, NEW h, \A t \in x : h[x \ {t}] = ref[x \ {t}]
          PROVE  next(h, x) = F[x]
        <3>1. CASE x = {}
            BY <1>4, <3>1
        <3>2. CASE x # {}
            <4> DEFINE e == CHOOSE y \in x : TRUE
            <4>1. e \in x
                BY <3>2
            <4>2. next(h, x) = w[e] + h[x \ {e}]
                BY <3>2
            <4> HIDE DEF e, next
            <4>3. h[x \ {e}] = F[x \ {e}] /\ x \in SUBSET T
                BY <2>2, <4>1
            <4> QED
                BY <1>4, <4>1, <4>2, <4>3
        <3> QED
            BY <3>1, <3>2
    <2> HIDE DEF next
    <2>3. ref = [x \in SUBSET s |-> next(ref, x)]
        BY <2>2
    <2>4. turn = [x \in SUBSET s |-> next(turn, x)]
        BY <2>3, Zenon
    <2> HIDE DEF turn
    <2>5. \A x \in SUBSET s : (\A t \in x : turn[x \ {t}] = ref[x \ {t}]) => turn[x] = ref[x]
        BY <2>2, <2>4
    <2>6. IsFiniteSet(s)
        BY FS_Subset
    <2> HIDE DEF ref
    <2>7. turn[s] = ref[s]
        BY <2>5, <2>6, SameLoop
    <2> QED
        BY <2>1, <2>7 DEF ref
<1>6. \A s \in SUBSET T : \A e \in s : s \ {e} \in SUBSET T
    OBVIOUS
<1>7. {} \in SUBSET T
    OBVIOUS
<1> QED
    BY <1>4, <1>5, <1>6, <1>7
=============================================================================
