---------------------------- MODULE SetsetsProofs ----------------------------
(***************************************************************************)
(* The functions of a setset, for every universe.                          *)
(***************************************************************************)
EXTENDS Setsets, FamilyProofs

\* setset(s) makes the family of one set.
LEMMA OneSetIs ==
    ASSUME NEW s \in SUBSET Elems
    PROVE  OneSet(s) = {s}
<1> DEFINE next(h, x) == IF x = {} THEN Unit
                         ELSE Times(h[x \ {CHOOSE y \in x : TRUE}], Single(CHOOSE y \in x : TRUE))
           ref == [x \in SUBSET s |-> {x}]
           turn == CHOOSE h : h = [x \in SUBSET s |-> next(h, x)]
<1>1. ASSUME NEW x \in SUBSET s, NEW h, \A t \in x : h[x \ {t}] = ref[x \ {t}]
      PROVE  next(h, x) = {x}
    <2>1. CASE x = {}
        BY <2>1 DEF Unit
    <2>2. CASE x # {}
        <3> DEFINE e == CHOOSE y \in x : TRUE
        <3>1. e \in x
            BY <2>2
        <3>2. next(h, x) = Times(h[x \ {e}], Single(e))
            BY <2>2
        <3> HIDE DEF e, next
        <3>3. h[x \ {e}] = {x \ {e}} /\ {x \ {e}} \in Families(Elems) /\ {{e}} \in Families(Elems)
            BY <1>1, <3>1 DEF Families
        <3>4. Times({x \ {e}}, {{e}}) = Joined({x \ {e}}, {{e}})
            BY <3>3, TimesIs
        <3>5. Joined({x \ {e}}, {{e}}) = {(x \ {e}) \cup {e}}
            BY DEF Joined
        <3>6. (x \ {e}) \cup {e} = x
            BY <3>1
        <3> QED
            BY <3>2, <3>3, <3>4, <3>5, <3>6, SingleIs
    <2> QED
        BY <2>1, <2>2
<1>10. OneSet(s) = turn[s]
    BY DEF OneSet, FoldSet, MapThenFoldSet, turn
<1> HIDE DEF next
<1>2. ref = [x \in SUBSET s |-> next(ref, x)]
    <2>1. \A x \in SUBSET s : next(ref, x) = {x}
        BY <1>1
    <2> QED
        BY <2>1
<1>3. turn = [x \in SUBSET s |-> next(turn, x)]
    BY <1>2, Zenon
<1> HIDE DEF turn
<1>4. \A x \in SUBSET s : (\A t \in x : turn[x \ {t}] = ref[x \ {t}]) => turn[x] = ref[x]
    BY <1>1, <1>3
<1>5. IsFiniteSet(s)
    BY ElemFacts, FS_Subset
<1> HIDE DEF ref
<1>6. turn[s] = ref[s]
    BY <1>4, <1>5, SameLoop
<1> QED
    BY <1>6, <1>10 DEF ref

\* setset(v) makes the family of the sets given.
LEMMA SetsetOfIs ==
    ASSUME NEW g \in SUBSET SUBSET Elems
    PROVE  SetsetOf(g) = g
<1> DEFINE next(h, x) == IF x = {} THEN Empty
                         ELSE h[x \ {CHOOSE y \in x : TRUE}] \cup OneSet(CHOOSE y \in x : TRUE)
           ref == [x \in SUBSET g |-> x]
           turn == CHOOSE h : h = [x \in SUBSET g |-> next(h, x)]
<1>1. ASSUME NEW x \in SUBSET g, NEW h, \A t \in x : h[x \ {t}] = ref[x \ {t}]
      PROVE  next(h, x) = x
    <2>1. CASE x = {}
        BY <2>1 DEF Empty
    <2>2. CASE x # {}
        <3> DEFINE e == CHOOSE y \in x : TRUE
        <3>1. e \in x
            BY <2>2
        <3>2. next(h, x) = h[x \ {e}] \cup OneSet(e)
            BY <2>2
        <3> HIDE DEF e, next
        <3>3. h[x \ {e}] = x \ {e}
            BY <1>1, <3>1
        <3>4. OneSet(e) = {e}
            BY <3>1, OneSetIs
        <3> QED
            BY <3>1, <3>2, <3>3, <3>4
    <2> QED
        BY <2>1, <2>2
<1>10. SetsetOf(g) = turn[g]
    BY DEF SetsetOf, FoldSet, MapThenFoldSet, turn
<1> HIDE DEF next
<1>2. ref = [x \in SUBSET g |-> next(ref, x)]
    <2>1. \A x \in SUBSET g : next(ref, x) = x
        BY <1>1
    <2> QED
        BY <2>1
<1>3. turn = [x \in SUBSET g |-> next(turn, x)]
    BY <1>2, Zenon
<1> HIDE DEF turn
<1>4. \A x \in SUBSET g : (\A t \in x : turn[x \ {t}] = ref[x \ {t}]) => turn[x] = ref[x]
    BY <1>1, <1>3
<1>5. IsFiniteSet(g)
    BY ElemFacts, FS_SUBSET, FS_Subset
<1> HIDE DEF ref
<1>6. turn[g] = ref[g]
    BY <1>4, <1>5, SameLoop
<1> QED
    BY <1>6, <1>10 DEF ref

\* flip(e) and flip() exchange the sets with an element and those without it.
LEMMA FlippedFacts ==
    /\ \A f, v : Change(f, v) = Flipped(f, {v})
    /\ \A f : Flipped(f, {}) = f
    /\ \A f, x : \A v \in x : Flipped(Flipped(f, x \ {v}), {v}) = Flipped(f, x)
<1>1. ASSUME NEW f, NEW v PROVE Change(f, v) = Flipped(f, {v})
    <2>1. \A s \in f : (IF v \in s THEN s \ {v} ELSE s \cup {v}) = SymDiff(s, {v})
        BY DEF SymDiff
    <2> QED
        BY <2>1 DEF Change, Flipped
<1>2. ASSUME NEW f PROVE Flipped(f, {}) = f
    <2>1. \A s \in f : SymDiff(s, {}) = s
        BY DEF SymDiff
    <2> QED
        BY <2>1 DEF Flipped
<1>3. ASSUME NEW f, NEW x, NEW v \in x PROVE Flipped(Flipped(f, x \ {v}), {v}) = Flipped(f, x)
    <2>1. \A s : SymDiff(SymDiff(s, x \ {v}), {v}) = SymDiff(s, x)
        BY DEF SymDiff
    <2> QED
        BY <2>1 DEF Flipped
<1> QED
    BY <1>1, <1>2, <1>3

LEMMA FlipAllIs == FlipAll = Flipped(this, Elems)
<1> DEFINE next(h, x) == IF x = {} THEN this
                         ELSE Change(h[x \ {CHOOSE y \in x : TRUE}], CHOOSE y \in x : TRUE)
           ref == [x \in SUBSET Elems |-> Flipped(this, x)]
           turn == CHOOSE h : h = [x \in SUBSET Elems |-> next(h, x)]
<1>1. ASSUME NEW x \in SUBSET Elems, NEW h, \A t \in x : h[x \ {t}] = ref[x \ {t}]
      PROVE  next(h, x) = Flipped(this, x)
    <2>1. CASE x = {}
        BY <2>1, FlippedFacts
    <2>2. CASE x # {}
        <3> DEFINE e == CHOOSE y \in x : TRUE
        <3>1. e \in x
            BY <2>2
        <3>2. next(h, x) = Change(h[x \ {e}], e)
            BY <2>2
        <3> HIDE DEF e, next
        <3>3. h[x \ {e}] = Flipped(this, x \ {e})
            BY <1>1, <3>1
        <3>4. Change(Flipped(this, x \ {e}), e) = Flipped(Flipped(this, x \ {e}), {e})
            BY FlippedFacts, Zenon
        <3>5. Flipped(Flipped(this, x \ {e}), {e}) = Flipped(this, x)
            BY <3>1, FlippedFacts, Zenon
        <3> QED
            BY <3>2, <3>3, <3>4, <3>5
    <2> QED
        BY <2>1, <2>2
<1>10. FlipAll = turn[Elems]
    BY DEF FlipAll, FoldSet, MapThenFoldSet, turn
<1> HIDE DEF next
<1>2. ref = [x \in SUBSET Elems |-> next(ref, x)]
    <2>1. \A x \in SUBSET Elems : next(ref, x) = Flipped(this, x)
        BY <1>1
    <2> QED
        BY <2>1
<1>3. turn = [x \in SUBSET Elems |-> next(turn, x)]
    BY <1>2, Zenon
<1> HIDE DEF turn
<1>4. \A x \in SUBSET Elems : (\A t \in x : turn[x \ {t}] = ref[x \ {t}]) => turn[x] = ref[x]
    BY <1>1, <1>3
<1> HIDE DEF ref
<1>5. turn[Elems] = ref[Elems]
    BY <1>4, ElemFacts, SameLoop
<1> QED
    BY <1>5, <1>10 DEF ref

\* Swap() exchanges two elements in every set.
LEMMA SwapIs ==
    ASSUME NEW f \in Families(Elems), NEW v \in Elems, NEW w \in Elems
    PROVE  Swap(f, v, w) = {Exchange(s, v, w) : s \in f}
<1>1. ASSUME NEW s, v = w PROVE Exchange(s, v, w) = s
    BY <1>1 DEF Exchange
<1>2. ASSUME NEW s, v # w
      PROVE  /\ v \in s /\ w \in s => Exchange(s, v, w) = s
             /\ v \notin s /\ w \notin s => Exchange(s, v, w) = s
             /\ v \in s /\ w \notin s => Exchange(s, v, w) = (s \ {v}) \cup {w}
             /\ v \notin s /\ w \in s => Exchange(s, v, w) = (s \cup {v}) \ {w}
    BY <1>2 DEF Exchange
<1>3. CASE v = w
    BY <1>1, <1>3 DEF Swap
<1>4. CASE v # w
    <2> DEFINE both == {s \in f : v \in s /\ w \in s}
               none == {s \in f : v \notin s /\ w \notin s}
               one == {s \in f : (v \in s) # (w \in s)}
               turn(s) == IF v \in s THEN (s \ {v}) \cup {w} ELSE (s \cup {v}) \ {w}
    <2>1. OffSet(OffSet(f, v), w) = none /\ OnSet(OnSet(f, v), w) = both
        BY DEF OffSet, OnSet
    <2>2. (f \ none) \ both = one
        OBVIOUS
    <2>3. Change(Change(one, v), w) = {turn(s) : s \in one}
        <3> DEFINE change(s, u) == IF u \in s THEN s \ {u} ELSE s \cup {u}
        <3>1. ASSUME NEW s \in one PROVE turn(s) = change(change(s, v), w)
            <4>1. CASE v \in s
                BY <1>4, <4>1
            <4>2. CASE v \notin s
                BY <1>4, <4>2
            <4> QED
                BY <4>1, <4>2
        <3>2. \A g, u : Change(g, u) = {change(s, u) : s \in g}
            BY DEF Change
        <3> HIDE DEF change, turn, one
        <3>3. Change(Change(one, v), w) = {change(t, w) : t \in {change(s, v) : s \in one}}
            BY <3>2
        <3> QED
            BY <3>1, <3>3
    <2>4. \A s \in one : Exchange(s, v, w) = turn(s)
        BY <1>2, <1>4
    <2>5. \A s \in both \cup none : Exchange(s, v, w) = s
        BY <1>2, <1>4
    <2>6. f = one \cup both \cup none
        OBVIOUS
    <2>7. Swap(f, v, w) = {turn(s) : s \in one} \cup none \cup both
        BY <1>4, <2>1, <2>2, <2>3 DEF Swap
    <2> HIDE DEF one, both, none, turn
    <2> QED
        BY <2>4, <2>5, <2>6, <2>7
<1> QED
    BY <1>3, <1>4

\* count(s) divides by the family of s, and there is a quotient if a set
\* contains s.
LEMMA CountIs ==
    ASSUME NEW s \in SUBSET Elems, this \in Families(Elems)
    PROVE  CountOf(s) = IF \E t \in this : s \subseteq t THEN 1 ELSE 0
<1>1. OneSet(s) = {s} /\ {s} \in Families(Elems) /\ {s} # Empty
    BY OneSetIs DEF Families, Empty
<1>2. Divide(this, {s}) = Quotient(Elems, this, {s})
    BY <1>1, DivideIs
<1>3. ASSUME NEW t \in this, s \subseteq t PROVE t \ s \in Quotient(Elems, this, {s})
    <2>1. t \ s \in SUBSET Elems /\ (t \ s) \cap s = {} /\ (t \ s) \cup s = t
        BY <1>3 DEF Families
    <2> QED
        BY <1>3, <2>1 DEF Quotient
<1>4. ASSUME NEW q \in Quotient(Elems, this, {s}) PROVE \E t \in this : s \subseteq t
    <2>1. q \cup s \in this
        BY <1>4 DEF Quotient
    <2> QED
        BY <2>1
<1>5. Quotient(Elems, this, {s}) # Empty <=> \E t \in this : s \subseteq t
    BY <1>3, <1>4 DEF Empty
<1> QED
    BY <1>1, <1>2, <1>5 DEF CountOf

\* The sets of some size, by a bound on the size.
LEMMA SizesAre ==
    ASSUME NEW n \in 0..NumElems, this \in Families(Elems)
    PROVE  /\ n > 0 => Smaller(n) = {s \in this : Cardinality(s) < n}
           /\ Larger(n) = {s \in this : Cardinality(s) > n}
           /\ n > 0 => SetSize(n) = {s \in this : Cardinality(s) = n}
<1>1. n \in Int /\ n - 1 \in Int /\ n >= 0
    OBVIOUS
<1>2. \A s \in this : Cardinality(s) \in Nat
    BY ElemFacts, FS_Subset, FS_CardinalityType DEF Families
<1>3. PermitSym(this, n) = UpTo(this, n) /\ PermitSym(this, n - 1) = UpTo(this, n - 1)
    BY <1>1, PermitSymIs
<1>4. Cardinality({}) = 0
    BY FS_EmptySet
<1>5. UpTo(this, n) = {s \in this : Cardinality(s) <= n}
    BY <1>1, <1>4 DEF UpTo
<1>6. n > 0 => UpTo(this, n - 1) = {s \in this : Cardinality(s) < n}
    <2>1. ASSUME n > 0, NEW s \in this
          PROVE  s = {} \/ Cardinality(s) <= n - 1 <=> Cardinality(s) < n
        BY <1>1, <1>2, <1>4, <2>1
    <2> QED
        BY <2>1 DEF UpTo
<1>7. n > 0 => Smaller(n) = {s \in this : Cardinality(s) < n}
    BY <1>3, <1>6 DEF Smaller
<1>8. Larger(n) = {s \in this : Cardinality(s) > n}
    <2>1. \A s \in this : ~(Cardinality(s) <= n) <=> Cardinality(s) > n
        BY <1>1, <1>2
    <2> QED
        BY <1>3, <1>5, <2>1 DEF Larger
<1>9. n > 0 => SetSize(n) = {s \in this : Cardinality(s) = n}
    <2>1. \A s \in this : Cardinality(s) <= n /\ ~(Cardinality(s) < n) <=> Cardinality(s) = n
        BY <1>1, <1>2
    <2> QED
        BY <1>3, <1>5, <1>6, <2>1 DEF SetSize
<1> QED
    BY <1>7, <1>8, <1>9
-----------------------------------------------------------------------------
(***************************************************************************)
(* The answers                                                             *)
(***************************************************************************)
\* The answer r to op(arg), asked of the family f, is right.
AlgebraAnswer(op, arg, f, r) ==
    /\ op = "join" => r = Joined(f, arg)
    /\ op = "meet" => r = Met(f, arg)
    /\ op = "quotient" => r = Quotient(Elems, f, arg)
    /\ op = "remainder" => r = Remainder(Elems, f, arg)
    /\ op = "complement" => r = (SUBSET Elems) \ f
    /\ op = "insert" => r = Joined(f, {{arg}})
    /\ op = "erase" => r = {s \ {arg} : s \in f}
    /\ op = "flip" => r = Flipped(f, arg)
    /\ op = "swap" => r = {Exchange(s, arg[1], arg[2]) : s \in f}
InclusionAnswer(op, arg, f, r) ==
    /\ op = "minimal" => r = Minimal(f)
    /\ op = "maximal" => r = Maximal(f)
    /\ op = "hitting" /\ f # Empty => r = Transversals(Elems, f)
    /\ op = "subsets" => r = SubsetsOf(f, arg)
    /\ op = "supersets" => r = SupersetsOf(f, arg)
    /\ op = "non_subsets" => r = f \ SubsetsOf(f, arg)
    /\ op = "non_supersets" /\ arg = Minimal(arg) => r = f \ SupersetsOf(f, arg)
SelectionAnswer(op, arg, f, r) ==
    /\ op = "smaller" /\ arg > 0 => r = {s \in f : Cardinality(s) < arg}
    /\ op = "larger" => r = {s \in f : Cardinality(s) > arg}
    /\ op = "set_size" /\ arg > 0 => r = {s \in f : Cardinality(s) = arg}
    /\ op = "constrained" => r = {s \in SUBSET Elems : arg[1] \subseteq s /\ arg[2] \cap s = {}}
    /\ op = "sets" => r = arg
    /\ op = "count" => r = IF \E s \in f : arg \subseteq s THEN 1 ELSE 0
Answer(op, arg, f, r) ==
    /\ AlgebraAnswer(op, arg, f, r)
    /\ InclusionAnswer(op, arg, f, r)
    /\ SelectionAnswer(op, arg, f, r)
    /\ op \in Mutators => r \in Families(Elems)

LEMMA AloneRight ==
    ASSUME this \in Families(Elems)
    PROVE  /\ Answer("complement", 0, this, Complement(this))
           /\ Answer("minimal", 0, this, MinimalOf(this))
           /\ Answer("maximal", 0, this, MaximalOf(this))
           /\ Answer("hitting", 0, this, Hitting(this))
           /\ Answer("flip", Elems, this, FlipAll)
<1>1. Complement(this) = (SUBSET Elems) \ this
    <2>1. 1 \in 1..(NumElems + 1) /\ From(1) = Elems
        BY LevelAssumption DEF From, Elems
    <2> QED
        BY <2>1, AllSetsIs DEF Complement
<1>2. MinimalOf(this) = Minimal(this) /\ MaximalOf(this) = Maximal(this)
    BY MinimalIs, MaximalIs
<1>3. this # Empty => Hitting(this) = Transversals(Elems, this)
    BY HittingIs
<1>4. Flipped(this, Elems) \in Families(Elems)
    BY DEF Flipped, SymDiff, Families
<1> DEFINE a == Complement(this)
           b == MinimalOf(this)
           c == MaximalOf(this)
           d == Hitting(this)
<1>5. FlipAll = Flipped(this, Elems) /\ FlipAll \in Families(Elems)
    BY <1>4, FlipAllIs
<1> HIDE DEF a, b, c, d
<1>6. Answer("complement", 0, this, a)
    BY <1>1 DEF a, Answer, AlgebraAnswer, InclusionAnswer, SelectionAnswer, Mutators
<1>7. Answer("minimal", 0, this, b) /\ Answer("maximal", 0, this, c)
    BY <1>2 DEF b, c, Answer, AlgebraAnswer, InclusionAnswer, SelectionAnswer, Mutators
<1>8. Answer("hitting", 0, this, d)
    BY <1>3 DEF d, Answer, AlgebraAnswer, InclusionAnswer, SelectionAnswer, Mutators
<1>9. Answer("flip", Elems, this, FlipAll)
    BY <1>5 DEF Answer, AlgebraAnswer, InclusionAnswer, SelectionAnswer, Mutators
<1> QED
    BY <1>6, <1>7, <1>8, <1>9 DEF a, b, c, d

LEMMA ConstructRight ==
    ASSUME this \in Families(Elems), NEW in \in SUBSET Elems, NEW ex \in SUBSET Elems
    PROVE  /\ in \cap ex = {} => Answer("constrained", <<in, ex>>, this, Constrained(1, in, ex))
           /\ Answer("sets", {in, ex}, this, SetsetOf({in, ex}))
<1>1. 1 \in 1..(NumElems + 1) /\ From(1) = Elems
    BY LevelAssumption DEF From, Elems
<1>2. in \cap ex = {} =>
        Constrained(1, in, ex) = {s \in SUBSET Elems : in \subseteq s /\ ex \cap s = {}}
    BY <1>1, ConstrainedIs
<1>3. {in, ex} \in SUBSET SUBSET Elems
    OBVIOUS
<1>4. SetsetOf({in, ex}) = {in, ex}
    BY <1>3, SetsetOfIs
<1>5. in \cap ex = {} => Answer("constrained", <<in, ex>>, this, Constrained(1, in, ex))
    <2> DEFINE c == Constrained(1, in, ex)
    <2>1. in \cap ex = {} => c = {s \in SUBSET Elems : in \subseteq s /\ ex \cap s = {}}
        BY <1>2
    <2> HIDE DEF c
    <2>2. <<in, ex>>[1] = in /\ <<in, ex>>[2] = ex
        OBVIOUS
    <2>3. in \cap ex = {} => SelectionAnswer("constrained", <<in, ex>>, this, c)
        BY <2>1, <2>2 DEF SelectionAnswer
    <2>4. AlgebraAnswer("constrained", <<in, ex>>, this, c)
          /\ InclusionAnswer("constrained", <<in, ex>>, this, c)
        BY DEF AlgebraAnswer, InclusionAnswer
    <2> QED
        BY <2>3, <2>4 DEF Answer, Mutators, c
<1>6. Answer("sets", {in, ex}, this, SetsetOf({in, ex}))
    <2> DEFINE g == {in, ex}
    <2>1. SetsetOf(g) = g
        BY <1>4
    <2> HIDE DEF g
    <2>2. Answer("sets", g, this, SetsetOf(g))
        BY <2>1 DEF Answer, AlgebraAnswer, InclusionAnswer, SelectionAnswer, Mutators
    <2> QED
        BY <2>2 DEF g
<1> QED
    BY <1>5, <1>6

LEMMA WithRight ==
    ASSUME this \in Families(Elems), NEW g \in Families(Elems)
    PROVE  /\ Answer("join", g, this, Times(this, g))
           /\ Answer("meet", g, this, Meet(this, g))
           /\ Answer("subsets", g, this, Permit(this, g))
           /\ Answer("supersets", g, this, RestrictBy(this, g))
           /\ Answer("non_subsets", g, this, NonSubsets(this, g))
           /\ Answer("non_supersets", g, this, NonSupersets(this, g))
           /\ g # Empty => Answer("quotient", g, this, Divide(this, g))
           /\ g # Empty => Answer("remainder", g, this, Modulo(this, g))
<1>1. /\ Times(this, g) = Joined(this, g)
      /\ Meet(this, g) = Met(this, g)
      /\ Permit(this, g) = SubsetsOf(this, g)
      /\ RestrictBy(this, g) = SupersetsOf(this, g)
      /\ NonSubsets(this, g) = this \ SubsetsOf(this, g)
    BY TimesIs, MeetIs, PermitIs, RestrictIs, NonSubsetsIs DEF NonSub
<1>2. g # Empty => /\ Divide(this, g) = Quotient(Elems, this, g)
                   /\ Modulo(this, g) = Remainder(Elems, this, g)
    BY DivideIs, ModuloIs
<1>3. g = Minimal(g) => NonSupersets(this, g) = this \ SupersetsOf(this, g)
    <2>1. g = Minimal(g) => Antichain(g)
        BY MinimalFacts
    <2> QED
        BY <2>1, NonSupersetsIs DEF NonSup
<1> DEFINE a == Times(this, g)
           b == Meet(this, g)
           c == Permit(this, g)
           d == RestrictBy(this, g)
           e == NonSubsets(this, g)
           n == NonSupersets(this, g)
           q == Divide(this, g)
           r == Modulo(this, g)
<1> HIDE DEF a, b, c, d, e, n, q, r
<1>4. Answer("join", g, this, a) /\ Answer("meet", g, this, b)
    BY <1>1 DEF a, b, Answer, AlgebraAnswer, InclusionAnswer, SelectionAnswer, Mutators
<1>5. Answer("subsets", g, this, c) /\ Answer("supersets", g, this, d)
    BY <1>1 DEF c, d, Answer, AlgebraAnswer, InclusionAnswer, SelectionAnswer, Mutators
<1>6. Answer("non_subsets", g, this, e)
    BY <1>1 DEF e, Answer, AlgebraAnswer, InclusionAnswer, SelectionAnswer, Mutators
<1>7. Answer("non_supersets", g, this, n)
    BY <1>3 DEF n, Answer, AlgebraAnswer, InclusionAnswer, SelectionAnswer, Mutators
<1>8. g # Empty => Answer("quotient", g, this, q) /\ Answer("remainder", g, this, r)
    BY <1>2 DEF q, r, Answer, AlgebraAnswer, InclusionAnswer, SelectionAnswer, Mutators
<1> QED
    BY <1>4, <1>5, <1>6, <1>7, <1>8 DEF a, b, c, d, e, n, q, r

LEMMA ElemRight ==
    ASSUME this \in Families(Elems), NEW e \in Elems
    PROVE  /\ Answer("insert", e, this, InsertElem(e))
           /\ Answer("erase", e, this, EraseElem(e))
           /\ Answer("flip", {e}, this, Change(this, e))
           /\ Answer("supersets", {{e}}, this, SupersetsWith(e))
           /\ Answer("non_supersets", {{e}}, this, NonSupersetsWith(e))
<1>1. /\ OneSet({e}) = {{e}} /\ {{e}} \in Families(Elems) /\ {{e}} # Empty
      /\ OneSet(Elems \ {e}) = {Elems \ {e}} /\ {Elems \ {e}} \in Families(Elems)
    <2>1. {e} \in SUBSET Elems /\ Elems \ {e} \in SUBSET Elems
        OBVIOUS
    <2> QED
        BY <2>1, OneSetIs DEF Families, Empty
<1>2. InsertElem(e) = Joined(this, {{e}}) /\ Joined(this, {{e}}) \in Families(Elems)
    BY <1>1, TimesIs, JoinedFamily DEF InsertElem
<1>3. EraseElem(e) = {s \ {e} : s \in this} /\ {s \ {e} : s \in this} \in Families(Elems)
    <2>1. EraseElem(e) = Met(this, {Elems \ {e}})
        BY <1>1, MeetIs DEF EraseElem
    <2>2. \A s \in this : s \cap (Elems \ {e}) = s \ {e}
        BY DEF Families
    <2>3. Met(this, {Elems \ {e}}) = {s \cap (Elems \ {e}) : s \in this}
        BY DEF Met
    <2>4. {s \cap (Elems \ {e}) : s \in this} = {s \ {e} : s \in this}
        BY <2>2
    <2>5. {s \ {e} : s \in this} \in Families(Elems)
        BY DEF Families
    <2> QED
        BY <2>1, <2>3, <2>4, <2>5
<1>4. Change(this, e) = Flipped(this, {e}) /\ Change(this, e) \in Families(Elems)
    <2>1. Flipped(this, {e}) \in Families(Elems)
        BY DEF Flipped, SymDiff, Families
    <2> QED
        BY <2>1, FlippedFacts
<1> DEFINE has(s) == \E t \in {{e}} : t \subseteq s
<1>5. SupersetsWith(e) = SupersetsOf(this, {{e}})
    <2>1. Divide(this, {{e}}) = Quotient(Elems, this, {{e}})
        BY <1>1, DivideIs
    <2>2. Quotient(Elems, this, {{e}}) \in Families(Elems)
        BY DEF Quotient, Families
    <2>3. SupersetsWith(e) = Joined(Quotient(Elems, this, {{e}}), {{e}})
        BY <1>1, <2>1, <2>2, TimesIs DEF SupersetsWith
    <2>4. \A s : s \in Joined(Quotient(Elems, this, {{e}}), {{e}}) <=> s \in this /\ e \in s
        <3>1. \A s : s \in Joined(Quotient(Elems, this, {{e}}), {{e}})
                        <=> \E q \in Quotient(Elems, this, {{e}}) : s = q \cup {e}
            BY DEF Joined
        <3>2. \A q : q \in Quotient(Elems, this, {{e}})
                        <=> q \in SUBSET Elems /\ e \notin q /\ q \cup {e} \in this
            BY DEF Quotient
        <3>4. ASSUME NEW s, NEW q \in Quotient(Elems, this, {{e}}), s = q \cup {e}
              PROVE  s \in this /\ e \in s
            BY <3>2, <3>4
        <3>3. ASSUME NEW s \in this, e \in s
              PROVE  s \ {e} \in Quotient(Elems, this, {{e}}) /\ s = (s \ {e}) \cup {e}
            <4>1. s = (s \ {e}) \cup {e} /\ s \ {e} \in SUBSET Elems /\ e \notin s \ {e}
                BY <3>3 DEF Families
            <4> QED
                BY <3>2, <4>1
        <3>5. ASSUME NEW s
              PROVE  s \in Joined(Quotient(Elems, this, {{e}}), {{e}}) <=> s \in this /\ e \in s
            <4>1. s \in Joined(Quotient(Elems, this, {{e}}), {{e}})
                    <=> \E q \in Quotient(Elems, this, {{e}}) : s = q \cup {e}
                BY <3>1
            <4> QED
                BY <4>1, <3>3, <3>4
        <3> QED
            BY <3>5
    <2>5. \A s : s \in SupersetsOf(this, {{e}}) <=> s \in this /\ e \in s
        BY DEF SupersetsOf
    <2> QED
        BY <2>3, <2>4, <2>5
<1>6. NonSupersetsWith(e) = this \ SupersetsOf(this, {{e}})
    <2>1. Divide(this, OneSet({e})) = Quotient(Elems, this, {{e}})
        BY <1>1, DivideIs
    <2>2. Quotient(Elems, this, {{e}}) \in Families(Elems)
        BY DEF Quotient, Families
    <2> QED
        BY <1>1, <1>5, <2>1, <2>2 DEF NonSupersetsWith, Modulo, SupersetsWith
<1> DEFINE a == InsertElem(e)
           b == EraseElem(e)
           c == Change(this, e)
           d == SupersetsWith(e)
           n == NonSupersetsWith(e)
           g == {{e}}
           x == {e}
<1>7. Answer("insert", e, this, a)
    <2>1. a = Joined(this, {{e}}) /\ a \in Families(Elems)
        BY <1>2
    <2> HIDE DEF a
    <2> QED
        BY <2>1 DEF Answer, AlgebraAnswer, InclusionAnswer, SelectionAnswer
<1>8. Answer("erase", e, this, b)
    <2>1. b = {s \ {e} : s \in this} /\ b \in Families(Elems)
        BY <1>3
    <2> HIDE DEF b
    <2> QED
        BY <2>1 DEF Answer, AlgebraAnswer, InclusionAnswer, SelectionAnswer
<1>9. Answer("flip", x, this, c)
    <2>1. c = Flipped(this, x) /\ c \in Families(Elems)
        BY <1>4
    <2> HIDE DEF c, x
    <2> QED
        BY <2>1 DEF Answer, AlgebraAnswer, InclusionAnswer, SelectionAnswer
<1>10. Answer("supersets", g, this, d) /\ Answer("non_supersets", g, this, n)
    <2>1. d = SupersetsOf(this, g) /\ n = this \ SupersetsOf(this, g)
        BY <1>5, <1>6
    <2> HIDE DEF d, n, g
    <2> QED
        BY <2>1 DEF Answer, AlgebraAnswer, InclusionAnswer, SelectionAnswer, Mutators
<1> QED
    BY <1>7, <1>8, <1>9, <1>10

LEMMA SizeRight ==
    ASSUME this \in Families(Elems), NEW n \in 0..NumElems
    PROVE  /\ Answer("smaller", n, this, Smaller(n))
           /\ Answer("larger", n, this, Larger(n))
           /\ Answer("set_size", n, this, SetSize(n))
<1> DEFINE a == Smaller(n)
           b == Larger(n)
           c == SetSize(n)
<1>1. /\ n > 0 => a = {s \in this : Cardinality(s) < n}
      /\ b = {s \in this : Cardinality(s) > n}
      /\ n > 0 => c = {s \in this : Cardinality(s) = n}
    BY SizesAre
<1> HIDE DEF a, b, c
<1>2. Answer("smaller", n, this, a)
    BY <1>1 DEF Answer, AlgebraAnswer, InclusionAnswer, SelectionAnswer, Mutators
<1>3. Answer("larger", n, this, b)
    BY <1>1 DEF Answer, AlgebraAnswer, InclusionAnswer, SelectionAnswer, Mutators
<1>4. Answer("set_size", n, this, c)
    BY <1>1 DEF Answer, AlgebraAnswer, InclusionAnswer, SelectionAnswer, Mutators
<1> QED
    BY <1>2, <1>3, <1>4 DEF a, b, c

LEMMA CountRight ==
    ASSUME this \in Families(Elems), NEW s \in SUBSET Elems
    PROVE  Answer("count", s, this, CountOf(s))
<1> DEFINE c == CountOf(s)
<1>1. c = IF \E t \in this : s \subseteq t THEN 1 ELSE 0
    BY CountIs
<1> HIDE DEF c
<1>2. Answer("count", s, this, c)
    BY <1>1 DEF Answer, AlgebraAnswer, InclusionAnswer, SelectionAnswer, Mutators
<1> QED
    BY <1>2 DEF c

LEMMA SwapRight ==
    ASSUME this \in Families(Elems), NEW v \in Elems, NEW w \in Elems
    PROVE  Answer("swap", <<v, w>>, this, Swap(this, v, w))
<1> DEFINE c == Swap(this, v, w)
           x == <<v, w>>
<1>1. c = {Exchange(s, v, w) : s \in this}
    BY SwapIs
<1>2. x[1] = v /\ x[2] = w
    OBVIOUS
<1> HIDE DEF c, x
<1>3. Answer("swap", x, this, c)
    BY <1>1, <1>2 DEF Answer, AlgebraAnswer, InclusionAnswer, SelectionAnswer, Mutators
<1> QED
    BY <1>3 DEF c, x

\* The functions whose answers are not described by Answer.
Elsewhere == {"load", "load_file", "enum", "sym_chk", "imply_chk", "coimply_chk", "sym_set",
              "imply_set", "coimply_set", "always", "sym_grp", "sym_grp_naive", "divisor",
              "probability", "none"}
LEMMA ElsewhereRight == \A op \in Elsewhere : \A arg, f, r : Answer(op, arg, f, r)
<1>1. \A op \in Elsewhere : \A arg, f, r : AlgebraAnswer(op, arg, f, r)
    BY DEF Elsewhere, AlgebraAnswer
<1>2. \A op \in Elsewhere : \A arg, f, r : InclusionAnswer(op, arg, f, r)
    BY DEF Elsewhere, InclusionAnswer
<1>3. \A op \in Elsewhere : \A arg, f, r : SelectionAnswer(op, arg, f, r)
    BY DEF Elsewhere, SelectionAnswer
<1>4. \A op \in Elsewhere : op \notin Mutators
    BY DEF Elsewhere, Mutators
<1> QED
    BY <1>1, <1>2, <1>3, <1>4 DEF Answer
-----------------------------------------------------------------------------
(***************************************************************************)
(* The invariant                                                           *)
(***************************************************************************)
AnswerInv == this \in Families(Elems) /\ Answer(asked.op, asked.arg, this, result)

LEMMA AskKeeps ==
    ASSUME AnswerInv, NEW op, NEW arg, NEW r, Ask(op, arg, r), Answer(op, arg, this, r)
    PROVE  AnswerInv'
<1>1. asked'.op = op /\ asked'.arg = arg /\ this' = this /\ result' = r
    BY DEF Ask
<1> QED
    BY <1>1 DEF AnswerInv

LEMMA ElsewhereKeeps ==
    ASSUME AnswerInv, NEW op \in Elsewhere, NEW arg, NEW r, Ask(op, arg, r)
    PROVE  AnswerInv'
BY ElsewhereRight, AskKeeps

LEMMA BecomesKeeps ==
    ASSUME asked = NotAsked, NEW f \in Families(Elems), Becomes(f)
    PROVE  AnswerInv'
<1>1. asked'.op = "none" /\ this' = f
    BY DEF Becomes, NotAsked
<1>2. "none" \in Elsewhere
    BY DEF Elsewhere
<1> QED
    BY <1>1, <1>2, ElsewhereRight DEF AnswerInv

LEMMA OperationKeeps ==
    ASSUME AnswerInv, Operation
    PROVE  AnswerInv'
<1>1. this \in Families(Elems) /\ asked = NotAsked
    BY DEF AnswerInv, Operation, Idle
<1>2. ASSUME NEW s \in SUBSET Elems, Insert(s) \/ Erase(s) \/ AskCount(s)
      PROVE  AnswerInv'
    <2>1. InsertSet(s) \in Families(Elems) /\ EraseSet(s) \in Families(Elems)
        BY <1>1, OneSetIs DEF InsertSet, EraseSet, Families
    <2>2. CASE Insert(s)
        BY <1>1, <2>1, <2>2, BecomesKeeps DEF Insert
    <2>3. CASE Erase(s)
        BY <1>1, <2>1, <2>3, BecomesKeeps DEF Erase
    <2>4. CASE AskCount(s)
        BY <1>1, <2>4, CountRight, AskKeeps DEF AskCount
    <2> QED
        BY <1>2, <2>2, <2>3, <2>4
<1>3. CASE Clear
    <2>1. Empty \in Families(Elems)
        BY DEF Empty, Families
    <2> QED
        BY <1>1, <1>3, <2>1, BecomesKeeps DEF Clear
<1>4. CASE AskAlone
    BY <1>1, <1>4, AloneRight, AskKeeps DEF AskAlone
<1>5. CASE AskStream
    <2>1. "load" \in Elsewhere /\ "load_file" \in Elsewhere /\ "enum" \in Elsewhere
        BY DEF Elsewhere
    <2> QED
        BY <1>5, <2>1, ElsewhereKeeps DEF AskStream
<1>6. CASE AskStructure
    <2>1. /\ "always" \in Elsewhere /\ "sym_grp" \in Elsewhere
          /\ "sym_grp_naive" \in Elsewhere /\ "divisor" \in Elsewhere
        BY DEF Elsewhere
    <2> QED
        BY <1>6, <2>1, ElsewhereKeeps DEF AskStructure
<1>7. ASSUME NEW g \in Others, CombineWith(g) \/ AskWith(g)
      PROVE  AnswerInv'
    <2>1. g \in Families(Elems)
        BY SetsetsAssumption DEF Families
    <2>2. /\ this \cup g \in Families(Elems)
          /\ this \cap g \in Families(Elems)
          /\ this \ g \in Families(Elems)
          /\ Xor(g) \in Families(Elems)
        BY <1>1, <2>1 DEF Xor, Families
    <2>3. CASE CombineWith(g)
        BY <1>1, <2>1, <2>2, <2>3, BecomesKeeps DEF CombineWith
    <2>4. CASE AskWith(g)
        <3>1. CASE \/ Ask("join", g, Times(this, g))
                   \/ Ask("meet", g, Meet(this, g))
                   \/ Ask("subsets", g, Permit(this, g))
                   \/ Ask("supersets", g, RestrictBy(this, g))
            BY <1>1, <2>1, <3>1, WithRight, AskKeeps
        <3>2. CASE \/ Ask("non_subsets", g, NonSubsets(this, g))
                   \/ Ask("non_supersets", g, NonSupersets(this, g))
                   \/ g # Empty /\ Ask("quotient", g, Divide(this, g))
                   \/ g # Empty /\ Ask("remainder", g, Modulo(this, g))
            BY <1>1, <2>1, <3>2, WithRight, AskKeeps
        <3> QED
            BY <2>4, <3>1, <3>2 DEF AskWith
    <2> QED
        BY <1>7, <2>3, <2>4
<1>8. ASSUME NEW e \in Elems, AskElem(e) \/ AskVariable(e)
      PROVE  AnswerInv'
    <2>1. CASE AskElem(e)
        BY <1>1, <2>1, ElemRight, AskKeeps DEF AskElem
    <2>2. CASE AskVariable(e)
        <3>1. "sym_set" \in Elsewhere /\ "imply_set" \in Elsewhere /\ "coimply_set" \in Elsewhere
            BY DEF Elsewhere
        <3> QED
            BY <2>2, <3>1, ElsewhereKeeps DEF AskVariable
    <2> QED
        BY <1>8, <2>1, <2>2
<1>9. ASSUME NEW v \in Elems, NEW w \in Elems, AskVariables(v, w)
      PROVE  AnswerInv'
    <2>1. "sym_chk" \in Elsewhere /\ "imply_chk" \in Elsewhere /\ "coimply_chk" \in Elsewhere
        BY DEF Elsewhere
    <2>2. CASE Ask("swap", <<v, w>>, Swap(this, v, w))
        BY <1>1, <2>2, SwapRight, AskKeeps
    <2> QED
        BY <1>9, <2>1, <2>2, ElsewhereKeeps DEF AskVariables
<1>10. ASSUME NEW n \in 0..NumElems, AskSize(n)
       PROVE  AnswerInv'
    BY <1>1, <1>10, SizeRight, AskKeeps DEF AskSize
<1>11. ASSUME NEW in \in SUBSET Elems, NEW ex \in SUBSET Elems, Construct(in, ex)
       PROVE  AnswerInv'
    BY <1>1, <1>11, ConstructRight, AskKeeps DEF Construct
<1>12. ASSUME NEW p \in [Elems -> 0..Unit1], AskProbability(p)
       PROVE  AnswerInv'
    <2>1. "probability" \in Elsewhere
        BY DEF Elsewhere
    <2> QED
        BY <1>12, <2>1, ElsewhereKeeps DEF AskProbability
<1>13. ASSUME NEW kind, NEW w, Begin(kind, w)
       PROVE  AnswerInv'
    BY <1>13 DEF Begin, AnswerInv
<1> QED
    BY <1>2, <1>3, <1>4, <1>5, <1>6, <1>7, <1>8, <1>9, <1>10, <1>11, <1>12, <1>13 DEF Operation

LEMMA AnsweredKeeps ==
    ASSUME AnswerInv, Answered
    PROVE  AnswerInv'
<1>1. asked'.op = "none" /\ "none" \in Elsewhere
    BY DEF Answered, NotAsked, Elsewhere
<1>2. this' \in Families(Elems)
    BY DEF AnswerInv, Answered, Answer
<1> QED
    BY <1>1, <1>2, ElsewhereRight DEF AnswerInv

\* The answers of every object are right: the object holds a family over the
\* universe, and what was asked of it is answered by its definition.
THEOREM AnswersInductive == Spec => []AnswerInv
<1>1. Init => AnswerInv
    <2> SUFFICES ASSUME Init PROVE AnswerInv
        OBVIOUS
    <2>1. asked.op = "none" /\ this = Empty /\ "none" \in Elsewhere
        BY DEF Init, NotAsked, Elsewhere
    <2>2. Empty \in Families(Elems)
        BY DEF Empty, Families
    <2> QED
        BY <2>1, <2>2, ElsewhereRight DEF AnswerInv
<1>2. AnswerInv /\ [Next]_vars => AnswerInv'
    <2> SUFFICES ASSUME AnswerInv, [Next]_vars PROVE AnswerInv'
        OBVIOUS
    <2>1. CASE Operation
        BY <2>1, OperationKeeps
    <2>2. CASE Answered
        BY <2>2, AnsweredKeeps
    <2>3. CASE Step \/ EndLoop \/ UNCHANGED vars
        BY <2>3 DEF Step, EndLoop, vars, AnswerInv
    <2> QED
        BY <2>1, <2>2, <2>3 DEF Next
<1> QED
    BY <1>1, <1>2, PTL DEF Spec

\* The operations of the algebra of families are computed right.
THEOREM AlgebraRightAlways == Spec => []AlgebraRight
<1>1. AnswerInv => AlgebraRight
    BY DEF AnswerInv, Answer, AlgebraAnswer, AlgebraRight, Asked
<1> QED
    BY <1>1, AnswersInductive, PTL

\* The selections by inclusion are.
THEOREM InclusionRightAlways == Spec => []InclusionRight
<1>1. AnswerInv => InclusionRight
    BY DEF AnswerInv, Answer, InclusionAnswer, InclusionRight, Asked
<1> QED
    BY <1>1, AnswersInductive, PTL

\* The selections by size, by element and by constraint are.
THEOREM SelectionRightAlways == Spec => []SelectionRight
<1>1. AnswerInv => SelectionRight
    BY DEF AnswerInv, Answer, SelectionAnswer, SelectionRight, Asked
<1> QED
    BY <1>1, AnswersInductive, PTL
-----------------------------------------------------------------------------
(***************************************************************************)
(* The relations between variables                                         *)
(***************************************************************************)
\* The answer r to op(arg) about the variables of f is right.
RelationAnswer(op, arg, f, r) ==
    /\ op = "sym_chk" => (r <=> Symmetric(f, arg[1], arg[2]))
    /\ op = "imply_chk" => (r <=> Implies(f, arg[1], arg[2]))
    /\ op = "coimply_chk" => (r <=> CoImplies(f, arg[1], arg[2]))
    /\ op = "sym_set" =>
            r = Ones({x \in Support(f) \ {arg} : arg \in Support(f) /\ Symmetric(f, arg, x)})
    /\ op = "imply_set" => r = Ones({x \in Support(f) \ {arg} : Implies(f, arg, x)})
    /\ op = "coimply_set" => r = Ones({x \in Support(f) \ {arg} : CoImplies(f, arg, x)})
    /\ op = "always" => r = Ones(Common(f))
    /\ op = "sym_grp" => r = {c \in SymmetryClasses(f) : Cardinality(c) > 1}
    /\ op = "sym_grp_naive" => r = SymmetryClasses(f)
    /\ op = "divisor" /\ Cardinality(f) > 1 =>
            /\ Cardinality(r) > 1
            /\ \A x \in Support(r) : Cardinality(OnSet0(r, x)) < 2

Related == {"sym_chk", "imply_chk", "coimply_chk", "sym_set", "imply_set", "coimply_set",
            "always", "sym_grp", "sym_grp_naive", "divisor"}
LEMMA UnrelatedRight == \A op : op \notin Related => \A arg, f, r : RelationAnswer(op, arg, f, r)
BY DEF Related, RelationAnswer

LEMMA ChecksRight ==
    ASSUME this \in Families(Elems), NEW v \in Elems, NEW w \in Elems
    PROVE  /\ RelationAnswer("sym_chk", <<v, w>>, this, SymChk(this, v, w))
           /\ RelationAnswer("imply_chk", <<v, w>>, this, ImplyChk(this, v, w))
           /\ RelationAnswer("coimply_chk", <<v, w>>, this, CoImplyChk(this, v, w))
<1> DEFINE x == <<v, w>>
           a == SymChk(this, v, w)
           b == ImplyChk(this, v, w)
           c == CoImplyChk(this, v, w)
<1>1. x[1] = v /\ x[2] = w
    OBVIOUS
<1>2. a <=> Symmetric(this, v, w)
    BY SymChkIs
<1>3. (b <=> Implies(this, v, w)) /\ (c <=> CoImplies(this, v, w))
    BY ImplyChkIs, CoImplyChkIs
<1> HIDE DEF x, a, b, c
<1>4. /\ RelationAnswer("sym_chk", x, this, a)
      /\ RelationAnswer("imply_chk", x, this, b)
      /\ RelationAnswer("coimply_chk", x, this, c)
    BY <1>1, <1>2, <1>3 DEF RelationAnswer
<1> QED
    BY <1>4 DEF x, a, b, c

LEMMA PartnersRight ==
    ASSUME this \in Families(Elems), NEW v \in Elems
    PROVE  /\ RelationAnswer("sym_set", v, this, SymSet(this, v))
           /\ RelationAnswer("imply_set", v, this, ImplySet(this, v))
           /\ RelationAnswer("coimply_set", v, this, CoImplySet(this, v))
<1> DEFINE a == SymSet(this, v)
           b == ImplySet(this, v)
           c == CoImplySet(this, v)
           aa == Ones({x \in Support(this) \ {v} : v \in Support(this) /\ Symmetric(this, v, x)})
           bb == Ones({x \in Support(this) \ {v} : Implies(this, v, x)})
           cc == Ones({x \in Support(this) \ {v} : CoImplies(this, v, x)})
<1>1. a = aa /\ b = bb /\ c = cc
    BY SymSetIs, ImplySetIs, CoImplySetIs
<1> HIDE DEF a, b, c
<1>2. RelationAnswer("sym_set", v, this, aa)
    BY DEF RelationAnswer
<1>3. RelationAnswer("imply_set", v, this, bb)
    BY DEF RelationAnswer
<1>4. RelationAnswer("coimply_set", v, this, cc)
    BY DEF RelationAnswer
<1> HIDE DEF aa, bb, cc
<1>5. /\ RelationAnswer("sym_set", v, this, a)
      /\ RelationAnswer("imply_set", v, this, b)
      /\ RelationAnswer("coimply_set", v, this, c)
    BY <1>1, <1>2, <1>3, <1>4
<1> QED
    BY <1>5 DEF a, b, c

LEMMA StructureRight ==
    ASSUME this \in Families(Elems)
    PROVE  /\ RelationAnswer("always", 0, this, Always(this))
           /\ RelationAnswer("sym_grp", 0, this, SymGrp(this))
           /\ RelationAnswer("sym_grp_naive", 0, this, SymGrpNaive(this))
           /\ RelationAnswer("divisor", 0, this, Divisor(this))
<1> DEFINE d == Divisor(this)
<1>1. Always(this) = Ones(Common(this))
    BY AlwaysIs
<1>2. SymGrp(this) = {c \in SymmetryClasses(this) : Cardinality(c) > 1}
    BY SymGrpIs
<1>3. SymGrpNaive(this) = SymmetryClasses(this)
    BY SymGrpNaiveIs
<1>4. Cardinality(this) > 1 =>
            Cardinality(d) > 1 /\ \A x \in Support(d) : Cardinality(OnSet0(d, x)) < 2
    BY DivisorIs
<1> HIDE DEF d
<1>5. RelationAnswer("always", 0, this, Always(this))
    BY <1>1 DEF RelationAnswer
<1>6. RelationAnswer("sym_grp", 0, this, SymGrp(this))
    BY <1>2 DEF RelationAnswer
<1>7. RelationAnswer("sym_grp_naive", 0, this, SymGrpNaive(this))
    BY <1>3 DEF RelationAnswer
<1>8. RelationAnswer("divisor", 0, this, d)
    BY <1>4 DEF RelationAnswer
<1> QED
    BY <1>5, <1>6, <1>7, <1>8 DEF d

\* What a step leaves to answer.
Still == UNCHANGED <<this, asked, result>>
Asks ==
    \/ AskAlone \/ AskStream \/ AskStructure
    \/ \E s \in SUBSET Elems : AskCount(s)
    \/ \E g \in Others : AskWith(g)
    \/ \E e \in Elems : AskElem(e) \/ AskVariable(e)
    \/ \E v, w \in Elems : AskVariables(v, w)
    \/ \E n \in 0..NumElems : AskSize(n)
    \/ \E in, ex \in SUBSET Elems : Construct(in, ex)
    \/ \E p \in [Elems -> 0..Unit1] : AskProbability(p)

LEMMA StepsAre ==
    ASSUME [Next]_vars
    PROVE  Still \/ asked'.op = "none" \/ Asks
<1>1. CASE Operation
    <2>1. asked.op = "none"
        BY <1>1 DEF Operation, Idle, NotAsked
    <2>2. ASSUME NEW f, Becomes(f) PROVE asked'.op = "none"
        BY <2>1, <2>2 DEF Becomes
    <2>3. ASSUME NEW kind, NEW w, Begin(kind, w) PROVE asked'.op = "none"
        BY <2>1, <2>3 DEF Begin
    <2>4. ASSUME NEW s, Insert(s) \/ Erase(s) PROVE asked'.op = "none"
        BY <2>2, <2>4 DEF Insert, Erase
    <2>5. ASSUME NEW g, CombineWith(g) PROVE asked'.op = "none"
        BY <2>2, <2>5 DEF CombineWith
    <2>6. Clear => asked'.op = "none"
        BY <2>2 DEF Clear
    <2> QED
        BY <1>1, <2>3, <2>4, <2>5, <2>6 DEF Operation, Asks
<1>2. CASE Answered
    BY <1>2 DEF Answered, NotAsked
<1>3. CASE Step \/ EndLoop \/ UNCHANGED vars
    BY <1>3 DEF Step, EndLoop, vars, Still
<1> QED
    BY <1>1, <1>2, <1>3 DEF Next

RelationInv == RelationAnswer(asked.op, asked.arg, this, result)

LEMMA RelationAsked ==
    ASSUME NEW op, NEW arg, NEW r, Ask(op, arg, r), RelationAnswer(op, arg, this, r)
    PROVE  RelationInv'
<1>1. asked'.op = op /\ asked'.arg = arg /\ this' = this /\ result' = r
    BY DEF Ask
<1> QED
    BY <1>1 DEF RelationInv

LEMMA RelationElsewhere ==
    ASSUME NEW op, NEW arg, NEW r, Ask(op, arg, r), op \notin Related
    PROVE  RelationInv'
BY UnrelatedRight, RelationAsked

LEMMA RelationAsks ==
    ASSUME this \in Families(Elems), Asks
    PROVE  RelationInv'
<1>1. CASE AskAlone
    <2>1. /\ "complement" \notin Related /\ "minimal" \notin Related /\ "maximal" \notin Related
          /\ "hitting" \notin Related /\ "flip" \notin Related
        BY DEF Related
    <2> QED
        BY <1>1, <2>1, RelationElsewhere DEF AskAlone
<1>2. CASE AskStream
    <2>1. "load" \notin Related /\ "load_file" \notin Related /\ "enum" \notin Related
        BY DEF Related
    <2> QED
        BY <1>2, <2>1, RelationElsewhere DEF AskStream
<1>3. CASE AskStructure
    BY <1>3, StructureRight, RelationAsked DEF AskStructure
<1>4. ASSUME NEW s \in SUBSET Elems, AskCount(s) PROVE RelationInv'
    <2>1. "count" \notin Related
        BY DEF Related
    <2> QED
        BY <1>4, <2>1, RelationElsewhere DEF AskCount
<1>5. ASSUME NEW g \in Others, AskWith(g) PROVE RelationInv'
    <2>1. /\ "join" \notin Related /\ "meet" \notin Related /\ "subsets" \notin Related
          /\ "supersets" \notin Related /\ "non_subsets" \notin Related
          /\ "non_supersets" \notin Related /\ "quotient" \notin Related
          /\ "remainder" \notin Related
        BY DEF Related
    <2> QED
        BY <1>5, <2>1, RelationElsewhere DEF AskWith
<1>6. ASSUME NEW e \in Elems, AskElem(e) PROVE RelationInv'
    <2>1. /\ "insert" \notin Related /\ "erase" \notin Related /\ "flip" \notin Related
          /\ "supersets" \notin Related /\ "non_supersets" \notin Related
        BY DEF Related
    <2> QED
        BY <1>6, <2>1, RelationElsewhere DEF AskElem
<1>7. ASSUME NEW e \in Elems, AskVariable(e) PROVE RelationInv'
    BY <1>7, PartnersRight, RelationAsked DEF AskVariable
<1>8. ASSUME NEW v \in Elems, NEW w \in Elems, AskVariables(v, w) PROVE RelationInv'
    <2>1. "swap" \notin Related
        BY DEF Related
    <2>2. CASE Ask("swap", <<v, w>>, Swap(this, v, w))
        BY <2>1, <2>2, RelationElsewhere
    <2> QED
        BY <1>8, <2>2, ChecksRight, RelationAsked DEF AskVariables
<1>9. ASSUME NEW n \in 0..NumElems, AskSize(n) PROVE RelationInv'
    <2>1. "smaller" \notin Related /\ "larger" \notin Related /\ "set_size" \notin Related
        BY DEF Related
    <2> QED
        BY <1>9, <2>1, RelationElsewhere DEF AskSize
<1>10. ASSUME NEW in \in SUBSET Elems, NEW ex \in SUBSET Elems, Construct(in, ex)
       PROVE  RelationInv'
    <2>1. "constrained" \notin Related /\ "sets" \notin Related
        BY DEF Related
    <2> QED
        BY <1>10, <2>1, RelationElsewhere DEF Construct
<1>11. ASSUME NEW p \in [Elems -> 0..Unit1], AskProbability(p) PROVE RelationInv'
    <2>1. "probability" \notin Related
        BY DEF Related
    <2> QED
        BY <1>11, <2>1, RelationElsewhere DEF AskProbability
<1> QED
    BY <1>1, <1>2, <1>3, <1>4, <1>5, <1>6, <1>7, <1>8, <1>9, <1>10, <1>11 DEF Asks

\* The relations between the variables of an object are told right.
THEOREM RelationsRightAlways == Spec => []RelationsRight
<1>1. Init => RelationInv
    <2>1. "none" \notin Related
        BY DEF Related
    <2> QED
        BY <2>1, UnrelatedRight DEF Init, NotAsked, RelationInv
<1>2. AnswerInv /\ RelationInv /\ [Next]_vars => RelationInv'
    <2> SUFFICES ASSUME AnswerInv, RelationInv, [Next]_vars PROVE RelationInv'
        OBVIOUS
    <2>1. CASE Still
        BY <2>1 DEF Still, RelationInv
    <2>2. CASE asked'.op = "none"
        <3>1. "none" \notin Related
            BY DEF Related
        <3> QED
            BY <2>2, <3>1, UnrelatedRight DEF RelationInv
    <2>3. CASE Asks
        BY <2>3, RelationAsks DEF AnswerInv
    <2> QED
        BY <2>1, <2>2, <2>3, StepsAre
<1>3. RelationInv => RelationsRight
    <2>1. \A vs : Singletons(vs) = Ones(vs)
        BY DEF Singletons, Ones
    <2> QED
        BY <2>1 DEF RelationInv, RelationAnswer, RelationsRight, Asked, SymmetryClasses
<1> QED
    BY <1>1, <1>2, <1>3, AnswersInductive, PTL DEF Spec

-----------------------------------------------------------------------------
(***************************************************************************)
(* The iterators                                                           *)
(***************************************************************************)
\* The order in which the sets are visited: of two sets, the one that has the
\* smallest of the elements in which they differ comes first.
Before(s, t) == \E v \in s \ t : \A u \in Elems : u < v => (u \in s <=> u \in t)

LEMMA BeforeFacts ==
    /\ \A s \in SUBSET Elems : ~Before(s, s) /\ ~Before({}, s)
    /\ \A s \in SUBSET Elems : s # {} => Before(s, {})
    /\ \A s, t, x \in SUBSET Elems : Before(s, t) /\ Before(t, x) => Before(s, x)
    /\ \A s, t \in SUBSET Elems : s = t \/ Before(s, t) \/ Before(t, s)
<1>1. Elems \in SUBSET Nat
    BY LevelAssumption DEF Elems
<1>2. \A s \in SUBSET Elems : ~Before(s, s) /\ ~Before({}, s)
    BY DEF Before
<1>3. ASSUME NEW s \in SUBSET Elems, s # {} PROVE Before(s, {})
    <2>1. PICK v \in s : \A u \in s : v <= u
        BY <1>1, <1>3, LeastElement
    <2>2. v \in s \ {} /\ \A u \in Elems : u < v => u \notin s
        BY <1>1, <2>1
    <2> QED
        BY <2>2 DEF Before
<1>4. ASSUME NEW s \in SUBSET Elems, NEW t \in SUBSET Elems, NEW x \in SUBSET Elems,
             Before(s, t), Before(t, x)
      PROVE  Before(s, x)
    <2>1. PICK v \in s \ t : \A u \in Elems : u < v => (u \in s <=> u \in t)
        BY <1>4 DEF Before
    <2>2. PICK w \in t \ x : \A u \in Elems : u < w => (u \in t <=> u \in x)
        BY <1>4 DEF Before
    <2>3. v \in Elems /\ w \in Elems /\ v \in Nat /\ w \in Nat /\ v # w
        BY <1>1
    <2>4. CASE v < w
        <3>1. v \in s \ x
            BY <2>1, <2>2, <2>3, <2>4
        <3>2. \A u \in Elems : u < v => (u \in s <=> u \in x)
            BY <1>1, <2>1, <2>2, <2>3, <2>4
        <3> QED
            BY <3>1, <3>2 DEF Before
    <2>5. CASE w < v
        <3>1. w \in s \ x
            BY <2>1, <2>2, <2>3, <2>5
        <3>2. \A u \in Elems : u < w => (u \in s <=> u \in x)
            BY <1>1, <2>1, <2>2, <2>3, <2>5
        <3> QED
            BY <3>1, <3>2 DEF Before
    <2> QED
        BY <2>3, <2>4, <2>5
<1>5. ASSUME NEW s \in SUBSET Elems, NEW t \in SUBSET Elems, s # t
      PROVE  Before(s, t) \/ Before(t, s)
    <2> DEFINE d == (s \ t) \cup (t \ s)
    <2>1. d \in SUBSET Nat /\ d # {}
        BY <1>1, <1>5
    <2>2. PICK v \in d : \A u \in d : v <= u
        BY <2>1, LeastElement
    <2>3. \A u \in Elems : u < v => u \notin d
        BY <1>1, <2>1, <2>2
    <2>4. \A u \in Elems : u < v => (u \in s <=> u \in t)
        BY <2>3
    <2> QED
        BY <2>2, <2>4 DEF Before
<1> QED
    BY <1>2, <1>3, <1>4, <1>5

\* Sets with the smallest element come first, in the order of their rests.
LEMMA BeforeSplit ==
    ASSUME NEW S \in SUBSET Elems, NEW v \in S, \A w \in S : v <= w,
           NEW s \in SUBSET (S \ {v}), NEW t \in SUBSET (S \ {v})
    PROVE  /\ Before(s \cup {v}, t)
           /\ ~Before(t, s \cup {v})
           /\ Before(s \cup {v}, t \cup {v}) <=> Before(s, t)
<1>1. Elems \in SUBSET Nat /\ v \in Nat
    BY LevelAssumption DEF Elems
<1>2. \A u \in Elems : u < v => u \notin s /\ u \notin t
    BY <1>1
<1>3. v \in (s \cup {v}) \ t /\ \A u \in Elems : u < v => (u \in s \cup {v} <=> u \in t)
    BY <1>1, <1>2
<1>4. Before(s \cup {v}, t)
    BY <1>3 DEF Before
<1>5. s \cup {v} \in SUBSET Elems /\ t \in SUBSET Elems
    OBVIOUS
<1>6. ~Before(t, s \cup {v})
    BY <1>4, <1>5, BeforeFacts
<1>7. (s \cup {v}) \ (t \cup {v}) = s \ t
    OBVIOUS
<1>8. \A u \in Elems : (u \in s \cup {v} <=> u \in t \cup {v}) <=> (u \in s <=> u \in t)
    OBVIOUS
<1>9. Before(s \cup {v}, t \cup {v}) <=> Before(s, t)
    BY <1>7, <1>8 DEF Before
<1> QED
    BY <1>4, <1>6, <1>9

\* The stack st has the elements of x in rising order.
Stack(st, x) ==
    /\ st \in Seq(Elems)
    /\ x = {st[i] : i \in 1..Len(st)}
    /\ \A i, j \in 1..Len(st) : i < j => st[i] < st[j]

LEMMA StackFacts ==
    ASSUME NEW st, NEW x, Stack(st, x)
    PROVE  /\ x \in SUBSET Elems
           /\ st = <<>> <=> x = {}
           /\ Range(st) = x
           /\ \A v : Contains(st, v) <=> v \in x
           /\ x # {} => /\ Last(st) \in x
                        /\ \A u \in x : u <= Last(st)
                        /\ Stack(Front(st), x \ {Last(st)})
           /\ \A v \in Elems : (\A u \in x : u < v) => Stack(Append(st, v), x \cup {v})
<1>1. st \in Seq(Elems) /\ x = {st[i] : i \in 1..Len(st)} /\ Len(st) \in Nat
      /\ \A i, j \in 1..Len(st) : i < j => st[i] < st[j]
    BY DEF Stack
<1>2. Elems \in SUBSET Nat
    BY LevelAssumption DEF Elems
<1>3. x \in SUBSET Elems /\ (st = <<>> <=> x = {})
    BY <1>1
<1>4. Range(st) = x /\ \A v : Contains(st, v) <=> v \in x
    BY <1>1 DEF Range, Contains
<1>5. ASSUME x # {}
      PROVE  /\ Last(st) \in x
             /\ \A u \in x : u <= Last(st)
             /\ Stack(Front(st), x \ {Last(st)})
    <2> DEFINE n == Len(st)
               f == Front(st)
    <2>1. n \in Nat /\ n >= 1 /\ Last(st) = st[n] /\ st[n] \in Elems
        BY <1>1, <1>3, <1>5 DEF Last
    <2>2. ASSUME NEW i \in 1..n PROVE st[i] \in Nat /\ st[i] <= st[n]
        <3>4. st[i] \in Elems
            BY <1>1
        <3>1. st[i] \in Nat /\ st[n] \in Nat
            BY <1>2, <2>1, <3>4
        <3>2. i = n \/ i < n
            BY <2>1
        <3>3. i < n => st[i] < st[n]
            BY <1>1, <2>1
        <3> QED
            BY <3>1, <3>2, <3>3
    <2>3. f \in Seq(Elems) /\ Len(f) = n - 1 /\ \A i \in 1..(n - 1) : f[i] = st[i]
        <3>1. f = SubSeq(st, 1, n - 1)
            BY DEF Front
        <3>2. \A i \in 1..(n - 1) : st[i] \in Elems
            BY <1>1, <2>1
        <3>3. n - 1 \in Nat
            BY <2>1
        <3> HIDE DEF f
        <3>4. f = [i \in 1..(n - 1) |-> st[i]]
            BY <1>1, <2>1, <3>1
        <3> HIDE DEF n
        <3> QED
            BY <3>2, <3>3, <3>4
    <2>4. \A i \in 1..(n - 1) : st[i] # st[n]
        BY <1>1, <2>1, <2>2
    <2> HIDE DEF f
    <2>5. x \ {st[n]} = {f[i] : i \in 1..Len(f)}
        BY <1>1, <2>1, <2>3, <2>4
    <2>6. \A i, j \in 1..Len(f) : i < j => f[i] < f[j]
        BY <1>1, <2>1, <2>3
    <2>7. Stack(f, x \ {st[n]})
        BY <2>3, <2>5, <2>6 DEF Stack
    <2> QED
        BY <1>1, <2>1, <2>2, <2>7 DEF f
<1>6. ASSUME NEW v \in Elems, \A u \in x : u < v
      PROVE  Stack(Append(st, v), x \cup {v})
    <2> DEFINE n == Len(st)
               f == Append(st, v)
    <2>1. f \in Seq(Elems) /\ Len(f) = n + 1 /\ f[n + 1] = v /\ \A i \in 1..n : f[i] = st[i]
        BY <1>1
    <2>2. n \in Nat
        BY <1>1
    <2> HIDE DEF f
    <2>3. x \cup {v} = {f[i] : i \in 1..Len(f)}
        BY <1>1, <2>1, <2>2
    <2>4. ASSUME NEW i \in 1..Len(f), NEW j \in 1..Len(f), i < j
          PROVE  f[i] < f[j]
        <3>1. CASE j = n + 1
            BY <1>1, <1>6, <2>1, <2>2, <2>4, <3>1
        <3>2. CASE j # n + 1
            BY <1>1, <2>1, <2>2, <2>4, <3>2
        <3> QED
            BY <3>1, <3>2
    <2>5. Stack(f, x \cup {v})
        BY <2>1, <2>3, <2>4 DEF Stack
    <2> QED
        BY <2>5 DEF f
<1> QED
    BY <1>3, <1>4, <1>5, <1>6

\* A node and its children.
Node(S, f, v) ==
    /\ v \in S /\ v \in Elems /\ v \in Nat
    /\ \A w \in Support(f) : v <= w
    /\ \A w \in Support(Lo(f)) \cup Support(Hi(f)) : v < w
    /\ Lo(f) \in Families(S \ {v}) /\ Hi(f) \in Families(S \ {v})
    /\ Hi(f) # Empty
    /\ \A t : t \in Lo(f) <=> t \in f /\ v \notin t
    /\ \A t : t \in Hi(f) <=> t \cup {v} \in f /\ v \notin t
    /\ \A t \in f : v \in t => t \ {v} \in Hi(f) /\ (t \ {v}) \cup {v} = t

LEMMA NodeFacts ==
    ASSUME NEW S \in SUBSET Elems, NEW f \in Families(S), f # Empty, f # Unit,
           NEW v, v = Top(f)
    PROVE  Node(S, f, v)
<1>1. f \in Families(Elems) /\ Elems \in SUBSET Nat
    BY LevelAssumption DEF Families, Elems
<1>2. v \in Support(f) /\ v \in Elems /\ \A w \in Support(f) : v <= w
    BY <1>1, TopFacts
<1>3. v \in S /\ v \in Nat
    BY <1>1, <1>2, SupportFacts
<1>4. Lo(f) = OffSet(f, v) /\ Hi(f) = OnSet0(f, v)
    BY DEF Lo, Hi
<1>5. Lo(f) \in Families(S \ {v}) /\ Hi(f) \in Families(S \ {v})
    BY <1>4, CofactorFacts
<1>6. Support(Lo(f)) \subseteq Support(f) \ {v} /\ Support(Hi(f)) \subseteq Support(f) \ {v}
    BY <1>4, <1>5, CofactorFacts DEF Support, Families
<1>7. \A w \in Support(Lo(f)) \cup Support(Hi(f)) : v < w
    <2>1. ASSUME NEW w \in Support(f) \ {v} PROVE v < w
        <3>1. w \in Elems /\ v <= w /\ w # v
            BY <1>1, <1>2, SupportFacts
        <3> QED
            BY <1>1, <1>2, <3>1
    <2> QED
        BY <1>6, <2>1
<1>8. \A t : t \in Lo(f) <=> t \in f /\ v \notin t
    BY <1>4, OffSetIn
<1>9. \A t : t \in Hi(f) <=> t \cup {v} \in f /\ v \notin t
    BY <1>4, OnSet0In
<1>10. \A t \in f : v \in t => t \ {v} \in Hi(f) /\ (t \ {v}) \cup {v} = t
    BY <1>4, OnSet0Has
<1>11. Hi(f) # Empty
    <2>1. PICK s \in f : v \in s
        BY <1>2 DEF Support
    <2> QED
        BY <1>10, <2>1 DEF Empty
<1> QED
    BY <1>2, <1>3, <1>5, <1>7, <1>8, <1>9, <1>10, <1>11 DEF Node

\* In a family, the sets with the top variable come before the others, in the
\* order of the sets of the 1-edge.
LEMMA NodeOrder ==
    ASSUME NEW S \in SUBSET Elems, NEW f \in Families(S), f # Empty, f # Unit,
           NEW v, v = Top(f)
    PROVE  /\ \A s \in Hi(f), t \in Lo(f) : Before(s \cup {v}, t) /\ ~Before(t, s \cup {v})
           /\ \A s, t \in Hi(f) : Before(s \cup {v}, t \cup {v}) <=> Before(s, t)
<1>1. f \in Families(Support(f)) /\ Support(f) \in SUBSET Elems
    BY DEF Families, Support
<1>5. Node(Support(f), f, v)
    BY <1>1, NodeFacts
<1>2. v \in Support(f) /\ \A w \in Support(f) : v <= w
    BY <1>5 DEF Node
<1>3. Lo(f) \in Families(Support(f) \ {v}) /\ Hi(f) \in Families(Support(f) \ {v})
    BY <1>5 DEF Node
<1>4. \A s \in Lo(f) \cup Hi(f) : s \in SUBSET (Support(f) \ {v})
    BY <1>3 DEF Families
<1> QED
    BY <1>1, <1>2, <1>4, BeforeSplit

\* The sets of f after s; all of them after the start, which is {}.
After(f, s) == {t \in f : s = {} \/ Before(s, t)}

\* What choose() returns in a node of the family f, with pre above the node and
\* s, a set of f or {}, from the node on.
Picked(after, pre, r) ==
    IF after = {}
    THEN r.found = FALSE /\ Stack(r.stack, pre)
    ELSE /\ r.found = TRUE
         /\ \E t \in after : /\ Stack(r.stack, pre \cup t)
                             /\ \A x \in after : x = t \/ Before(t, x)
Chosen(f, pre, s, r) == Picked(After(f, s), pre, r)

Fits(f, pre, s) ==
    /\ s = {} \/ s \in f
    /\ \A p \in pre : \A q \in Support(f) : p < q

ChoosesOn(inner, S) ==
    \A a \in Families(S) : \A pre, s, st :
        Fits(a, pre, s) /\ Stack(st, pre \cup s) => Chosen(a, pre, s, inner[<<a, st>>])

\* What is before and after a set, by the node.
Lifted(f, v) == {t \cup {v} : t \in f}
LEMMA AfterSplit ==
    ASSUME NEW S \in SUBSET Elems, NEW f \in Families(S), f # Empty, f # Unit,
           NEW v, v = Top(f)
    PROVE  /\ After(f, {}) = f
           /\ \A s \in Lo(f) : s # {} => After(f, s) = After(Lo(f), s)
           /\ After(f, {v}) = Lo(f)
           /\ \A s \in Hi(f) : s # {} =>
                After(f, s \cup {v}) = Lifted(After(Hi(f), s), v) \cup Lo(f)
<1>1. After(f, {}) = f
    BY DEF After
<1>0. Node(S, f, v)
    BY NodeFacts
<1>2. ASSUME NEW s \in Lo(f), s # {} PROVE After(f, s) = After(Lo(f), s)
    <2>1. ASSUME NEW t \in f, Before(s, t) PROVE t \in Lo(f)
        <3>1. CASE v \in t
            <4>1. t \ {v} \in Hi(f) /\ t = (t \ {v}) \cup {v}
                BY <1>0, <3>1 DEF Node
            <4> QED
                BY <2>1, <4>1, NodeOrder
        <3>2. CASE v \notin t
            BY <1>0, <3>2 DEF Node
        <3> QED
            BY <3>1, <3>2
    <2>2. \A t \in Lo(f) : t \in f
        BY <1>0 DEF Node
    <2> QED
        BY <1>2, <2>1, <2>2 DEF After
<1>3. \A s \in Hi(f), t \in Hi(f) : Before(s \cup {v}, t \cup {v}) <=> Before(s, t)
    BY NodeOrder
<1>4. \A s \in Hi(f), t \in Lo(f) : Before(s \cup {v}, t)
    BY NodeOrder
<1>5. \A t : t \in Lo(f) <=> t \in f /\ v \notin t
    BY <1>0 DEF Node
<1>6. \A t \in f : v \in t => t \ {v} \in Hi(f) /\ (t \ {v}) \cup {v} = t
    BY <1>0 DEF Node
<1>7. \A t \in Hi(f) : t \cup {v} \in f
    BY <1>0 DEF Node
<1>8. v \in Elems /\ \A t \in f : t \in SUBSET Elems
    BY <1>0 DEF Node, Families
<1>9. After(f, {v}) = Lo(f)
    <2>1. ASSUME NEW t \in f, v \in t PROVE ~Before({v}, t)
        BY <2>1 DEF Before
    <2>2. ASSUME NEW t \in Lo(f) PROVE Before({v}, t)
        <3>1. v \in {v} \ t
            BY <1>5
        <3>2. \A u \in Elems : u < v => u \notin t /\ u # v
            <4>1. \A w \in Support(Lo(f)) : v < w
                BY <1>0 DEF Node
            <4>2. \A u \in t : v < u
                BY <4>1 DEF Support
            <4>3. v \in Nat /\ Elems \in SUBSET Nat
                BY <1>8, LevelAssumption DEF Elems
            <4> QED
                BY <4>2, <4>3
        <3> QED
            BY <3>1, <3>2 DEF Before
    <2>3. {v} # {}
        OBVIOUS
    <2> QED
        BY <1>5, <2>1, <2>2, <2>3 DEF After
<1>10. ASSUME NEW s \in Hi(f), s # {}
       PROVE  After(f, s \cup {v}) = {t \cup {v} : t \in After(Hi(f), s)} \cup Lo(f)
    <2> DEFINE X == After(f, s \cup {v})
               Y == {t \cup {v} : t \in After(Hi(f), s)} \cup Lo(f)
    <2>1. \A t : t \in X <=> t \in f /\ Before(s \cup {v}, t)
        BY DEF After
    <2>2. \A t : t \in After(Hi(f), s) <=> t \in Hi(f) /\ Before(s, t)
        BY <1>10 DEF After
    <2>3. ASSUME NEW t \in X PROVE t \in Y
        <3>1. CASE v \in t
            <4> DEFINE u == t \ {v}
            <4>2. u \in Hi(f) /\ t = u \cup {v} /\ Before(s \cup {v}, t)
                BY <1>6, <2>1, <3>1
            <4> HIDE DEF u, X, Y
            <4>3. Before(s, u)
                BY <1>3, <1>10, <4>2
            <4>1. u \in After(Hi(f), s) /\ t = u \cup {v}
                BY <2>2, <4>2, <4>3
            <4> USE DEF Y
            <4> QED
                BY <4>1
        <3>2. CASE v \notin t
            BY <1>5, <2>1, <3>2
        <3> QED
            BY <3>1, <3>2
    <2>4. ASSUME NEW t \in After(Hi(f), s) PROVE t \cup {v} \in X
        BY <1>3, <1>7, <2>1, <2>2
    <2>5. ASSUME NEW t \in Lo(f) PROVE t \in X
        BY <1>4, <1>5, <2>1
    <2> QED
        BY <2>3, <2>4, <2>5
<1> QED
    BY <1>1, <1>2, <1>9, <1>10 DEF Lifted

\* The pieces of choose().
ZeroEdge(inner, f, st) == IF Lo(f) # Empty THEN inner[<<Lo(f), st>>] ELSE NotFound(st)
Back(inner, f, st) ==
    IF st # <<>> /\ Last(st) = Top(f) THEN ZeroEdge(inner, f, Front(st)) ELSE NotFound(st)
OneEdge(inner, f, st) ==
    LET r == inner[<<Hi(f), st>>] IN IF r.found THEN r ELSE Back(inner, f, r.stack)

LEMMA ChooseCases ==
    ASSUME NEW inner, NEW f, NEW st, f # Empty, f # Unit
    PROVE  ChooseStep(inner, f, st) =
                IF st = <<>> \/ Top(f) > Last(st) THEN OneEdge(inner, f, Append(st, Top(f)))
                ELSE IF ~Contains(st, Top(f)) THEN ZeroEdge(inner, f, st)
                ELSE IF Top(f) # Last(st) THEN OneEdge(inner, f, st)
                ELSE Back(inner, f, st)
    BY Zenon DEF ChooseStep, OneEdge, Back, ZeroEdge

\* Going on with the 0-edge, once nothing of the family is on the stack.
LEMMA ZeroRight ==
    ASSUME NEW S \in SUBSET Elems, NEW f \in Families(S), f # Empty, f # Unit,
           NEW v, v = Top(f), NEW inner, ChoosesOn(inner, S \ {v}),
           NEW pre, \A p \in pre : \A q \in Support(f) : p < q, NEW st, Stack(st, pre)
    PROVE  Chosen(Lo(f), pre, {}, ZeroEdge(inner, f, st))
<1>0. Node(S, f, v)
    BY NodeFacts
<1>1. Lo(f) \in Families(S \ {v}) /\ Support(Lo(f)) \subseteq Support(f)
    <2>1. \A t \in Lo(f) : t \in f
        BY <1>0 DEF Node
    <2> QED
        BY <1>0, <2>1 DEF Node, Support
<1>2. Fits(Lo(f), pre, {}) /\ Stack(st, pre \cup {})
    BY <1>1 DEF Fits
<1>3. CASE Lo(f) # Empty
    BY <1>1, <1>2, <1>3 DEF ZeroEdge, ChoosesOn
<1>4. CASE Lo(f) = Empty
    <2>1. After(Lo(f), {}) = {}
        BY <1>4 DEF After, Empty
    <2>2. NotFound(st).found = FALSE /\ NotFound(st).stack = st
        BY DEF NotFound
    <2> QED
        BY <1>4, <2>1, <2>2 DEF Chosen, Picked, ZeroEdge
<1> QED
    BY <1>3, <1>4

\* Going back from the 1-edge.
LEMMA BackRight ==
    ASSUME NEW S \in SUBSET Elems, NEW f \in Families(S), f # Empty, f # Unit,
           NEW v, v = Top(f), NEW inner, ChoosesOn(inner, S \ {v}),
           NEW pre, \A p \in pre : \A q \in Support(f) : p < q,
           NEW st, Stack(st, pre \cup {v})
    PROVE  Chosen(Lo(f), pre, {}, Back(inner, f, st))
<1>0. Node(S, f, v)
    BY NodeFacts
<1>1. v \in Support(f) /\ f \in Families(Elems)
    BY TopFacts DEF Families
<1>2. \A p \in pre : p < v
    BY <1>1
<1>3. pre \cup {v} \in SUBSET Elems /\ Elems \in SUBSET Nat
    <2>1. pre \cup {v} \in SUBSET Elems
        BY StackFacts
    <2> QED
        BY <2>1, LevelAssumption DEF Elems
<1>4. v \notin pre /\ \A p \in pre : ~(v <= p)
    <2>1. v \in Nat /\ \A p \in pre : p \in Nat
        BY <1>3
    <2>2. ASSUME NEW p \in pre PROVE p # v /\ ~(v <= p)
        BY <1>2, <2>1
    <2> QED
        BY <2>2
<1>5. pre \cup {v} # {}
    OBVIOUS
<1>6. /\ st # <<>>
      /\ Last(st) \in pre \cup {v}
      /\ \A u \in pre \cup {v} : u <= Last(st)
      /\ Stack(Front(st), (pre \cup {v}) \ {Last(st)})
    BY <1>5, StackFacts
<1>7. Last(st) = v
    BY <1>4, <1>6
<1>8. (pre \cup {v}) \ {v} = pre
    BY <1>4
<1>9. Stack(Front(st), pre)
    BY <1>6, <1>7, <1>8
<1>10. Back(inner, f, st) = ZeroEdge(inner, f, Front(st))
    BY <1>6, <1>7 DEF Back
<1> QED
    BY <1>9, <1>10, ZeroRight

\* The 1-edge and then, if it leads to nothing, the 0-edge: s is what of the
\* 1-edge is on the stack.
LEMMA OneRight ==
    ASSUME NEW S \in SUBSET Elems, NEW f \in Families(S), f # Empty, f # Unit,
           NEW v, v = Top(f), NEW inner, ChoosesOn(inner, S \ {v}),
           NEW pre, \A p \in pre : \A q \in Support(f) : p < q,
           NEW s, s = {} \/ s \in Hi(f), NEW st, Stack(st, (pre \cup {v}) \cup s),
           NEW r, r = OneEdge(inner, f, st)
    PROVE  Picked(Lifted(After(Hi(f), s), v) \cup Lo(f), pre, r)
<1> DEFINE after == {t \cup {v} : t \in After(Hi(f), s)} \cup Lo(f)
<1> SUFFICES Picked(after, pre, r)
    BY DEF Lifted
<1>0. Node(S, f, v)
    BY NodeFacts
<1>1. v \in Support(f) /\ f \in Families(Elems)
    BY TopFacts DEF Families
<1> DEFINE a == inner[<<Hi(f), st>>]
<1>2. r = IF a.found THEN a ELSE Back(inner, f, a.stack)
    BY DEF OneEdge
<1> HIDE DEF a
<1>3. Hi(f) \in Families(S \ {v})
    BY <1>0 DEF Node
<1>4. Fits(Hi(f), pre \cup {v}, s)
    <2>1. \A q \in Support(Hi(f)) : v < q
        BY <1>0 DEF Node
    <2>2. \A q \in Support(Hi(f)) : q \in Support(f)
        <3>1. \A t \in Hi(f) : t \cup {v} \in f
            BY <1>0 DEF Node
        <3> QED
            BY <3>1 DEF Support
    <2> QED
        BY <2>1, <2>2 DEF Fits
<1>5. Chosen(Hi(f), pre \cup {v}, s, a)
    BY <1>3, <1>4 DEF ChoosesOn, a
<1>6. \A x \in After(Hi(f), s) : x \in Hi(f)
    BY DEF After
<1>7. CASE After(Hi(f), s) = {}
    <2>1. a.found = FALSE /\ Stack(a.stack, pre \cup {v})
        BY <1>5, <1>7 DEF Chosen, Picked
    <2>2. r = Back(inner, f, a.stack)
        BY <1>2, <2>1
    <2>3. Chosen(Lo(f), pre, {}, r)
        BY <2>1, <2>2, BackRight
    <2>4. after = Lo(f) /\ After(Lo(f), {}) = Lo(f)
        BY <1>7 DEF After
    <2> HIDE DEF after
    <2> QED
        BY <2>3, <2>4 DEF Chosen
<1>8. CASE After(Hi(f), s) # {}
    <2>1. a.found = TRUE
        BY <1>5, <1>8 DEF Chosen, Picked
    <2>2. PICK t \in After(Hi(f), s) :
            /\ Stack(a.stack, (pre \cup {v}) \cup t)
            /\ \A x \in After(Hi(f), s) : x = t \/ Before(t, x)
        BY <1>5, <1>8 DEF Chosen, Picked
    <2>3. r = a
        BY <1>2, <2>1
    <2>4. t \cup {v} \in after
        OBVIOUS
    <2>5. (pre \cup {v}) \cup t = pre \cup (t \cup {v})
        OBVIOUS
    <2>6. ASSUME NEW x \in after PROVE x = t \cup {v} \/ Before(t \cup {v}, x)
        <3>1. CASE x \in Lo(f)
            BY <1>6, <3>1, NodeOrder
        <3>2. ASSUME NEW y \in After(Hi(f), s), x = y \cup {v}
              PROVE  x = t \cup {v} \/ Before(t \cup {v}, x)
            <4>1. CASE y = t
                BY <3>2, <4>1
            <4>2. CASE Before(t, y)
                BY <1>6, <3>2, <4>2, NodeOrder
            <4> QED
                BY <2>2, <4>1, <4>2
        <3> QED
            BY <3>1, <3>2
    <2>7. Stack(r.stack, pre \cup (t \cup {v})) /\ r.found = TRUE /\ after # {}
        BY <2>1, <2>2, <2>3, <2>4, <2>5
    <2> HIDE DEF after
    <2> QED
        BY <2>4, <2>6, <2>7 DEF Picked
<1> QED
    BY <1>7, <1>8

LEMMA ChooseSteps ==
    ASSUME NEW S \in SUBSET Elems, NEW f \in Families(S),
           NEW inner, \A t \in S : ChoosesOn(inner, S \ {t}),
           NEW pre, NEW s, Fits(f, pre, s), NEW st, Stack(st, pre \cup s)
    PROVE  Chosen(f, pre, s, ChooseStep(inner, f, st))
<1>1. CASE f = Empty
    <2>1. ChooseStep(inner, f, st) = NotFound(st) /\ s = {}
        BY <1>1, EmptyUnit DEF ChooseStep, Fits, Empty
    <2>2. After(f, s) = {} /\ NotFound(st).found = FALSE /\ NotFound(st).stack = st
        BY <1>1 DEF After, Empty, NotFound
    <2>3. Stack(st, pre)
        <3>1. pre \cup s = pre
            BY <2>1
        <3> QED
            BY <3>1
    <2> QED
        BY <2>1, <2>2, <2>3 DEF Chosen, Picked
<1>2. CASE f = Unit
    <2>1. ChooseStep(inner, f, st) = Found(st)
        BY <1>2, EmptyUnit, Zenon DEF ChooseStep
    <2>2. s = {} /\ After(f, s) = {{}}
        BY <1>2 DEF After, Unit, Fits
    <2>3. Found(st).found = TRUE /\ Found(st).stack = st
        BY DEF Found
    <2> QED
        BY <2>1, <2>2, <2>3 DEF Chosen, Picked
<1>3. CASE f # Empty /\ f # Unit
    <2> DEFINE v == Top(f)
               r == ChooseStep(inner, f, st)
    <2>0. Node(S, f, v)
        BY <1>3, NodeFacts
    <2>1. v \in S /\ v \in Elems /\ v \in Nat /\ Elems \in SUBSET Nat /\ v \in Support(f)
        <3>1. f \in Families(Elems)
            BY DEF Families
        <3> QED
            BY <1>3, <2>0, <3>1, TopFacts, LevelAssumption DEF Node, Elems
    <2>2. ChoosesOn(inner, S \ {v})
        BY <2>1
    <2>3. \A p \in pre : \A q \in Support(f) : p < q
        BY DEF Fits
    <2>4. \A p \in pre : p < v
        BY <2>1, <2>3
    <2>5. r = IF st = <<>> \/ v > Last(st) THEN OneEdge(inner, f, Append(st, v))
              ELSE IF ~Contains(st, v) THEN ZeroEdge(inner, f, st)
              ELSE IF v # Last(st) THEN OneEdge(inner, f, st)
              ELSE Back(inner, f, st)
        BY <1>3, ChooseCases, Zenon
    <2>6. pre \cup s \in SUBSET Elems
        BY StackFacts
    <2> HIDE DEF r
    <2>7. CASE s = {}
        <3>1. Stack(st, pre)
            <4>1. pre \cup s = pre
                BY <2>7
            <4> QED
                BY <4>1
        <3>2. st = <<>> \/ v > Last(st)
            <4>1. st # <<>> => Last(st) \in pre
                BY <3>1, StackFacts
            <4> QED
                BY <2>1, <2>4, <2>6, <4>1
        <3>3. r = OneEdge(inner, f, Append(st, v))
            BY <2>5, <3>2
        <3>4. Stack(Append(st, v), pre \cup {v})
            BY <2>1, <2>4, <3>1, StackFacts
        <3> DEFINE after == Lifted(After(Hi(f), {}), v) \cup Lo(f)
        <3>5. (pre \cup {v}) \cup {} = pre \cup {v}
            OBVIOUS
        <3>6. after = f /\ After(f, s) = f
            <4>1. After(Hi(f), {}) = Hi(f) /\ After(f, {}) = f
                BY DEF After
            <4>2. ASSUME NEW t \in f PROVE t \in after
                <5>1. CASE v \in t
                    <6>1. t \ {v} \in Hi(f) /\ (t \ {v}) \cup {v} = t
                        BY <2>0, <5>1 DEF Node
                    <6>2. t \in Lifted(Hi(f), v)
                        BY <6>1 DEF Lifted
                    <6> QED
                        BY <4>1, <6>2
                <5>2. CASE v \notin t
                    BY <2>0, <5>2 DEF Node
                <5> QED
                    BY <5>1, <5>2
            <4>3. \A t \in after : t \in f
                BY <2>0, <4>1 DEF Node, Lifted
            <4> HIDE DEF after
            <4> QED
                BY <2>7, <4>1, <4>2, <4>3
        <3>7. Picked(after, pre, r)
            BY <1>3, <2>2, <2>3, <3>3, <3>4, <3>5, OneRight
        <3> HIDE DEF after
        <3> QED
            BY <3>6, <3>7 DEF Chosen, r
    <2>8. CASE s # {}
        <3>0. s \in f /\ pre \cup s # {} /\ \A u \in s : u \in Support(f) /\ v <= u
            <4>1. s \in f
                BY <2>8 DEF Fits
            <4>2. \A u \in s : u \in Support(f)
                BY <4>1 DEF Support
            <4> QED
                BY <2>0, <2>8, <4>1, <4>2 DEF Node
        <3>1. st # <<>> /\ Last(st) \in pre \cup s /\ \A u \in pre \cup s : u <= Last(st)
            BY <3>0, StackFacts
        <3>2. Last(st) \in s /\ v <= Last(st) /\ Last(st) \in Nat
            <4>1. PICK u \in s : TRUE
                BY <2>8
            <4>2. Last(st) \in Nat /\ u \in Nat /\ v <= u /\ u <= Last(st)
                BY <2>1, <2>6, <3>0, <3>1
            <4>3. Last(st) \notin pre
                BY <2>1, <2>4, <4>2
            <4> QED
                BY <2>1, <3>1, <4>2, <4>3
        <3>3. ~(v > Last(st)) /\ (Contains(st, v) <=> v \in s)
            <4>1. v \notin pre
                BY <2>1, <2>4
            <4>2. Contains(st, v) <=> v \in pre \cup s
                BY StackFacts
            <4> QED
                BY <2>1, <3>2, <4>1, <4>2
        <3>4. CASE v \notin s
            <4>1. r = ZeroEdge(inner, f, st)
                BY <2>5, <3>1, <3>3, <3>4
            <4>2. s \in Lo(f) /\ Lo(f) # Empty
                BY <2>0, <3>0, <3>4 DEF Node, Empty
            <4>3. r = inner[<<Lo(f), st>>]
                BY <4>1, <4>2 DEF ZeroEdge
            <4>4. Fits(Lo(f), pre, s) /\ Lo(f) \in Families(S \ {v})
                <5>1. \A t \in Lo(f) : t \in f
                    BY <2>0 DEF Node
                <5>2. \A q \in Support(Lo(f)) : q \in Support(f)
                    BY <5>1 DEF Support
                <5> QED
                    BY <2>0, <2>3, <4>2, <5>2 DEF Node, Fits
            <4>5. Chosen(Lo(f), pre, s, r)
                BY <2>2, <4>3, <4>4 DEF ChoosesOn
            <4>6. After(f, s) = After(Lo(f), s)
                BY <1>3, <2>8, <4>2, AfterSplit
            <4> QED
                BY <4>5, <4>6 DEF Chosen, r
        <3>5. CASE v \in s /\ v # Last(st)
            <4>1. r = OneEdge(inner, f, st)
                BY <2>5, <3>1, <3>3, <3>5
            <4> DEFINE x == s \ {v}
                       after == Lifted(After(Hi(f), x), v) \cup Lo(f)
            <4>2. x \in Hi(f) /\ x \cup {v} = s /\ x # {}
                BY <2>0, <3>0, <3>2, <3>5 DEF Node
            <4>3. (pre \cup {v}) \cup x = pre \cup s
                BY <3>5
            <4>4. Stack(st, (pre \cup {v}) \cup x)
                BY <4>3
            <4> HIDE DEF x
            <4>5. After(f, s) = after
                <5>1. After(f, x \cup {v}) = after
                    BY <1>3, <4>2, AfterSplit
                <5> QED
                    BY <4>2, <5>1
            <4>6. Picked(after, pre, r)
                BY <1>3, <2>2, <2>3, <4>1, <4>2, <4>4, OneRight
            <4> HIDE DEF after
            <4> QED
                BY <4>5, <4>6 DEF Chosen, r
        <3>6. CASE v \in s /\ v = Last(st)
            <4>1. r = Back(inner, f, st)
                BY <2>5, <3>1, <3>3, <3>6
            <4>2. s = {v}
                <5>1. \A u \in s : u \in Nat /\ v <= u /\ u <= v
                    BY <2>1, <2>6, <3>0, <3>1, <3>6
                <5>2. \A u \in s : u = v
                    BY <2>1, <5>1
                <5> QED
                    BY <3>6, <5>2
            <4>3. Chosen(Lo(f), pre, {}, r)
                BY <1>3, <2>2, <2>3, <4>1, <4>2, BackRight
            <4>4. After(f, s) = Lo(f) /\ After(Lo(f), {}) = Lo(f)
                <5>1. After(f, {v}) = Lo(f)
                    BY <1>3, AfterSplit
                <5> QED
                    BY <4>2, <5>1 DEF After
            <4> QED
                BY <4>3, <4>4 DEF Chosen, r
        <3> QED
            BY <3>4, <3>5, <3>6
    <2> QED
        BY <2>7, <2>8
<1> QED
    BY <1>1, <1>2, <1>3

\* choose() is defined for every stack: it goes down.
Stacks == [found : BOOLEAN, stack : Seq(Elems)]
Lower(q, p) == \E t \in Support(p[1]) : Support(q[1]) \subseteq Support(p[1]) \ {t}
SameBelow(D, g, h, p) == \A q \in D : Lower(q, p) => g[q] = h[q]

LEMMA ChooseInner ==
    ASSUME NEW V \in SUBSET Elems, NEW D, D = Families(V) \X Seq(Elems),
           NEW p \in D, NEW g \in [D -> Stacks]
    PROVE  /\ ChooseStep(g, p[1], p[2]) \in Stacks
           /\ \A h \in [D -> Stacks] :
                SameBelow(D, g, h, p) => ChooseStep(g, p[1], p[2]) = ChooseStep(h, p[1], p[2])
<1> DEFINE f == p[1]
           st == p[2]
<1>1. f \in Families(V) /\ st \in Seq(Elems) /\ f \in Families(Elems)
    BY DEF Families
<1>2. \A x \in Seq(Elems) : Found(x) \in Stacks /\ NotFound(x) \in Stacks
    BY DEF Stacks, Found, NotFound
<1>3. \A x \in Seq(Elems) : x # <<>> => Front(x) \in Seq(Elems)
    BY DEF Front
<1> HIDE DEF f, st
<1>4. CASE f = Empty \/ f = Unit
    <2>1. f = Empty => \A h : ChooseStep(h, f, st) = NotFound(st)
        BY EmptyUnit, Zenon DEF ChooseStep
    <2>2. f = Unit => \A h : ChooseStep(h, f, st) = Found(st)
        BY EmptyUnit, Zenon DEF ChooseStep
    <2>3. \A h : ChooseStep(g, f, st) = ChooseStep(h, f, st)
        BY <1>4, <2>1, <2>2
    <2>4. ChooseStep(g, f, st) \in Stacks
        BY <1>1, <1>2, <1>4, <2>1, <2>2
    <2> QED
        BY <2>3, <2>4 DEF f, st
<1>5. CASE f # Empty /\ f # Unit
    <2> DEFINE v == Top(f)
    <2>1. Node(V, f, v)
        BY <1>1, <1>5, NodeFacts
    <2>2. v \in Elems /\ Lo(f) \in Families(V) /\ Hi(f) \in Families(V)
        BY <2>1 DEF Node, Families
    <2>3. \A x \in Seq(Elems) : Append(x, v) \in Seq(Elems)
        BY <2>2
    <2>4. \A x \in Seq(Elems) : <<Lo(f), x>> \in D /\ <<Hi(f), x>> \in D
        BY <2>2
    <2>5. v \in Support(f)
        BY <1>1, <1>5, TopFacts
    <2>6. \A q \in D : q[1] = Lo(f) \/ q[1] = Hi(f) => Support(q[1]) \subseteq Support(f) \ {v}
        <3>1. v \in Nat /\ \A w \in Support(Lo(f)) \cup Support(Hi(f)) : v < w
            BY <2>1 DEF Node
        <3>2. v \notin Support(Lo(f)) /\ v \notin Support(Hi(f))
            BY <3>1
        <3>3. Support(Lo(f)) \subseteq Support(f) /\ Support(Hi(f)) \subseteq Support(f)
            BY <1>1, CofactorFacts DEF Lo, Hi
        <3> QED
            BY <3>2, <3>3
    <2>7. \A h : ChooseStep(h, f, st) =
                IF st = <<>> \/ v > Last(st) THEN OneEdge(h, f, Append(st, v))
                ELSE IF ~Contains(st, v) THEN ZeroEdge(h, f, st)
                ELSE IF v # Last(st) THEN OneEdge(h, f, st)
                ELSE Back(h, f, st)
        BY <1>5, ChooseCases, Zenon
    <2> HIDE DEF v
    <2>8. \A x \in Seq(Elems) : g[<<Lo(f), x>>] \in Stacks /\ g[<<Hi(f), x>>] \in Stacks
        BY <2>4
    <2>9. \A x \in Seq(Elems) : ZeroEdge(g, f, x) \in Stacks
        BY <1>2, <2>8 DEF ZeroEdge
    <2>10. \A x \in Seq(Elems) : Back(g, f, x) \in Stacks
        BY <1>2, <1>3, <2>9 DEF Back
    <2>11. \A r \in Stacks : r.stack \in Seq(Elems)
        BY DEF Stacks
    <2>12. \A x \in Seq(Elems) : OneEdge(g, f, x) \in Stacks
        BY <2>8, <2>10, <2>11 DEF OneEdge
    <2>13. ChooseStep(g, f, st) \in Stacks
        BY <1>1, <2>3, <2>7, <2>9, <2>10, <2>12
    <2>14. ASSUME NEW h \in [D -> Stacks],
                  SameBelow(D, g, h, p)
           PROVE  ChooseStep(g, f, st) = ChooseStep(h, f, st)
        <3>1. \A x \in Seq(Elems) : /\ g[<<Lo(f), x>>] = h[<<Lo(f), x>>]
                                    /\ g[<<Hi(f), x>>] = h[<<Hi(f), x>>]
            <4>1. ASSUME NEW q \in D, q[1] = Lo(f) \/ q[1] = Hi(f) PROVE g[q] = h[q]
                BY <2>5, <2>6, <2>14, <4>1 DEF SameBelow, Lower, f
            <4>2. \A x : <<Lo(f), x>>[1] = Lo(f) /\ <<Hi(f), x>>[1] = Hi(f)
                OBVIOUS
            <4> QED
                BY <2>4, <4>1, <4>2
        <3>2. \A x \in Seq(Elems) : ZeroEdge(g, f, x) = ZeroEdge(h, f, x)
            BY <3>1 DEF ZeroEdge
        <3>3. \A x \in Seq(Elems) : Back(g, f, x) = Back(h, f, x)
            BY <1>3, <3>2 DEF Back
        <3>4. \A x \in Seq(Elems) : OneEdge(g, f, x) = OneEdge(h, f, x)
            BY <2>8, <2>11, <3>1, <3>3 DEF OneEdge
        <3> QED
            BY <1>1, <2>3, <2>7, <3>2, <3>3, <3>4
    <2> QED
        BY <2>13, <2>14 DEF f, st
<1> QED
    BY <1>4, <1>5

\* choose() gives the set after the one on the stack, or says there is none.
LEMMA ChooseIs ==
    ASSUME NEW f \in Families(Elems), NEW s, s = {} \/ s \in f, NEW st, Stack(st, s)
    PROVE  Chosen(f, {}, s, Choose(f, st))
<1> DEFINE V == Support(f)
           D == Over(f, f) \X Seq(Elems)
           R == Stacks
           supp == [p \in D |-> Support(p[1])]
           step == [x \in [D -> R] \X D |-> ChooseStep(x[1], x[2][1], x[2][2])]
           next == CHOOSE h : h = [p \in D |-> ChooseStep(h, p[1], p[2])]
<1>1. V \in SUBSET Elems /\ IsFiniteSet(V) /\ f \in Families(V) /\ Over(f, f) = Families(V)
    <2>1. V = Support(f) \cup Support(f)
        OBVIOUS
    <2> HIDE DEF V
    <2> QED
        BY <2>1, OperandFacts
<1>2. D = Families(V) \X Seq(Elems)
    BY <1>1
<1>3. R # {} /\ <<>> \in Seq(Elems)
    <2>1. <<>> \in Seq(Elems)
        OBVIOUS
    <2>2. [found |-> TRUE, stack |-> <<>>] \in Stacks
        BY <2>1 DEF Stacks
    <2> QED
        BY <2>1, <2>2
<1>10. Choose(f, st) = next[<<f, st>>]
    BY DEF Choose
<1> HIDE DEF V, D
<1>4. supp \in [D -> SUBSET V]
    BY <1>2 DEF Families, Support
<1>5. step \in [[D -> R] \X D -> R]
    BY <1>1, <1>2, ChooseInner
<1>6. Descends(D, R, step, supp)
    <2>1. ASSUME NEW g \in [D -> R], NEW h \in [D -> R], NEW p \in D,
                 \A q \in D : (\E t \in supp[p] : supp[q] \subseteq supp[p] \ {t}) => g[q] = h[q]
          PROVE  step[<<g, p>>] = step[<<h, p>>]
        <3>1. \A q \in D : supp[q] = Support(q[1])
            OBVIOUS
        <3> HIDE DEF supp
        <3>2. SameBelow(D, g, h, p)
            BY <2>1, <3>1 DEF SameBelow, Lower
        <3>3. ChooseStep(g, p[1], p[2]) = ChooseStep(h, p[1], p[2])
            BY <1>1, <1>2, <3>2, ChooseInner
        <3> QED
            BY <3>3
    <2> QED
        BY <2>1 DEF Descends
<1>7. \A h \in [D -> R], p \in D : step[<<h, p>>] = ChooseStep(h, p[1], p[2])
    OBVIOUS
<1> HIDE DEF R, step, supp
<1>8. Solvable(D, R, step)
    BY <1>1, <1>3, <1>4, <1>5, <1>6, SupportRecursion
<1>9. PICK h \in [D -> R] : \A p \in D : h[p] = step[<<h, p>>]
    BY <1>8 DEF Solvable
<1>11. h = [p \in D |-> ChooseStep(h, p[1], p[2])]
    BY <1>7, <1>9
<1>12. next = [p \in D |-> ChooseStep(next, p[1], p[2])]
    BY <1>11, Zenon
<1> HIDE DEF next
<1>13. \A a \in Families(V), x \in Seq(Elems) : next[<<a, x>>] = ChooseStep(next, a, x)
    BY <1>2, <1>12
<1> DEFINE Good == {S \in SUBSET V : ChoosesOn(next, S)}
<1>14. ASSUME NEW S \in SUBSET V, \A t \in S : S \ {t} \in Good
       PROVE  S \in Good
    <2>1. \A t \in S : ChoosesOn(next, S \ {t})
        BY <1>14
    <2>2. S \in SUBSET Elems /\ Families(S) \subseteq Families(V)
        BY <1>1 DEF Families
    <2>3. ASSUME NEW a \in Families(S), NEW pre, NEW y, NEW z, Fits(a, pre, y), Stack(z, pre \cup y)
          PROVE  Chosen(a, pre, y, next[<<a, z>>])
        <3>1. Chosen(a, pre, y, ChooseStep(next, a, z))
            BY <2>1, <2>2, <2>3, ChooseSteps
        <3>2. z \in Seq(Elems)
            BY <2>3 DEF Stack
        <3> QED
            BY <1>13, <2>2, <3>1, <3>2
    <2>4. ChoosesOn(next, S)
        BY <2>3 DEF ChoosesOn
    <2> QED
        BY <2>4
<1> HIDE DEF Good
<1>15. V \in Good
    BY <1>1, <1>14, SetInduction
<1>16. ChoosesOn(next, V)
    BY <1>15 DEF Good
<1>17. Fits(f, {}, s) /\ Stack(st, {} \cup s)
    <2>1. {} \cup s = s
        OBVIOUS
    <2> QED
        BY <2>1 DEF Fits
<1>18. Chosen(f, {}, s, next[<<f, st>>])
    BY <1>1, <1>16, <1>17 DEF ChoosesOn
<1> QED
    BY <1>10, <1>18

\* sort() puts the elements of a set in rising order.
LEMMA SortedIs ==
    ASSUME NEW s \in SUBSET Elems
    PROVE  Stack(Sorted(s), s)
<1> DEFINE D == 0..NumElems
           R == Seq(Elems)
           F(h, e) == IF e = 0 THEN <<>> ELSE IF e \in s THEN Append(h[e - 1], e) ELSE h[e - 1]
           size == [e \in D |-> e]
           step == [x \in [D -> R] \X D |-> F(x[1], x[2])]
           upTo == CHOOSE h : h = [e \in D |-> F(h, e)]
<1>1. NumElems \in Nat /\ Elems = 1..NumElems
    BY LevelAssumption DEF Elems
<1>2. Sorted(s) = upTo[NumElems]
    BY DEF Sorted
<1>3. ASSUME NEW h \in [D -> R], NEW e \in D PROVE F(h, e) \in R
    <2>1. CASE e = 0
        BY <2>1
    <2>2. CASE e # 0
        <3>1. e - 1 \in D /\ e \in Elems
            BY <1>1, <2>2
        <3>2. h[e - 1] \in R
            BY <3>1
        <3> QED
            BY <2>2, <3>1, <3>2
    <2> QED
        BY <2>1, <2>2
<1>4. ASSUME NEW g \in [D -> R], NEW h \in [D -> R], NEW e \in D,
             \A q \in D : size[q] < size[e] => g[q] = h[q]
      PROVE  step[<<g, e>>] = step[<<h, e>>]
    <2>1. e # 0 => e - 1 \in D /\ size[e - 1] < size[e]
        BY <1>1
    <2>2. e # 0 => g[e - 1] = h[e - 1]
        BY <1>4, <2>1
    <2>3. F(g, e) = F(h, e)
        BY <2>2
    <2> HIDE DEF F
    <2> QED
        BY <2>3
<1>5. step \in [[D -> R] \X D -> R] /\ size \in [D -> 0..NumElems]
    BY <1>3
<1>6. Shrinks(D, R, step, size)
    BY <1>4 DEF Shrinks
<1>7. R # {}
    <2>1. <<>> \in R
        OBVIOUS
    <2> QED
        BY <2>1
<1>8. \A h \in [D -> R], e \in D : step[<<h, e>>] = F(h, e)
    OBVIOUS
<1> HIDE DEF R, step, size, F
<1>9. Solvable(D, R, step)
    <2> HIDE DEF D
    <2> QED
        BY <1>1, <1>5, <1>6, <1>7, Recursion
<1>10. PICK h \in [D -> R] : \A e \in D : h[e] = step[<<h, e>>]
    BY <1>9 DEF Solvable
<1>11. h = [e \in D |-> F(h, e)]
    BY <1>8, <1>10
<1>12. upTo = [e \in D |-> F(upTo, e)]
    BY <1>11, Zenon
<1> HIDE DEF upTo
<1>13. \A e \in D : upTo[e] = F(upTo, e)
    BY <1>12
<1> DEFINE Right == {e \in D : Stack(upTo[e], {x \in s : x <= e})}
<1>14. 0 \in Right
    <2>1. upTo[0] = <<>> /\ {x \in s : x <= 0} = {}
        <3>1. \A x \in s : ~(x <= 0)
            BY <1>1
        <3>2. upTo[0] = <<>>
            BY <1>1, <1>13 DEF F
        <3> QED
            BY <3>1, <3>2
    <2>2. Stack(<<>>, {})
        BY DEF Stack
    <2> QED
        BY <1>1, <2>1, <2>2
<1>15. ASSUME NEW e \in 0..(NumElems - 1), e \in Right
       PROVE  e + 1 \in Right
    <2> DEFINE x == {u \in s : u <= e}
               y == {u \in s : u <= e + 1}
    <2>1. Stack(upTo[e], x)
        BY <1>15
    <2>2. e + 1 \in D /\ e + 1 # 0 /\ (e + 1) - 1 = e
        BY <1>1
    <2>3. upTo[e + 1] = IF e + 1 \in s THEN Append(upTo[e], e + 1) ELSE upTo[e]
        BY <1>13, <2>2 DEF F
    <2>4. CASE e + 1 \in s
        <3>1. e + 1 \in Elems /\ \A u \in x : u < e + 1
            BY <1>1, <2>4
        <3>2. y = x \cup {e + 1}
            <4>1. \A u \in s : u <= e + 1 <=> u <= e \/ u = e + 1
                BY <1>1
            <4> QED
                BY <2>4, <4>1
        <3> HIDE DEF x, y
        <3>3. Stack(Append(upTo[e], e + 1), x \cup {e + 1})
            BY <2>1, <3>1, StackFacts
        <3>4. Stack(upTo[e + 1], y)
            BY <2>3, <2>4, <3>2, <3>3
        <3> QED
            BY <2>2, <3>4 DEF y
    <2>5. CASE e + 1 \notin s
        <3>1. y = x
            <4>1. \A u \in s : u <= e + 1 <=> u <= e
                <5>1. \A u \in s : u # e + 1 /\ u \in Int
                    BY <1>1, <2>5
                <5> QED
                    BY <5>1
            <4> QED
                BY <4>1
        <3> HIDE DEF x, y
        <3>2. Stack(upTo[e + 1], y)
            BY <2>1, <2>3, <2>5, <3>1
        <3> QED
            BY <2>2, <3>2 DEF y
    <2> QED
        BY <2>4, <2>5
<1>16. D \subseteq Right
    <2>1. Right \in SUBSET Nat
        BY <1>1
    <2> HIDE DEF Right
    <2> QED
        BY <1>1, <1>14, <1>15, <2>1, InductionTo
<1>17. {x \in s : x <= NumElems} = s /\ NumElems \in D
    <2>1. \A x \in s : x <= NumElems
        BY <1>1
    <2>2. {x \in s : x <= NumElems} = s
        BY <2>1, Zenon
    <2>3. NumElems \in D
        BY <1>1
    <2> QED
        BY <2>2, <2>3
<1> QED
    BY <1>2, <1>16, <1>17

\* A family has as many sets as its node's two edges lead to.
LEMMA CardinalitySplit ==
    ASSUME NEW S \in SUBSET Elems, NEW x \in Families(S), x # Empty, x # Unit
    PROVE  /\ Cardinality(Hi(x)) \in Nat /\ Cardinality(Lo(x)) \in Nat
           /\ Cardinality(x) = Cardinality(Hi(x)) + Cardinality(Lo(x))
<1>1. IsFiniteSet(x)
    <2>1. x \in SUBSET SUBSET Elems
        BY DEF Families
    <2> QED
        BY <2>1, ElemFacts, FS_SUBSET, FS_Subset
<1> DEFINE v == Top(x)
           A == {t \in x : v \in t}
           B == {t \in x : v \notin t}
           pair == [t \in Hi(x) |-> t \cup {v}]
<1>2. Node(S, x, v)
    BY NodeFacts
<1> HIDE DEF v
<1>3. IsFiniteSet(A) /\ IsFiniteSet(B) /\ A \cap B = {} /\ A \cup B = x
    BY <1>1, FS_Subset
<1>4. Cardinality(x) = Cardinality(A) + Cardinality(B)
    <2>1. Cardinality(A \cup B) = Cardinality(A) + Cardinality(B) - Cardinality(A \cap B)
        BY <1>3, FS_Union
    <2>2. Cardinality(A \cap B) = 0 /\ Cardinality(A) \in Nat /\ Cardinality(B) \in Nat
        BY <1>3, FS_EmptySet, FS_CardinalityType
    <2>3. Cardinality(x) = Cardinality(A) + Cardinality(B) - 0
        BY <1>3, <2>1, <2>2, Zenon
    <2> HIDE DEF A, B
    <2> QED
        BY <2>2, <2>3
<1>5. Lo(x) = B
    BY <1>2 DEF Node
<1>6. Cardinality(Hi(x)) = Cardinality(A)
    <2>1. \A t : t \in Hi(x) <=> t \cup {v} \in x /\ v \notin t
        BY <1>2 DEF Node
    <2>2. \A t \in x : v \in t => t \ {v} \in Hi(x) /\ (t \ {v}) \cup {v} = t
        BY <1>2 DEF Node
    <2>3. pair \in [Hi(x) -> A]
        BY <2>1
    <2>4. \A t, u \in Hi(x) : pair[t] = pair[u] => t = u
        <3>1. \A t \in Hi(x) : pair[t] \ {v} = t
            BY <2>1
        <3> HIDE DEF pair
        <3> QED
            BY <3>1
    <2>5. \A a \in A : \E t \in Hi(x) : pair[t] = a
        BY <2>2
    <2> HIDE DEF pair
    <2>6. pair \in Bijection(Hi(x), A)
        BY <2>3, <2>4, <2>5 DEF Bijection, Injection, Surjection, IsInjective
    <2>7. IsFiniteSet(Hi(x))
        <3>1. Hi(x) \in Families(S \ {v})
            BY <1>2 DEF Node
        <3> QED
            BY <3>1, ElemFacts, FS_SUBSET, FS_Subset DEF Families
    <2>8. ExistsBijection(Hi(x), A)
        BY <2>6 DEF ExistsBijection
    <2> QED
        BY <2>7, <2>8, FS_Bijection
<1>7. Cardinality(A) \in Nat /\ Cardinality(B) \in Nat
    BY <1>3, FS_CardinalityType
<1> HIDE DEF A, B, pair
<1> QED
    BY <1>4, <1>5, <1>6, <1>7

\* algo_c() counts the sets.
LEMMA CountsSets ==
    ASSUME NEW f \in Families(Elems)
    PROVE  Count(f) = Cardinality(f)
<1> DEFINE V == Support(f)
           next(h, x) == IF IsTerm(x) THEN IF x = Unit THEN 1 ELSE 0 ELSE h[Hi(x)] + h[Lo(x)]
           ref == [x \in Over(f, f) |-> Cardinality(x)]
           count == CHOOSE h : h = [x \in Over(f, f) |-> next(h, x)]
<1>1. V \in SUBSET Elems /\ IsFiniteSet(V) /\ f \in Families(V) /\ Over(f, f) = Families(V)
    <2>1. V = Support(f) \cup Support(f)
        OBVIOUS
    <2> HIDE DEF V
    <2> QED
        BY <2>1, OperandFacts
<1>2. Count(f) = count[f]
    BY DEF Count
<1> HIDE DEF V
<1>3. ASSUME NEW S \in SUBSET V, NEW x \in Families(S), NEW h,
             \A t \in S : AgreeOn(h, ref, S \ {t})
      PROVE  next(h, x) = Cardinality(x)
    <2>1. S \in SUBSET Elems /\ x \in Families(Elems) /\ IsFiniteSet(x)
        <3>1. x \in SUBSET SUBSET Elems
            BY <1>1 DEF Families
        <3> QED
            BY <1>1, <3>1, ElemFacts, FS_SUBSET, FS_Subset DEF Families
    <2>2. CASE x = Empty \/ x = Unit
        <3>1. IsTerm(x)
            BY <2>1, <2>2, TopFacts DEF IsTerm
        <3>2. Cardinality(Empty) = 0 /\ Cardinality(Unit) = 1
            BY FS_EmptySet, FS_Singleton DEF Empty, Unit
        <3> QED
            BY <2>2, <3>1, <3>2, EmptyUnit
    <2>3. CASE x # Empty /\ x # Unit
        <3> DEFINE v == Top(x)
        <3>1. Node(S, x, v)
            BY <2>1, <2>3, NodeFacts
        <3>2. ~IsTerm(x)
            BY <2>1, <2>3, TopFacts, LevelAssumption DEF IsTerm, Elems
        <3> HIDE DEF v
        <3>3. v \in S /\ Lo(x) \in Families(S \ {v}) /\ Hi(x) \in Families(S \ {v})
            BY <3>1 DEF Node
        <3>4. h[Lo(x)] = Cardinality(Lo(x)) /\ h[Hi(x)] = Cardinality(Hi(x))
            <4>1. Lo(x) \in Families(V) /\ Hi(x) \in Families(V)
                BY <3>3 DEF Families
            <4> QED
                BY <1>1, <1>3, <3>3, <4>1 DEF AgreeOn
        <3>5. Cardinality(x) = Cardinality(Hi(x)) + Cardinality(Lo(x))
            BY <2>1, <2>3, CardinalitySplit
        <3> QED
            BY <3>2, <3>4, <3>5
    <2> QED
        BY <2>2, <2>3
<1> HIDE DEF next
<1>4. ref = [x \in Over(f, f) |-> next(ref, x)]
    <2>1. \A x \in Families(V) : next(ref, x) = Cardinality(x)
        <3>1. V \in SUBSET V /\ \A t \in V : AgreeOn(ref, ref, V \ {t})
            BY DEF AgreeOn
        <3> QED
            BY <1>3, <3>1
    <2> QED
        BY <1>1, <2>1
<1>5. count = [x \in Over(f, f) |-> next(count, x)]
    BY <1>4, Zenon
<1> HIDE DEF count
<1>6. ASSUME NEW S \in SUBSET V, \A t \in S : AgreeOn(count, ref, S \ {t})
      PROVE  AgreeOn(count, ref, S)
    <2>1. \A x \in Families(S) : next(count, x) = Cardinality(x)
        BY <1>3, <1>6
    <2>2. \A x \in Families(S) : x \in Families(V)
        BY DEF Families
    <2> QED
        BY <1>1, <1>5, <2>1, <2>2 DEF AgreeOn
<1>7. AgreeOn(count, ref, V)
    BY <1>1, <1>6, FamilyInduction
<1> QED
    BY <1>1, <1>2, <1>7 DEF AgreeOn

\* choose_random() may pick any set, and picks no other.
LEMMA PicksAny ==
    ASSUME NEW f \in Families(Elems), f # Empty
    PROVE  RandomPicks(f) = f
<1> DEFINE V == Support(f)
           ref == [x \in Over(f, f) |-> IF x = Empty THEN Unit ELSE x]
           picks == CHOOSE h : h = [x \in Over(f, f) |-> PicksStep(h, x)]
<1>1. V \in SUBSET Elems /\ IsFiniteSet(V) /\ f \in Families(V) /\ Over(f, f) = Families(V)
    <2>1. V = Support(f) \cup Support(f)
        OBVIOUS
    <2> HIDE DEF V
    <2> QED
        BY <2>1, OperandFacts
<1>2. RandomPicks(f) = picks[f]
    BY DEF RandomPicks
<1> HIDE DEF V
<1>3. \A x \in Families(V) : ref[x] = IF x = Empty THEN Unit ELSE x
    BY <1>1
<1> HIDE DEF ref
<1>4. ASSUME NEW S \in SUBSET V, NEW x \in Families(S), NEW h,
             \A t \in S : AgreeOn(h, ref, S \ {t})
      PROVE  PicksStep(h, x) = ref[x]
    <2>1. S \in SUBSET Elems /\ x \in Families(Elems) /\ x \in Families(V)
        BY <1>1 DEF Families
    <2>2. CASE x = Empty \/ x = Unit
        <3>1. IsTerm(x)
            BY <2>1, <2>2, TopFacts DEF IsTerm
        <3>2. PicksStep(h, x) = {{}}
            BY <3>1 DEF PicksStep
        <3> QED
            BY <1>3, <2>1, <2>2, <3>2 DEF Unit
    <2>3. CASE x # Empty /\ x # Unit
        <3> DEFINE v == Top(x)
        <3>1. Node(S, x, v)
            BY <2>1, <2>3, NodeFacts
        <3>2. ~IsTerm(x)
            BY <2>1, <2>3, TopFacts, LevelAssumption DEF IsTerm, Elems
        <3>3. PicksStep(h, x) = Lifted(h[Hi(x)], v) \cup (IF Count(Lo(x)) > 0 THEN h[Lo(x)] ELSE {})
            BY <3>2 DEF PicksStep, Lifted
        <3> HIDE DEF v
        <3>4. v \in S /\ Lo(x) \in Families(S \ {v}) /\ Hi(x) \in Families(S \ {v}) /\ Hi(x) # Empty
            BY <3>1 DEF Node
        <3>5. /\ Lo(x) \in Families(V) /\ Hi(x) \in Families(V)
              /\ Lo(x) \in Families(Elems) /\ IsFiniteSet(Lo(x))
            <4>1. /\ Lo(x) \in Families(V) /\ Hi(x) \in Families(V)
                  /\ Lo(x) \in Families(Elems) /\ Lo(x) \in SUBSET SUBSET Elems
                BY <2>1, <3>4 DEF Families
            <4> QED
                BY <4>1, ElemFacts, FS_SUBSET, FS_Subset
        <3>6. h[Hi(x)] = Hi(x) /\ (Lo(x) # Empty => h[Lo(x)] = Lo(x))
            BY <1>3, <1>4, <3>4, <3>5 DEF AgreeOn
        <3>7. Count(Lo(x)) > 0 <=> Lo(x) # Empty
            <4>1. Count(Lo(x)) = Cardinality(Lo(x)) /\ Cardinality(Lo(x)) \in Nat
                BY <3>5, CountsSets, FS_CardinalityType
            <4>2. Cardinality(Lo(x)) = 0 <=> Lo(x) = {}
                BY <3>5, FS_EmptySet
            <4> QED
                BY <4>1, <4>2 DEF Empty
        <3>8. PicksStep(h, x) = Lifted(Hi(x), v) \cup Lo(x)
            BY <3>3, <3>6, <3>7 DEF Empty
        <3> DEFINE y == Lifted(Hi(x), v) \cup Lo(x)
        <3>9. \A s \in x : s \in y
            <4>1. ASSUME NEW s \in x, v \in s PROVE s \in Lifted(Hi(x), v)
                <5>1. s \ {v} \in Hi(x) /\ (s \ {v}) \cup {v} = s
                    BY <3>1, <4>1 DEF Node
                <5> QED
                    BY <5>1 DEF Lifted
            <4> QED
                BY <3>1, <4>1 DEF Node
        <3>10. \A s \in y : s \in x
            BY <3>1 DEF Node, Lifted
        <3> HIDE DEF y
        <3>11. y = x
            BY <3>9, <3>10
        <3> QED
            BY <1>3, <2>1, <2>3, <3>8, <3>11 DEF y
    <2> QED
        BY <2>2, <2>3
<1>5. ref = [x \in Over(f, f) |-> PicksStep(ref, x)]
    <2>1. \A x \in Families(V) : PicksStep(ref, x) = ref[x]
        <3>1. V \in SUBSET V /\ \A t \in V : AgreeOn(ref, ref, V \ {t})
            BY DEF AgreeOn
        <3> QED
            BY <1>4, <3>1
    <2> QED
        BY <1>1, <2>1 DEF ref
<1>6. picks = [x \in Over(f, f) |-> PicksStep(picks, x)]
    BY <1>5, Zenon
<1> HIDE DEF picks
<1>7. ASSUME NEW S \in SUBSET V, \A t \in S : AgreeOn(picks, ref, S \ {t})
      PROVE  AgreeOn(picks, ref, S)
    <2>1. \A x \in Families(S) : PicksStep(picks, x) = ref[x]
        BY <1>4, <1>7
    <2>2. \A x \in Families(S) : x \in Families(V)
        BY DEF Families
    <2> QED
        BY <1>1, <1>6, <2>1, <2>2 DEF AgreeOn
<1>8. AgreeOn(picks, ref, V)
    BY <1>1, <1>7, FamilyInduction
<1> QED
    BY <1>1, <1>2, <1>3, <1>8 DEF AgreeOn
-----------------------------------------------------------------------------
(***************************************************************************)
(* Weights of sets                                                         *)
(***************************************************************************)
\* The weight of a set is a sum that can be taken in any order.
LEMMA WeightFacts ==
    ASSUME NEW w \in [Elems -> Int]
    PROVE  /\ \A s \in SUBSET Elems : Weight(s, w) \in Int
           /\ Weight({}, w) = 0
           /\ \A s \in SUBSET Elems : \A e \in s : Weight(s, w) = w[e] + Weight(s \ {e}, w)
    BY ElemFacts, SumFacts

\* The sets of the greatest weight.
Heaviest(s, f, w) == s \in f /\ \A t \in f : Weight(t, w) <= Weight(s, w)
Greatest(f, w) == Weight(CHOOSE s : Heaviest(s, f, w), w)

LEMMA HeaviestIs ==
    ASSUME NEW w \in [Elems -> Int], NEW f \in Families(Elems), f # Empty
    PROVE  /\ \E s : Heaviest(s, f, w)
           /\ \A s : Heaviest(s, f, w) => Weight(s, w) = Greatest(f, w)
           /\ Greatest(f, w) \in Int
<1> DEFINE Good == {g \in SUBSET f : g = {} \/ \E s : Heaviest(s, g, w)}
<1>1. \A s \in f : Weight(s, w) \in Int
    BY WeightFacts DEF Families
<1>2. ASSUME NEW g \in SUBSET f, \A t \in g : g \ {t} \in Good
      PROVE  g \in Good
    <2> SUFFICES ASSUME g # {} PROVE \E s : Heaviest(s, g, w)
        OBVIOUS
    <2>1. PICK t \in g : TRUE
        OBVIOUS
    <2>2. CASE g \ {t} = {}
        <3>1. \A x \in g : x = t
            BY <2>2
        <3>2. Heaviest(t, g, w)
            BY <1>1, <3>1 DEF Heaviest
        <3> QED
            BY <3>2
    <2>3. CASE g \ {t} # {}
        <3>1. PICK s : Heaviest(s, g \ {t}, w)
            BY <1>2, <2>3
        <3>2. s \in g /\ \A x \in g \ {t} : Weight(x, w) <= Weight(s, w)
            BY <3>1 DEF Heaviest
        <3>3. CASE Weight(t, w) <= Weight(s, w)
            <4>1. \A x \in g : Weight(x, w) <= Weight(s, w)
                BY <3>2, <3>3
            <4>2. Heaviest(s, g, w)
                BY <3>2, <4>1 DEF Heaviest
            <4> QED
                BY <4>2
        <3>4. CASE ~(Weight(t, w) <= Weight(s, w))
            <4>1. \A x \in g : Weight(x, w) \in Int
                BY <1>1
            <4>2. \A x \in g : Weight(x, w) <= Weight(t, w)
                BY <2>1, <3>2, <3>4, <4>1
            <4>3. Heaviest(t, g, w)
                BY <4>2 DEF Heaviest
            <4> QED
                BY <4>3
        <3> QED
            BY <3>3, <3>4
    <2> QED
        BY <2>2, <2>3
<1>3. IsFiniteSet(f)
    BY ElemFacts, FS_SUBSET, FS_Subset DEF Families
<1> HIDE DEF Good
<1>4. f \in Good
    BY <1>2, <1>3, SetInduction
<1>5. \E s : Heaviest(s, f, w)
    BY <1>4 DEF Good, Empty
<1> DEFINE c == CHOOSE s : Heaviest(s, f, w)
<1>6. Heaviest(c, f, w)
    BY <1>5
<1>7. Greatest(f, w) = Weight(c, w)
    BY DEF Greatest
<1> HIDE DEF c
<1>8. ASSUME NEW s, Heaviest(s, f, w) PROVE Weight(s, w) = Weight(c, w)
    <2>1. s \in f /\ c \in f /\ Weight(s, w) <= Weight(c, w) /\ Weight(c, w) <= Weight(s, w)
        BY <1>6, <1>8 DEF Heaviest
    <2> QED
        BY <1>1, <2>1
<1> QED
    BY <1>1, <1>5, <1>6, <1>7, <1>8 DEF Heaviest

\* The best set of a node is the best of one of the edges: that of the 1-edge
\* unless a set of the 0-edge is at least as good.
LEMMA HeaviestSplit ==
    ASSUME NEW w \in [Elems -> Int], NEW S \in SUBSET Elems, NEW f \in Families(S),
           f # Empty, f # Unit, NEW v, v = Top(f), NEW best,
           best[Hi(f)] = Greatest(Hi(f), w),
           Lo(f) # Empty => best[Lo(f)] = Greatest(Lo(f), w)
    PROVE  /\ TakesHi(best, f, w) =>
                /\ \A s : Heaviest(s, Hi(f), w) => Heaviest({v} \cup s, f, w)
                /\ best[Hi(f)] + w[v] = Greatest(f, w)
           /\ ~TakesHi(best, f, w) =>
                /\ Lo(f) # Empty
                /\ \A s : Heaviest(s, Lo(f), w) => Heaviest(s, f, w)
                /\ best[Lo(f)] = Greatest(f, w)
<1>0. Node(S, f, v)
    BY NodeFacts
<1>1. /\ v \in Elems /\ Lo(f) \in Families(Elems) /\ Hi(f) \in Families(Elems) /\ Hi(f) # Empty
      /\ f \in Families(Elems) /\ w[v] \in Int
    BY <1>0 DEF Node, Families
<1>2. \A s \in SUBSET Elems : Weight(s, w) \in Int
    BY WeightFacts
<1>3. ASSUME NEW s \in Hi(f)
      PROVE  /\ {v} \cup s \in f
             /\ Weight({v} \cup s, w) = w[v] + Weight(s, w)
    <2>1. s \cup {v} \in f /\ v \notin s /\ {v} \cup s = s \cup {v}
        BY <1>0 DEF Node
    <2>2. {v} \cup s \in SUBSET Elems /\ v \in {v} \cup s /\ ({v} \cup s) \ {v} = s
        BY <1>1, <2>1 DEF Families
    <2>3. Weight({v} \cup s, w) = w[v] + Weight(s, w)
        BY <2>2, WeightFacts
    <2> QED
        BY <2>1, <2>3
<1>4. \A s \in Lo(f) : s \in f
    BY <1>0 DEF Node
<1>5. ASSUME NEW t \in f PROVE t \in Lo(f) \/ \E s \in Hi(f) : t = {v} \cup s
    <2>1. v \notin t => t \in Lo(f)
        BY <1>0 DEF Node
    <2>2. v \in t => t \ {v} \in Hi(f) /\ t = {v} \cup (t \ {v})
        BY <1>0 DEF Node
    <2> QED
        BY <2>1, <2>2
<1>6. /\ Greatest(Hi(f), w) \in Int
      /\ \A s \in Hi(f) : Weight(s, w) <= Greatest(Hi(f), w)
    <2>1. PICK s : Heaviest(s, Hi(f), w)
        BY <1>1, HeaviestIs
    <2>2. Weight(s, w) = Greatest(Hi(f), w) /\ Greatest(Hi(f), w) \in Int
        BY <1>1, <2>1, HeaviestIs
    <2> QED
        BY <2>1, <2>2 DEF Heaviest
<1>7. Lo(f) # Empty => /\ Greatest(Lo(f), w) \in Int
                       /\ \A s \in Lo(f) : Weight(s, w) <= Greatest(Lo(f), w)
    <2> SUFFICES ASSUME Lo(f) # Empty
                 PROVE  /\ Greatest(Lo(f), w) \in Int
                        /\ \A s \in Lo(f) : Weight(s, w) <= Greatest(Lo(f), w)
        OBVIOUS
    <2>1. PICK s : Heaviest(s, Lo(f), w)
        BY <1>1, HeaviestIs
    <2>2. Weight(s, w) = Greatest(Lo(f), w) /\ Greatest(Lo(f), w) \in Int
        BY <1>1, <2>1, HeaviestIs
    <2> QED
        BY <2>1, <2>2 DEF Heaviest
<1> DEFINE a == Greatest(Hi(f), w) + w[v]
           b == Greatest(Lo(f), w)
<1>8. TakesHi(best, f, w) <=> Lo(f) = Empty \/ a > b
    BY DEF TakesHi
<1>9. a \in Int /\ (Lo(f) # Empty => b \in Int)
    BY <1>1, <1>6, <1>7
<1>10. ASSUME NEW s \in Hi(f) PROVE Weight({v} \cup s, w) <= a /\ Weight({v} \cup s, w) \in Int
    <2>1. Weight(s, w) \in Int /\ Weight(s, w) <= Greatest(Hi(f), w)
        BY <1>1, <1>2, <1>6 DEF Families
    <2>2. Weight({v} \cup s, w) = w[v] + Weight(s, w)
        BY <1>3
    <2> QED
        BY <1>1, <1>6, <2>1, <2>2
<1>11. \A s \in Lo(f) : Weight(s, w) <= b /\ Weight(s, w) \in Int
    BY <1>1, <1>2, <1>7 DEF Families, Empty
<1> HIDE DEF a, b
<1>12. ASSUME TakesHi(best, f, w), NEW s, Heaviest(s, Hi(f), w)
       PROVE  Heaviest({v} \cup s, f, w) /\ Weight({v} \cup s, w) = a
    <2>1. s \in Hi(f) /\ Weight(s, w) = Greatest(Hi(f), w)
        BY <1>1, <1>12, HeaviestIs DEF Heaviest
    <2>2. {v} \cup s \in f /\ Weight({v} \cup s, w) = a
        <3>1. {v} \cup s \in f /\ Weight({v} \cup s, w) = w[v] + Weight(s, w)
            BY <1>3, <2>1
        <3> QED
            BY <1>1, <1>6, <2>1, <3>1 DEF a
    <2>3. ASSUME NEW t \in f PROVE Weight(t, w) <= a
        <3>1. CASE t \in Lo(f)
            <4>1. Lo(f) # Empty
                BY <3>1 DEF Empty
            <4> QED
                BY <1>8, <1>9, <1>11, <1>12, <3>1, <4>1
        <3>2. CASE t \notin Lo(f)
            BY <1>5, <1>10, <3>2
        <3> QED
            BY <3>1, <3>2
    <2> QED
        BY <2>2, <2>3 DEF Heaviest
<1>13. ASSUME ~TakesHi(best, f, w), NEW s, Heaviest(s, Lo(f), w)
       PROVE  Heaviest(s, f, w) /\ Weight(s, w) = b
    <2>0. Lo(f) # Empty /\ ~(a > b)
        BY <1>8, <1>13
    <2>1. s \in Lo(f) /\ Weight(s, w) = b
        BY <1>1, <1>13, <2>0, HeaviestIs DEF Heaviest, b
    <2>3. ASSUME NEW t \in f PROVE Weight(t, w) <= b
        <3>1. CASE t \in Lo(f)
            BY <1>11, <3>1
        <3>2. CASE t \notin Lo(f)
            <4>1. Weight(t, w) <= a /\ Weight(t, w) \in Int
                BY <1>5, <1>10, <3>2
            <4> QED
                BY <1>9, <2>0, <4>1
        <3> QED
            BY <3>1, <3>2
    <2> QED
        BY <1>4, <2>1, <2>3 DEF Heaviest
<1>14. TakesHi(best, f, w) => best[Hi(f)] + w[v] = Greatest(f, w)
    <2>1. PICK s : Heaviest(s, Hi(f), w)
        BY <1>1, HeaviestIs
    <2>2. TakesHi(best, f, w) => Heaviest({v} \cup s, f, w) /\ Weight({v} \cup s, w) = a
        BY <1>12, <2>1
    <2>3. Heaviest({v} \cup s, f, w) => Weight({v} \cup s, w) = Greatest(f, w)
        BY <1>1, HeaviestIs
    <2> QED
        BY <2>2, <2>3 DEF a
<1>15. ~TakesHi(best, f, w) => Lo(f) # Empty /\ best[Lo(f)] = Greatest(f, w)
    <2> SUFFICES ASSUME ~TakesHi(best, f, w)
                 PROVE  Lo(f) # Empty /\ best[Lo(f)] = Greatest(f, w)
        OBVIOUS
    <2>0. Lo(f) # Empty
        BY <1>8
    <2>1. PICK s : Heaviest(s, Lo(f), w)
        BY <1>1, <2>0, HeaviestIs
    <2>2. Heaviest(s, f, w) /\ Weight(s, w) = b
        BY <1>13, <2>1
    <2>3. Heaviest(s, f, w) => Weight(s, w) = Greatest(f, w)
        BY <1>1, HeaviestIs
    <2> QED
        BY <2>0, <2>2, <2>3 DEF b
<1> QED
    BY <1>12, <1>13, <1>14, <1>15

\* algo_b() finds the greatest weight of every node.
LEMMA BestIs ==
    ASSUME NEW f \in Families(Elems), NEW w \in [Elems -> Int]
    PROVE  \A x \in Over(f, f) \ {Empty} : Best(f, w)[x] = Greatest(x, w)
<1> DEFINE V == Support(f)
           D == Over(f, f) \ {Empty}
           ref == [x \in D |-> Greatest(x, w)]
           best == CHOOSE h : h = [x \in D |-> BestStep(h, x, w)]
<1>1. V \in SUBSET Elems /\ IsFiniteSet(V) /\ f \in Families(V) /\ Over(f, f) = Families(V)
    <2>1. V = Support(f) \cup Support(f)
        OBVIOUS
    <2> HIDE DEF V
    <2> QED
        BY <2>1, OperandFacts
<1>2. Best(f, w) = best
    BY DEF Best
<1> HIDE DEF V, D
<1>3. \A x : x \in D <=> x \in Families(V) /\ x # Empty
    BY <1>1 DEF D
<1>4. \A x \in D : ref[x] = Greatest(x, w)
    OBVIOUS
<1> HIDE DEF ref
<1>5. ASSUME NEW S \in SUBSET V, NEW x \in Families(S), x # Empty, NEW h,
             \A t \in S : \A y \in Families(S \ {t}) : y # Empty => h[y] = Greatest(y, w)
      PROVE  BestStep(h, x, w) = Greatest(x, w)
    <2>1. S \in SUBSET Elems /\ x \in Families(Elems)
        BY <1>1 DEF Families
    <2>2. CASE x = Unit
        <3>1. BestStep(h, x, w) = 0
            BY <2>2 DEF BestStep
        <3>2. Heaviest({}, x, w)
            <4>1. Weight({}, w) <= Weight({}, w)
                BY WeightFacts
            <4> QED
                BY <2>2, <4>1 DEF Heaviest, Unit
        <3>3. Weight({}, w) = Greatest(x, w)
            BY <1>5, <2>1, <3>2, HeaviestIs
        <3> QED
            BY <3>1, <3>3, WeightFacts
    <2>3. CASE x # Unit
        <3> DEFINE v == Top(x)
        <3>1. Node(S, x, v)
            BY <1>5, <2>1, <2>3, NodeFacts
        <3>2. BestStep(h, x, w) = IF TakesHi(h, x, w) THEN h[Hi(x)] + w[v] ELSE h[Lo(x)]
            BY <2>3 DEF BestStep
        <3> HIDE DEF v
        <3>3. h[Hi(x)] = Greatest(Hi(x), w) /\ (Lo(x) # Empty => h[Lo(x)] = Greatest(Lo(x), w))
            BY <1>5, <3>1 DEF Node
        <3>4. /\ TakesHi(h, x, w) => h[Hi(x)] + w[v] = Greatest(x, w)
              /\ ~TakesHi(h, x, w) => h[Lo(x)] = Greatest(x, w)
            BY <1>5, <2>1, <2>3, <3>3, HeaviestSplit DEF v
        <3> QED
            BY <3>2, <3>4
    <2> QED
        BY <2>2, <2>3
<1>6. ref = [x \in D |-> BestStep(ref, x, w)]
    <2>1. \A x \in D : BestStep(ref, x, w) = Greatest(x, w)
        <3>1. \A y \in Families(V) : y # Empty => ref[y] = Greatest(y, w)
            BY <1>3, <1>4
        <3>2. V \in SUBSET V /\ \A t \in V : Families(V \ {t}) \subseteq Families(V)
            BY DEF Families
        <3> QED
            BY <1>3, <1>5, <3>1, <3>2
    <2> QED
        BY <2>1 DEF ref
<1>7. best = [x \in D |-> BestStep(best, x, w)]
    BY <1>6, Zenon
<1> HIDE DEF best
<1>8. \A x \in D : best[x] = BestStep(best, x, w)
    BY <1>7
<1> DEFINE Good == {S \in SUBSET V : \A x \in Families(S) : x # Empty => best[x] = Greatest(x, w)}
<1>9. ASSUME NEW S \in SUBSET V, \A t \in S : S \ {t} \in Good
      PROVE  S \in Good
    <2>1. \A t \in S : \A y \in Families(S \ {t}) : y # Empty => best[y] = Greatest(y, w)
        BY <1>9
    <2> HIDE DEF Good
    <2>2. \A x \in Families(S) : x # Empty => BestStep(best, x, w) = Greatest(x, w)
        BY <1>5, <2>1
    <2>3. \A x \in Families(S) : x # Empty => x \in D
        BY <1>3 DEF Families
    <2> QED
        BY <1>8, <2>2, <2>3 DEF Good
<1> HIDE DEF Good
<1>10. V \in Good
    BY <1>1, <1>9, SetInduction
<1>11. \A x \in D : best[x] = Greatest(x, w)
    BY <1>3, <1>10 DEF Good
<1> QED
    BY <1>2, <1>11 DEF D

\* choose_best() finds a set of the greatest weight.
LEMMA ChooseBestIs ==
    ASSUME NEW f \in Families(Elems), f # Empty, NEW w \in [Elems -> Int]
    PROVE  Heaviest(ChooseBest(f, w), f, w)
<1> DEFINE V == Support(f)
           D == Over(f, f) \ {Empty}
           R == SUBSET Elems
           best == Best(f, w)
           next(h, x) == IF IsTerm(x) THEN {}
                         ELSE IF TakesHi(best, x, w) THEN {Top(x)} \cup h[Hi(x)] ELSE h[Lo(x)]
           supp == [x \in D |-> Support(x)]
           step == [p \in [D -> R] \X D |-> next(p[1], p[2])]
           chosen == CHOOSE h : h = [x \in D |-> next(h, x)]
<1>1. V \in SUBSET Elems /\ IsFiniteSet(V) /\ f \in Families(V) /\ Over(f, f) = Families(V)
    <2>1. V = Support(f) \cup Support(f)
        OBVIOUS
    <2> HIDE DEF V
    <2> QED
        BY <2>1, OperandFacts
<1>2. ChooseBest(f, w) = IF IsTerm(f) THEN {} ELSE chosen[f]
    BY DEF ChooseBest
<1>3. \A x \in D : best[x] = Greatest(x, w)
    BY BestIs
<1>4. \A h, x : next(h, x) = IF IsTerm(x) THEN {}
                             ELSE IF TakesHi(best, x, w) THEN {Top(x)} \cup h[Hi(x)] ELSE h[Lo(x)]
    OBVIOUS
<1> HIDE DEF V, best
<1>5. \A x : x \in D <=> x \in Families(V) /\ x # Empty
    BY <1>1
<1> HIDE DEF D
<1>6. ASSUME NEW S \in SUBSET V, NEW x \in Families(S), x # Empty, x # Unit, NEW v, v = Top(x)
      PROVE  /\ ~IsTerm(x)
             /\ v \in S /\ v \in Elems
             /\ Hi(x) \in Families(S \ {v}) /\ Hi(x) \in D
             /\ Lo(x) \in Families(S \ {v}) /\ (Lo(x) # Empty => Lo(x) \in D)
             /\ TakesHi(best, x, w) =>
                  \A s : Heaviest(s, Hi(x), w) => Heaviest({v} \cup s, x, w)
             /\ ~TakesHi(best, x, w) =>
                  /\ Lo(x) # Empty
                  /\ \A s : Heaviest(s, Lo(x), w) => Heaviest(s, x, w)
    <2>1. S \in SUBSET Elems /\ x \in Families(Elems)
        BY <1>1 DEF Families
    <2>2. Node(S, x, v)
        BY <1>6, <2>1, NodeFacts
    <2>3. ~IsTerm(x)
        BY <1>6, <2>1, TopFacts, LevelAssumption DEF IsTerm, Elems
    <2>4. Hi(x) \in D /\ (Lo(x) # Empty => Lo(x) \in D)
        BY <1>5, <2>2 DEF Node, Families
    <2>5. best[Hi(x)] = Greatest(Hi(x), w) /\ (Lo(x) # Empty => best[Lo(x)] = Greatest(Lo(x), w))
        BY <1>3, <2>4
    <2>6. /\ TakesHi(best, x, w) =>
                  \A s : Heaviest(s, Hi(x), w) => Heaviest({v} \cup s, x, w)
          /\ ~TakesHi(best, x, w) =>
                  /\ Lo(x) # Empty
                  /\ \A s : Heaviest(s, Lo(x), w) => Heaviest(s, x, w)
        BY <1>6, <2>1, <2>5, HeaviestSplit
    <2> QED
        BY <2>2, <2>3, <2>4, <2>6 DEF Node
<1>7. \A x \in D : x # Unit => ~IsTerm(x)
    BY <1>5, <1>6
<1>8. IsTerm(Unit)
    <2>1. Unit \in Families(Elems)
        BY DEF Unit, Families
    <2> QED
        BY <2>1, TopFacts DEF IsTerm
<1> HIDE DEF next
<1>9. ASSUME NEW h \in [D -> R], NEW x \in D PROVE next(h, x) \in R
    <2>1. CASE x = Unit
        BY <1>4, <1>8, <2>1
    <2>2. CASE x # Unit
        <3>1. /\ Top(x) \in Elems /\ Hi(x) \in D /\ (Lo(x) # Empty => Lo(x) \in D)
              /\ ~TakesHi(best, x, w) => Lo(x) # Empty
            BY <1>5, <1>6, <2>2
        <3>2. h[Hi(x)] \in R /\ (~TakesHi(best, x, w) => h[Lo(x)] \in R)
            BY <3>1
        <3> QED
            BY <1>4, <1>7, <2>2, <3>1, <3>2
    <2> QED
        BY <2>1, <2>2
<1>10. step \in [[D -> R] \X D -> R]
    BY <1>9
<1>11. supp \in [D -> SUBSET V]
    BY <1>5 DEF Families, Support
<1>12. \A x \in D : supp[x] = Support(x)
    OBVIOUS
<1>13. ASSUME NEW g \in [D -> R], NEW h \in [D -> R], NEW x \in D,
              \A q \in D : (\E t \in supp[x] : supp[q] \subseteq supp[x] \ {t}) => g[q] = h[q]
       PROVE  step[<<g, x>>] = step[<<h, x>>]
    <2>1. step[<<g, x>>] = next(g, x) /\ step[<<h, x>>] = next(h, x)
        OBVIOUS
    <2> HIDE DEF step, supp
    <2>2. CASE x = Unit
        BY <1>4, <1>8, <2>1, <2>2
    <2>3. CASE x # Unit
        <3> DEFINE S == Support(x)
        <3>1. x \in Families(S) /\ S \in SUBSET V
            BY <1>5 DEF Families, Support
        <3>2. /\ Top(x) \in S /\ Hi(x) \in Families(S \ {Top(x)}) /\ Hi(x) \in D
              /\ Lo(x) \in Families(S \ {Top(x)}) /\ (Lo(x) # Empty => Lo(x) \in D)
              /\ ~TakesHi(best, x, w) => Lo(x) # Empty
            BY <1>5, <1>6, <2>3, <3>1
        <3>3. Support(Hi(x)) \subseteq S \ {Top(x)} /\ Support(Lo(x)) \subseteq S \ {Top(x)}
            BY <3>2, SupportFacts
        <3>4. \A q \in D : Support(q) \subseteq S \ {Top(x)} => g[q] = h[q]
            BY <1>12, <1>13, <3>2
        <3>5. g[Hi(x)] = h[Hi(x)] /\ (~TakesHi(best, x, w) => g[Lo(x)] = h[Lo(x)])
            BY <3>2, <3>3, <3>4
        <3>6. next(g, x) = next(h, x)
            BY <1>4, <3>5
        <3> QED
            BY <2>1, <3>6
    <2> QED
        BY <2>2, <2>3
<1>14. Descends(D, R, step, supp)
    BY <1>13 DEF Descends
<1>15. \A h \in [D -> R], x \in D : step[<<h, x>>] = next(h, x)
    OBVIOUS
<1> HIDE DEF step, supp
<1>16. Solvable(D, R, step)
    <2>1. R # {}
        OBVIOUS
    <2> HIDE DEF R
    <2> QED
        BY <1>1, <1>10, <1>11, <1>14, <2>1, SupportRecursion
<1>17. PICK h \in [D -> R] : \A x \in D : h[x] = step[<<h, x>>]
    BY <1>16 DEF Solvable
<1>18. h = [x \in D |-> next(h, x)]
    BY <1>15, <1>17
<1>19. chosen = [x \in D |-> next(chosen, x)]
    BY <1>18, Zenon
<1> HIDE DEF chosen
<1>20. \A x \in D : chosen[x] = next(chosen, x)
    BY <1>19
<1>21. Heaviest({}, Unit, w)
    <2>1. Weight({}, w) <= Weight({}, w)
        BY WeightFacts
    <2> QED
        BY <2>1 DEF Heaviest, Unit
<1> DEFINE Good == {S \in SUBSET V : \A x \in Families(S) : x # Empty => Heaviest(chosen[x], x, w)}
<1>22. ASSUME NEW S \in SUBSET V, \A t \in S : S \ {t} \in Good
       PROVE  S \in Good
    <2>1. \A t \in S : \A y \in Families(S \ {t}) : y # Empty => Heaviest(chosen[y], y, w)
        BY <1>22
    <2>2. ASSUME NEW x \in Families(S), x # Empty PROVE Heaviest(chosen[x], x, w)
        <3>0. x \in D
            BY <1>5, <2>2 DEF Families
        <3>1. CASE x = Unit
            <4>1. chosen[x] = {}
                BY <1>4, <1>8, <1>20, <3>0, <3>1
            <4> QED
                BY <1>21, <3>1, <4>1
        <3>2. CASE x # Unit
            <4>1. chosen[x] = IF TakesHi(best, x, w) THEN {Top(x)} \cup chosen[Hi(x)]
                              ELSE chosen[Lo(x)]
                BY <1>4, <1>7, <1>20, <3>0, <3>2
            <4>2. /\ Top(x) \in S /\ Hi(x) \in Families(S \ {Top(x)}) /\ Hi(x) # Empty
                  /\ Lo(x) \in Families(S \ {Top(x)})
                BY <1>5, <1>6, <2>2, <3>2
            <4>3. CASE TakesHi(best, x, w)
                <5>1. \A s : Heaviest(s, Hi(x), w) => Heaviest({Top(x)} \cup s, x, w)
                    BY <1>6, <2>2, <3>2, <4>3
                <5>2. Heaviest(chosen[Hi(x)], Hi(x), w)
                    BY <2>1, <4>2
                <5> QED
                    BY <4>1, <4>3, <5>1, <5>2
            <4>4. CASE ~TakesHi(best, x, w)
                <5>1. Lo(x) # Empty /\ \A s : Heaviest(s, Lo(x), w) => Heaviest(s, x, w)
                    BY <1>6, <2>2, <3>2, <4>4
                <5>2. Heaviest(chosen[Lo(x)], Lo(x), w)
                    BY <2>1, <4>2, <5>1
                <5> QED
                    BY <4>1, <4>4, <5>1, <5>2
            <4> QED
                BY <4>3, <4>4
        <3> QED
            BY <3>1, <3>2
    <2> QED
        BY <2>2
<1> HIDE DEF Good
<1>23. V \in Good
    BY <1>1, <1>22, SetInduction
<1>24. Heaviest(chosen[f], f, w)
    BY <1>1, <1>23 DEF Good
<1>25. IsTerm(f) => f = Unit
    BY <1>1, <1>5, <1>7
<1> QED
    BY <1>2, <1>21, <1>24, <1>25

-----------------------------------------------------------------------------
(***************************************************************************)
(* A loop over the object.  What next() does is stated for an iterator, the*)
(* sets it has given and the family it is over; the invariant follows.     *)
(***************************************************************************)
\* What an iterator may be.
Iterators ==
    [kind : {"plain", "random"}, zdd : {NullFamily} \cup Families(Elems), s : SUBSET Elems,
     w : {<<>>}]
    \cup [kind : {"weighted"}, zdd : {NullFamily} \cup Families(Elems), s : SUBSET Elems,
          w : [Elems -> Int]]

\* The sets of g are in the order of falling weight and above those of rest.
Falling(g, rest, w) ==
    /\ \A i \in 1..(Len(g) - 1) : Weight(g[i], w) >= Weight(g[i + 1], w)
    /\ \A x \in Range(g), y \in rest : Weight(x, w) >= Weight(y, w)

\* An iterator over f after g has been given, next() not yet called.
Ready(it, g, f) ==
    /\ it \in Iterators
    /\ g \in Seq(SUBSET Elems) /\ IsInjective(g)
    /\ it.kind = "plain" =>
            \/ it.zdd = f /\ (it.s = {} \/ it.s \in f) /\ Range(g) = f \ After(f, it.s)
            \/ it.zdd = Empty /\ Range(g) = f
    /\ it.kind # "plain" => Range(g) \subseteq f /\ it.zdd = f \ Range(g)
    /\ it.kind = "weighted" => Falling(g, it.zdd, it.w)

\* An iterator that is at a set.
At(it, g, f) ==
    /\ it.s \in f \ Range(g)
    /\ it.kind = "plain" => /\ it.zdd = IF it.s = {} THEN Empty ELSE f
                            /\ Range(g) = {x \in f : Before(x, it.s)}
    /\ it.kind # "plain" => Range(g) \subseteq f /\ it.zdd = f \ (Range(g) \cup {it.s})
    /\ it.kind = "weighted" => \A y \in it.zdd : Weight(y, it.w) <= Weight(it.s, it.w)

Loop(it, g, f) ==
    /\ it \in Iterators
    /\ g \in Seq(SUBSET Elems) /\ IsInjective(g)
    /\ it.kind = "weighted" => Falling(g, f \ Range(g), it.w)
    /\ IF Ended(it) THEN Range(g) = f ELSE At(it, g, f)

LoopInv ==
    /\ iter = NoIter => given = <<>>
    /\ iter # NoIter => asked = NotAsked /\ Loop(iter, given, this)

LEMMA GivenFacts ==
    ASSUME NEW g \in Seq(SUBSET Elems), IsInjective(g), NEW s \in SUBSET Elems, s \notin Range(g)
    PROVE  /\ Append(g, s) \in Seq(SUBSET Elems)
           /\ Range(Append(g, s)) = Range(g) \cup {s}
           /\ IsInjective(Append(g, s))
<1> DEFINE n == Len(g)
           h == Append(g, s)
<1>1. /\ h \in Seq(SUBSET Elems) /\ Len(h) = n + 1 /\ n \in Nat
      /\ h[n + 1] = s /\ \A i \in 1..n : h[i] = g[i]
    OBVIOUS
<1>2. DOMAIN g = 1..n /\ DOMAIN h = 1..(n + 1)
    BY <1>1
<1>3. 1..(n + 1) = 1..n \cup {n + 1}
    BY <1>1
<1> HIDE DEF h, n
<1>4. Range(h) = Range(g) \cup {s}
    BY <1>1, <1>2, <1>3 DEF Range
<1>5. \A i \in 1..n : g[i] # s
    BY <1>2 DEF Range
<1>6. IsInjective(h)
    <2>1. \A i, j \in 1..n : g[i] = g[j] => i = j
        BY <1>2 DEF IsInjective
    <2>2. \A i, j \in 1..(n + 1) : h[i] = h[j] => i = j
        BY <1>1, <1>3, <1>5, <2>1
    <2> QED
        BY <1>2, <2>2 DEF IsInjective
<1> QED
    BY <1>1, <1>4, <1>6 DEF h

LEMMA FallingGrows ==
    ASSUME NEW w \in [Elems -> Int], NEW g \in Seq(SUBSET Elems), NEW rest \in Families(Elems),
           Falling(g, rest, w), NEW s \in rest, s \notin Range(g),
           \A y \in rest : Weight(y, w) <= Weight(s, w)
    PROVE  Falling(Append(g, s), rest \ {s}, w)
<1> DEFINE n == Len(g)
           h == Append(g, s)
           W(x) == Weight(x, w)
<1>0. s \in SUBSET Elems /\ \A y \in rest : y \in SUBSET Elems
    BY DEF Families
<1>1. /\ Len(h) = n + 1 /\ n \in Nat
      /\ h[n + 1] = s /\ \A i \in 1..n : h[i] = g[i] /\ g[i] \in SUBSET Elems
      /\ DOMAIN g = 1..n /\ DOMAIN h = 1..(n + 1)
    BY <1>0
<1>2. \A x \in SUBSET Elems : W(x) \in Int
    BY WeightFacts
<1>3. /\ \A i \in 1..(n - 1) : W(g[i]) >= W(g[i + 1])
      /\ \A i \in 1..n : \A y \in rest : W(g[i]) >= W(y)
    BY <1>1 DEF Falling, Range
<1>6. \A y \in rest : W(y) <= W(s)
    OBVIOUS
<1> HIDE DEF h, W
<1>4. ASSUME NEW i \in 1..n PROVE W(h[i]) >= W(h[i + 1])
    <2>1. CASE i = n
        BY <1>1, <1>3, <2>1
    <2>2. CASE i # n
        <3>1. i \in 1..(n - 1) /\ i + 1 \in 1..n
            BY <1>1, <2>2
        <3> QED
            BY <1>1, <1>3, <3>1
    <2> QED
        BY <2>1, <2>2
<1>5. ASSUME NEW i \in 1..(n + 1), NEW y \in rest PROVE W(h[i]) >= W(y)
    <2>1. CASE i = n + 1
        <3>1. h[i] = s
            BY <1>1, <2>1
        <3>2. W(s) \in Int /\ W(y) \in Int /\ W(y) <= W(s)
            BY <1>0, <1>2, <1>6
        <3> QED
            BY <3>1, <3>2
    <2>2. CASE i # n + 1
        <3>1. i \in 1..n
            BY <1>1, <2>2
        <3> QED
            BY <1>1, <1>3, <3>1
    <2> QED
        BY <2>1, <2>2
<1>7. (n + 1) - 1 = n
    BY <1>1
<1>8. \A i \in 1..(Len(h) - 1) : W(h[i]) >= W(h[i + 1])
    BY <1>1, <1>4, <1>7
<1>9. \A x \in Range(h), y \in rest \ {s} : W(x) >= W(y)
    BY <1>1, <1>5 DEF Range
<1> QED
    BY <1>8, <1>9 DEF Falling, h, W

\* null() is no family over the elements.
LEMMA NullApart ==
    /\ NullFamily \notin Families(Elems)
    /\ \A f \in Families(Elems) : f # NullFamily
    /\ Empty \in Families(Elems)
<1>1. -1 \notin Elems
    BY LevelAssumption DEF Elems
<1> QED
    BY <1>1 DEF NullFamily, Families, Empty

LEMMA ReadyPlain ==
    ASSUME NEW it, NEW g, NEW f \in Families(Elems), Ready(it, g, f), it.kind = "plain",
           it.zdd # Empty
    PROVE  Loop(AdvancedPlain(it), g, f)
<1> DEFINE r == Choose(f, Sorted(it.s))
           after == After(f, it.s)
           next == AdvancedPlain(it)
<1>1. /\ it \in Iterators /\ g \in Seq(SUBSET Elems) /\ IsInjective(g)
      /\ it.zdd = f /\ (it.s = {} \/ it.s \in f) /\ Range(g) = f \ after
    BY DEF Ready
<1>2. next = IF ~r.found THEN [it EXCEPT !.zdd = NullFamily]
             ELSE [it EXCEPT !.s = Range(r.stack), !.zdd = IF r.stack = <<>> THEN Empty ELSE @]
    BY <1>1 DEF AdvancedPlain
<1>3. Picked(after, {}, r)
    <2>1. it.s \in SUBSET Elems
        BY <1>1 DEF Families
    <2>2. Stack(Sorted(it.s), it.s)
        BY <2>1, SortedIs
    <2> QED
        BY <1>1, <2>2, ChooseIs DEF Chosen
<1>4. after \in SUBSET f
    BY DEF After
<1> HIDE DEF r, next
<1>5. CASE after = {}
    <2>1. r.found = FALSE
        BY <1>3, <1>5 DEF Picked
    <2>2. next \in Iterators /\ next.zdd = NullFamily /\ next.kind = "plain"
        BY <1>1, <1>2, <2>1 DEF Iterators
    <2>3. Range(g) = f
        BY <1>1, <1>5
    <2>4. Ended(next) /\ next.kind # "weighted"
        BY <2>2 DEF Ended
    <2> HIDE DEF after
    <2>5. Loop(next, g, f)
        BY <1>1, <2>2, <2>3, <2>4 DEF Loop
    <2> QED
        BY <2>5 DEF next
<1>6. CASE after # {}
    <2>1. r.found = TRUE
        BY <1>3, <1>6 DEF Picked
    <2>2. PICK t \in after : Stack(r.stack, t) /\ \A x \in after : x = t \/ Before(t, x)
        <3>1. \A t \in after : {} \cup t = t
            OBVIOUS
        <3> QED
            BY <1>3, <1>6, <3>1 DEF Picked
    <2>3. Range(r.stack) = t /\ (r.stack = <<>> <=> t = {}) /\ t \in SUBSET Elems
        BY <2>2, StackFacts
    <2>4. next = [it EXCEPT !.s = t, !.zdd = IF t = {} THEN Empty ELSE f]
        BY <1>1, <1>2, <2>1, <2>3
    <2>5. /\ next \in Iterators /\ next.s = t /\ next.zdd = IF t = {} THEN Empty ELSE f
          /\ next.kind = "plain" /\ next.w = it.w
        <3> DEFINE z == IF t = {} THEN Empty ELSE f
        <3>1. z \in {NullFamily} \cup Families(Elems)
            BY NullApart
        <3>2. next = [it EXCEPT !.s = t, !.zdd = z]
            BY <2>4
        <3> HIDE DEF z
        <3>3. /\ next \in Iterators /\ next.s = t /\ next.zdd = z
              /\ next.kind = it.kind /\ next.w = it.w
            BY <1>1, <2>3, <3>1, <3>2 DEF Iterators
        <3> QED
            BY <3>3 DEF z
    <2>6. t \in f /\ t \notin f \ after
        BY <1>4, <2>2
    <2>7. f \ after = {x \in f : Before(x, t)}
        <3>0. \A x \in f : x \in SUBSET Elems
            BY DEF Families
        <3>1. ASSUME NEW x \in f, x \notin after PROVE Before(x, t)
            <4>1. it.s # {} /\ ~Before(it.s, x) /\ Before(it.s, t) /\ it.s \in f
                BY <1>1, <2>2, <3>1 DEF After
            <4>2. x \in SUBSET Elems /\ t \in SUBSET Elems /\ it.s \in SUBSET Elems
                BY <2>3, <3>0, <4>1
            <4>3. x = it.s \/ Before(x, it.s)
                BY <4>1, <4>2, BeforeFacts
            <4> QED
                BY <4>1, <4>2, <4>3, BeforeFacts
        <3>2. ASSUME NEW x \in f, x \in after PROVE ~Before(x, t)
            <4>1. x \in SUBSET Elems /\ t \in SUBSET Elems
                BY <2>3, <3>0
            <4>2. x = t \/ Before(t, x)
                BY <2>2, <3>2
            <4> QED
                BY <4>1, <4>2, BeforeFacts
        <3> HIDE DEF after
        <3> QED
            BY <3>1, <3>2
    <2>8. ~Ended(next)
        BY <2>5, NullApart DEF Ended
    <2>9. At(next, g, f)
        BY <1>1, <2>5, <2>6, <2>7 DEF At
    <2>10. next.kind # "weighted"
        BY <2>5
    <2> HIDE DEF after
    <2>11. Loop(next, g, f)
        BY <1>1, <2>5, <2>8, <2>9, <2>10 DEF Loop
    <2> QED
        BY <2>11 DEF next
<1> QED
    BY <1>5, <1>6

LEMMA ReadyOther ==
    ASSUME NEW it, NEW g, NEW f \in Families(Elems), Ready(it, g, f), it.kind # "plain",
           NEW s \in it.zdd,
           it.kind = "weighted" => Heaviest(s, it.zdd, it.w)
    PROVE  Loop([it EXCEPT !.s = s, !.zdd = @ \ OneSet(s)], g, f)
<1> DEFINE next == [it EXCEPT !.s = s, !.zdd = it.zdd \ {s}]
<1>1. /\ it \in Iterators /\ g \in Seq(SUBSET Elems) /\ IsInjective(g)
      /\ Range(g) \subseteq f /\ it.zdd = f \ Range(g)
      /\ it.kind = "weighted" => Falling(g, it.zdd, it.w)
    BY DEF Ready
<1>2. s \in SUBSET Elems /\ it.zdd \in Families(Elems) /\ it.zdd \ {s} \in Families(Elems)
    BY <1>1 DEF Families
<1>3. OneSet(s) = {s}
    BY <1>2, OneSetIs
<1>4. next = [it EXCEPT !.s = s, !.zdd = @ \ OneSet(s)]
    BY <1>3
<1>5. /\ next \in Iterators /\ next.s = s /\ next.zdd = it.zdd \ {s}
      /\ next.kind = it.kind /\ next.w = it.w
    <2>1. next = [it EXCEPT !.s = s, !.zdd = it.zdd \ {s}]
        OBVIOUS
    <2> HIDE DEF next
    <2>2. it.zdd \ {s} \in {NullFamily} \cup Families(Elems)
        BY <1>2
    <2> QED
        BY <1>1, <1>2, <2>1, <2>2 DEF Iterators
<1> HIDE DEF next
<1>6. ~Ended(next)
    BY <1>2, <1>5, NullApart DEF Ended
<1>7. next.zdd = f \ (Range(g) \cup {s}) /\ s \in f \ Range(g)
    BY <1>1, <1>5
<1>8. next.kind = "weighted" => \A y \in next.zdd : Weight(y, next.w) <= Weight(s, next.w)
    BY <1>5 DEF Heaviest
<1>9. At(next, g, f)
    BY <1>1, <1>5, <1>7, <1>8 DEF At
<1>10. next.kind = "weighted" => Falling(g, f \ Range(g), next.w)
    BY <1>1, <1>5
<1>11. Loop(next, g, f)
    BY <1>1, <1>5, <1>6, <1>9, <1>10 DEF Loop
<1> QED
    BY <1>4, <1>11

\* next() goes on to the next set, or ends the loop.
LEMMA ReadyAdvances ==
    ASSUME NEW it, NEW g, NEW f \in Families(Elems), Ready(it, g, f), NEW x \in Advanced(it)
    PROVE  Loop(x, g, f)
<1>1. /\ it \in Iterators /\ g \in Seq(SUBSET Elems) /\ IsInjective(g)
      /\ it.kind = "weighted" => Falling(g, it.zdd, it.w)
    BY DEF Ready
<1>2. it.kind \in {"plain", "random", "weighted"}
    BY <1>1 DEF Iterators
<1>3. it.zdd \in Families(Elems) /\ it.zdd # NullFamily
    <2>1. f \ Range(g) \in Families(Elems)
        BY DEF Families
    <2> QED
        BY <2>1, NullApart DEF Ready
<1>4. CASE it.zdd = Empty
    <2>1. x = [it EXCEPT !.zdd = NullFamily, !.s = {}]
        BY <1>4 DEF Advanced
    <2>2. x \in Iterators /\ x.zdd = NullFamily /\ x.kind = it.kind /\ x.w = it.w
        BY <1>1, <2>1 DEF Iterators
    <2>3. Range(g) = f
        <3>1. CASE it.kind = "plain"
            <4>1. f = Empty => Range(g) = f
                BY <1>4, <3>1 DEF Ready, Empty
            <4> QED
                BY <1>4, <3>1, <4>1 DEF Ready
        <3>2. CASE it.kind # "plain"
            BY <1>4, <3>2 DEF Ready, Empty
        <3> QED
            BY <3>1, <3>2
    <2>4. x.kind = "weighted" => Falling(g, f \ Range(g), x.w)
        <3>1. it.kind = "weighted" => it.zdd = f \ Range(g)
            BY DEF Ready
        <3> QED
            BY <1>1, <2>2, <3>1
    <2> QED
        BY <1>1, <2>2, <2>3, <2>4 DEF Loop, Ended
<1>5. CASE it.zdd # Empty
    <2>1. Advanced(it) = CASE it.kind = "plain" -> {AdvancedPlain(it)}
                           [] it.kind = "weighted" -> {AdvancedWeighted(it)}
                           [] it.kind = "random" -> AdvancedRandom(it)
        BY <1>3, <1>5 DEF Advanced
    <2>2. CASE it.kind = "plain"
        <3>1. x = AdvancedPlain(it)
            BY <2>1, <2>2
        <3> QED
            BY <1>5, <2>2, <3>1, ReadyPlain
    <2>3. CASE it.kind = "weighted"
        <3> DEFINE s == ChooseBest(it.zdd, it.w)
        <3>1. x = [it EXCEPT !.s = s, !.zdd = @ \ OneSet(s)]
            BY <2>1, <2>3 DEF AdvancedWeighted
        <3>2. it.w \in [Elems -> Int]
            BY <1>1, <2>3 DEF Iterators
        <3>3. Heaviest(s, it.zdd, it.w)
            BY <1>3, <1>5, <3>2, ChooseBestIs
        <3> HIDE DEF s
        <3>4. s \in it.zdd
            BY <3>3 DEF Heaviest
        <3> QED
            BY <2>3, <3>1, <3>3, <3>4, ReadyOther
    <2>4. CASE it.kind = "random"
        <3>1. RandomPicks(it.zdd) = it.zdd
            BY <1>3, <1>5, PicksAny
        <3>3. AdvancedRandom(it) =
                {[it EXCEPT !.s = s, !.zdd = @ \ OneSet(s)] : s \in RandomPicks(it.zdd)}
            BY DEF AdvancedRandom
        <3>4. x \in AdvancedRandom(it)
            BY <2>1, <2>4
        <3>2. PICK s \in it.zdd : x = [it EXCEPT !.s = s, !.zdd = @ \ OneSet(s)]
            BY <3>1, <3>3, <3>4
        <3> QED
            BY <2>4, <3>2, ReadyOther
    <2> QED
        BY <1>2, <2>2, <2>3, <2>4
<1> QED
    BY <1>4, <1>5

\* A set is given before next() is called.
LEMMA LoopGives ==
    ASSUME NEW it, NEW g, NEW f \in Families(Elems), Loop(it, g, f), ~Ended(it)
    PROVE  Ready(it, Append(g, it.s), f)
<1> DEFINE s == it.s
           h == Append(g, s)
<1>1. /\ it \in Iterators /\ g \in Seq(SUBSET Elems) /\ IsInjective(g)
      /\ it.kind = "weighted" => Falling(g, f \ Range(g), it.w)
      /\ At(it, g, f)
    BY DEF Loop
<1>2. s \in f /\ s \notin Range(g) /\ s \in SUBSET Elems
    BY <1>1 DEF At, Families
<1>3. h \in Seq(SUBSET Elems) /\ Range(h) = Range(g) \cup {s} /\ IsInjective(h)
    BY <1>1, <1>2, GivenFacts
<1>4. CASE it.kind = "plain"
    <2>1. it.zdd = (IF s = {} THEN Empty ELSE f) /\ Range(g) = {x \in f : Before(x, s)}
        BY <1>1, <1>4 DEF At
    <2>2. \A x \in f : x \in SUBSET Elems
        BY DEF Families
    <2>3. CASE s = {}
        <3>1. \A x \in f : x # {} => Before(x, s)
            BY <2>2, <2>3, BeforeFacts
        <3>2. Range(h) = f
            BY <1>2, <1>3, <2>1, <2>3, <3>1
        <3> QED
            BY <1>1, <1>3, <1>4, <2>1, <2>3, <3>2 DEF Ready
    <2>4. CASE s # {}
        <3>1. ASSUME NEW x \in f PROVE (Before(x, s) \/ x = s) <=> ~Before(s, x)
            <4>1. x \in SUBSET Elems
                BY <2>2
            <4> HIDE DEF s
            <4> QED
                BY <1>2, <4>1, BeforeFacts
        <3>2. After(f, s) = {x \in f : Before(s, x)}
            BY <2>4 DEF After
        <3> HIDE DEF s, h
        <3>3. Range(h) = f \ After(f, s)
            BY <1>2, <1>3, <2>1, <3>1, <3>2
        <3> QED
            BY <1>1, <1>2, <1>3, <1>4, <2>1, <2>4, <3>3 DEF Ready, s, h
    <2> QED
        BY <2>3, <2>4
<1>5. CASE it.kind # "plain"
    <2>1. Range(g) \subseteq f /\ it.zdd = f \ (Range(g) \cup {s})
        BY <1>1, <1>5 DEF At
    <2>2. Range(h) \subseteq f /\ it.zdd = f \ Range(h)
        BY <1>2, <1>3, <2>1
    <2>3. ASSUME it.kind = "weighted" PROVE Falling(h, it.zdd, it.w)
        <3> DEFINE rest == f \ Range(g)
        <3>1. it.w \in [Elems -> Int]
            BY <1>1, <2>3 DEF Iterators
        <3>2. rest \in Families(Elems) /\ s \in rest /\ it.zdd = rest \ {s}
            BY <1>2, <2>1 DEF Families
        <3>3. \A y \in it.zdd : Weight(y, it.w) <= Weight(s, it.w)
            BY <1>1, <2>3 DEF At
        <3>4. Weight(s, it.w) <= Weight(s, it.w)
            BY <1>2, <3>1, WeightFacts
        <3>5. \A y \in rest : Weight(y, it.w) <= Weight(s, it.w)
            BY <3>2, <3>3, <3>4
        <3>6. Falling(g, rest, it.w)
            BY <1>1, <2>3
        <3> HIDE DEF rest
        <3> QED
            BY <1>1, <1>2, <3>1, <3>2, <3>5, <3>6, FallingGrows
    <2> HIDE DEF h
    <2>4. Ready(it, h, f)
        BY <1>1, <1>3, <1>5, <2>2, <2>3 DEF Ready
    <2> QED
        BY <2>4 DEF h
<1> QED
    BY <1>4, <1>5

\* A loop begins with nothing given.
LEMMA BeginReady ==
    ASSUME NEW f \in Families(Elems), NEW kind, NEW w,
           \/ kind \in {"plain", "random"} /\ w = <<>>
           \/ kind = "weighted" /\ w \in [Elems -> Int]
    PROVE  Ready([kind |-> kind, zdd |-> f, s |-> {}, w |-> w], <<>>, f)
<1> DEFINE it == [kind |-> kind, zdd |-> f, s |-> {}, w |-> w]
<1>1. it \in Iterators
    BY DEF Iterators
<1>2. it.kind = kind /\ it.zdd = f /\ it.s = {} /\ it.w = w
    OBVIOUS
<1>3. /\ <<>> \in Seq(SUBSET Elems) /\ IsInjective(<<>>) /\ Range(<<>>) = {}
      /\ Len(<<>>) = 0
    BY DEF IsInjective, Range
<1>4. After(f, {}) = f
    BY DEF After
<1> HIDE DEF it
<1>5. Falling(<<>>, it.zdd, it.w)
    BY <1>3 DEF Falling
<1>6. Ready(it, <<>>, f)
    BY <1>1, <1>2, <1>3, <1>4, <1>5 DEF Ready
<1> QED
    BY <1>6 DEF it

LEMMA LoopStarts ==
    ASSUME AnswerInv, LoopInv, Operation
    PROVE  LoopInv'
<1>1. this \in Families(Elems) /\ asked = NotAsked /\ iter = NoIter /\ given = <<>>
    BY DEF AnswerInv, LoopInv, Operation, Idle
<1>2. ASSUME NEW kind, NEW w, Begin(kind, w),
             \/ kind \in {"plain", "random"} /\ w = <<>>
             \/ kind = "weighted" /\ w \in [Elems -> Int]
      PROVE  LoopInv'
    <2>1. /\ iter' \in Advanced([kind |-> kind, zdd |-> this, s |-> {}, w |-> w])
          /\ this' = this /\ asked' = NotAsked /\ given' = <<>>
        BY <1>1, <1>2 DEF Begin
    <2>2. Ready([kind |-> kind, zdd |-> this, s |-> {}, w |-> w], <<>>, this)
        BY <1>1, <1>2, BeginReady
    <2>3. Loop(iter', <<>>, this)
        BY <1>1, <2>1, <2>2, ReadyAdvances
    <2> QED
        BY <2>1, <2>3 DEF LoopInv
<1>3. CASE iter' = iter /\ given' = given
    BY <1>1, <1>3 DEF LoopInv
<1>4. ASSUME NEW w \in Weights PROVE w \in [Elems -> Int] /\ Negative(w) \in [Elems -> Int]
    BY SetsetsAssumption DEF Negative
<1>5. CASE \/ Begin("plain", <<>>) \/ Begin("random", <<>>)
           \/ \E w \in Weights : Begin("weighted", w) \/ Begin("weighted", Negative(w))
    BY <1>2, <1>4, <1>5
<1>6. CASE \E s \in SUBSET Elems : Insert(s) \/ Erase(s) \/ AskCount(s)
    BY <1>3, <1>6 DEF Insert, Erase, AskCount, Becomes, Ask
<1>7. CASE Clear \/ AskAlone \/ AskStream \/ AskStructure
    BY <1>3, <1>7 DEF Clear, AskAlone, AskStream, AskStructure, Becomes, Ask
<1>8. CASE \E g \in Others : CombineWith(g) \/ AskWith(g)
    BY <1>3, <1>8 DEF CombineWith, AskWith, Becomes, Ask
<1>9. CASE \E e \in Elems : AskElem(e) \/ AskVariable(e)
    BY <1>3, <1>9 DEF AskElem, AskVariable, Ask
<1>10. CASE \E v, w \in Elems : AskVariables(v, w)
    BY <1>3, <1>10 DEF AskVariables, Ask
<1>11. CASE \E n \in 0..NumElems : AskSize(n)
    BY <1>3, <1>11 DEF AskSize, Ask
<1>12. CASE \E in, ex \in SUBSET Elems : Construct(in, ex)
    BY <1>3, <1>12 DEF Construct, Ask
<1>13. CASE \E p \in [Elems -> 0..Unit1] : AskProbability(p)
    BY <1>3, <1>13 DEF AskProbability, Ask
<1> QED
    BY <1>5, <1>6, <1>7, <1>8, <1>9, <1>10, <1>11, <1>12, <1>13 DEF Operation

\* The invariant of the loops: the sets given are those before the one the
\* iterator is at, and what is left is the rest.
THEOREM LoopInductive == Spec => []LoopInv
<1>1. Init => LoopInv
    BY DEF Init, LoopInv
<1>2. AnswerInv /\ LoopInv /\ [Next]_vars => LoopInv'
    <2> SUFFICES ASSUME AnswerInv, LoopInv, [Next]_vars PROVE LoopInv'
        OBVIOUS
    <2>1. CASE Operation
        BY <2>1, LoopStarts
    <2>2. CASE Answered
        <3>1. iter = NoIter
            BY <2>2 DEF Answered, LoopInv
        <3> QED
            BY <2>2, <3>1 DEF Answered, LoopInv
    <2>3. CASE Step
        <3>1. /\ this \in Families(Elems) /\ asked = NotAsked /\ Loop(iter, given, this)
              /\ ~Ended(iter) /\ iter' \in Advanced(iter) /\ given' = Append(given, iter.s)
              /\ this' = this /\ asked' = asked
            BY <2>3 DEF Step, AnswerInv, LoopInv
        <3>2. Ready(iter, given', this)
            BY <3>1, LoopGives
        <3>3. Loop(iter', given', this)
            BY <3>1, <3>2, ReadyAdvances
        <3>4. iter' # NoIter
            <4>1. iter' \in Iterators
                BY <3>3 DEF Loop
            <4>2. iter'.kind # "none"
                BY <4>1 DEF Iterators
            <4> QED
                BY <4>2 DEF NoIter
        <3> QED
            BY <3>1, <3>3, <3>4 DEF LoopInv
    <2>4. CASE EndLoop \/ UNCHANGED vars
        BY <2>4 DEF EndLoop, vars, LoopInv
    <2> QED
        BY <2>1, <2>2, <2>3, <2>4 DEF Next
<1> QED
    BY <1>1, <1>2, AnswersInductive, PTL DEF Spec

\* A loop sees every set of the object once, with each kind of iterator.
THEOREM EachSetOnceAlways == Spec => []EachSetOnce
<1>1. LoopInv => EachSetOnce
    <2>1. IsInjective(<<>>)
        BY DEF IsInjective
    <2> QED
        BY <2>1 DEF LoopInv, Loop, At, EachSetOnce
<1> QED
    BY <1>1, LoopInductive, PTL

\* max_iter() and min_iter() give the sets in the order of their weights.
THEOREM WeightsInOrderAlways == Spec => []WeightsInOrder
<1>1. LoopInv => WeightsInOrder
    BY DEF LoopInv, Loop, Falling, WeightsInOrder
<1> QED
    BY <1>1, LoopInductive, PTL

\* The loops are right.
THEOREM IteratorsRightAlways == Spec => []IteratorsRight
<1>1. EachSetOnce /\ WeightsInOrder => IteratorsRight
    BY DEF IteratorsRight
<1> QED
    BY <1>1, EachSetOnceAlways, WeightsInOrderAlways, PTL

-----------------------------------------------------------------------------
(***************************************************************************)
(* The probability of an object                                            *)
(***************************************************************************)
\* The probability that the elements of E that are taken are those of s.
Chance(E, s, p, unit) ==
    FoldFunction(LAMBDA a, b : a * b, 1, [e \in E |-> IF e \in s THEN p[e] ELSE unit - p[e]])
Factor(e, s, p, unit) == IF e \in s THEN p[e] ELSE unit - p[e]

FactorsOut(s, p, unit) ==
    \A E \in SUBSET Elems : \A e \in E :
        Chance(E, s, p, unit) = Factor(e, s, p, unit) * Chance(E \ {e}, s, p, unit)

\* It is a product that can be taken in any order.
LEMMA ChanceFacts ==
    ASSUME NEW p \in [Elems -> Int], NEW unit \in Int, NEW s
    PROVE  /\ \A E \in SUBSET Elems : Chance(E, s, p, unit) \in Int
           /\ Chance({}, s, p, unit) = 1
           /\ FactorsOut(s, p, unit)
<1> DEFINE op == [x \in Int \X Int |-> x[1] * x[2]]
           val == [e \in Elems |-> Factor(e, s, p, unit)]
           F == CHOOSE h : h = [x \in SUBSET Elems |-> FoldNext(val, op, 1, h, x)]
<1>1. op \in [Int \X Int -> Int] /\ \A a, b \in Int : op[<<a, b>>] = a * b
    OBVIOUS
<1>2. \A e \in Elems : val[e] = Factor(e, s, p, unit) /\ val[e] \in Int
    BY DEF Factor
<1> HIDE DEF op, val
<1>3. LeftCommutes(op)
    <2>1. ASSUME NEW a \in Int, NEW b \in Int, NEW c \in Int
          PROVE  op[<<a, op[<<b, c>>]>>] = op[<<b, op[<<a, c>>]>>]
        <3>1. op[<<b, c>>] = b * c /\ op[<<a, c>>] = a * c /\ b * c \in Int /\ a * c \in Int
            BY <1>1
        <3>2. op[<<a, b * c>>] = a * (b * c) /\ op[<<b, a * c>>] = b * (a * c)
            BY <1>1, <3>1
        <3>3. a * (b * c) = b * (a * c)
            OBVIOUS
        <3> QED
            BY <3>1, <3>2, <3>3
    <2> QED
        BY <2>1 DEF LeftCommutes
<1>4. FoldOf(Elems, val, op, 1, F)
    <2> HIDE DEF F
    <2>1. F = CHOOSE h : h = [x \in SUBSET Elems |-> FoldNext(val, op, 1, h, x)]
        BY DEF F
    <2>2. 1 \in Int /\ IsFiniteSet(Elems) /\ \A e \in Elems : val[e] \in Int
        BY <1>2, ElemFacts
    <2> QED
        BY <1>1, <1>3, <2>1, <2>2, FoldFacts, Zenon
<1> HIDE DEF F
<1>5. /\ \A x \in SUBSET Elems : F[x] \in Int
      /\ F[{}] = 1
      /\ \A x \in SUBSET Elems : \A e \in x : F[x] = Factor(e, s, p, unit) * F[x \ {e}]
    <2>1. F \in [SUBSET Elems -> Int] /\ F[{}] = 1
        BY <1>4 DEF FoldOf
    <2>2. ASSUME NEW x \in SUBSET Elems, NEW e \in x
          PROVE  F[x] = Factor(e, s, p, unit) * F[x \ {e}]
        <3>1. F[x] = op[<<val[e], F[x \ {e}]>>]
            BY <1>4 DEF FoldOf
        <3>2. val[e] = Factor(e, s, p, unit) /\ val[e] \in Int /\ F[x \ {e}] \in Int
            BY <1>2, <2>1
        <3> QED
            BY <1>1, <3>1, <3>2
    <2> QED
        BY <2>1, <2>2
<1>6. ASSUME NEW E \in SUBSET Elems PROVE Chance(E, s, p, unit) = F[E]
    <2> DEFINE fun == [e \in E |-> IF e \in s THEN p[e] ELSE unit - p[e]]
               next(h, x) == IF x = {} THEN 1
                             ELSE fun[CHOOSE y \in x : TRUE] * h[x \ {CHOOSE y \in x : TRUE}]
               ref == [x \in SUBSET E |-> F[x]]
               turn == CHOOSE h : h = [x \in SUBSET E |-> next(h, x)]
    <2>0. DOMAIN fun = E /\ \A e \in E : fun[e] = Factor(e, s, p, unit)
        BY DEF Factor
    <2>1. Chance(E, s, p, unit) = turn[E]
        <3>1. Chance(E, s, p, unit) = FoldFunctionOnSet(LAMBDA a, b : a * b, 1, fun, DOMAIN fun)
            BY DEF Chance, FoldFunction
        <3> HIDE DEF fun
        <3>2. Chance(E, s, p, unit) = FoldFunctionOnSet(LAMBDA a, b : a * b, 1, fun, E)
            BY <2>0, <3>1
        <3> QED
            BY <3>2 DEF FoldFunctionOnSet, MapThenFoldSet
    <2> HIDE DEF fun
    <2>2. ASSUME NEW x \in SUBSET E, NEW h, \A t \in x : h[x \ {t}] = ref[x \ {t}]
          PROVE  next(h, x) = F[x]
        <3>1. CASE x = {}
            BY <1>5, <3>1
        <3>2. CASE x # {}
            <4> DEFINE e == CHOOSE y \in x : TRUE
            <4>1. e \in x
                BY <3>2
            <4>2. next(h, x) = fun[e] * h[x \ {e}]
                BY <3>2
            <4> HIDE DEF e, next
            <4>3. h[x \ {e}] = F[x \ {e}] /\ x \in SUBSET Elems
                BY <2>2, <4>1
            <4>4. F[x] = Factor(e, s, p, unit) * F[x \ {e}]
                BY <1>5, <4>1, <4>3
            <4> QED
                BY <2>0, <4>1, <4>2, <4>3, <4>4
        <3> QED
            BY <3>1, <3>2
    <2> HIDE DEF next
    <2>3. ref = [x \in SUBSET E |-> next(ref, x)]
        BY <2>2
    <2>4. turn = [x \in SUBSET E |-> next(turn, x)]
        BY <2>3, Zenon
    <2> HIDE DEF turn
    <2>5. \A x \in SUBSET E : (\A t \in x : turn[x \ {t}] = ref[x \ {t}]) => turn[x] = ref[x]
        BY <2>2, <2>4
    <2>6. IsFiniteSet(E)
        BY ElemFacts, FS_Subset
    <2> HIDE DEF ref
    <2>7. turn[E] = ref[E]
        BY <2>5, <2>6, SameLoop
    <2> QED
        BY <2>1, <2>7 DEF ref
<1>7. \A E \in SUBSET Elems : \A e \in E : E \ {e} \in SUBSET Elems
    OBVIOUS
<1>8. {} \in SUBSET Elems
    OBVIOUS
<1> QED
    BY <1>5, <1>6, <1>7, <1>8 DEF FactorsOut

\* It depends on the elements of E that s has.
LEMMA ChanceAlike ==
    ASSUME NEW E \in SUBSET Elems, NEW s, NEW t, NEW p, NEW unit, \A e \in E : e \in s <=> e \in t
    PROVE  Chance(E, s, p, unit) = Chance(E, t, p, unit)
<1>1. [e \in E |-> IF e \in s THEN p[e] ELSE unit - p[e]]
        = [e \in E |-> IF e \in t THEN p[e] ELSE unit - p[e]]
    OBVIOUS
<1> QED
    BY <1>1 DEF Chance

\* The likelihood of a family is a sum that can be taken in any order.
LEMMA LikelihoodFacts ==
    ASSUME NEW p \in [Elems -> Int], NEW unit \in Int, NEW E \in SUBSET Elems
    PROVE  /\ \A f \in Families(Elems) : Likelihood(E, f, p, unit) \in Int
           /\ Likelihood(E, {}, p, unit) = 0
           /\ \A f \in Families(Elems) : \A s \in f :
                Likelihood(E, f, p, unit)
                    = Chance(E, s, p, unit) + Likelihood(E, f \ {s}, p, unit)
<1> DEFINE op == [x \in Int \X Int |-> x[1] + x[2]]
           T == SUBSET Elems
           val == [s \in T |-> Chance(E, s, p, unit)]
           F == CHOOSE h : h = [x \in SUBSET T |-> FoldNext(val, op, 0, h, x)]
<1>1. op \in [Int \X Int -> Int] /\ \A a, b \in Int : op[<<a, b>>] = a + b
    OBVIOUS
<1>2. \A s \in T : val[s] = Chance(E, s, p, unit) /\ val[s] \in Int
    BY ChanceFacts
<1>0. SUBSET T = Families(Elems) /\ IsFiniteSet(T)
    BY ElemFacts, FS_SUBSET DEF Families
<1> HIDE DEF op, val, T
<1>3. LeftCommutes(op)
    <2>1. ASSUME NEW a \in Int, NEW b \in Int, NEW c \in Int
          PROVE  op[<<a, op[<<b, c>>]>>] = op[<<b, op[<<a, c>>]>>]
        <3>1. op[<<b, c>>] = b + c /\ op[<<a, c>>] = a + c /\ b + c \in Int /\ a + c \in Int
            BY <1>1
        <3>2. op[<<a, b + c>>] = a + (b + c) /\ op[<<b, a + c>>] = b + (a + c)
            BY <1>1, <3>1
        <3> QED
            BY <3>1, <3>2
    <2> QED
        BY <2>1 DEF LeftCommutes
<1>4. FoldOf(T, val, op, 0, F)
    <2> HIDE DEF F
    <2>1. F = CHOOSE h : h = [x \in SUBSET T |-> FoldNext(val, op, 0, h, x)]
        BY DEF F
    <2>2. 0 \in Int /\ IsFiniteSet(T) /\ \A s \in T : val[s] \in Int
        BY <1>0, <1>2
    <2> QED
        BY <1>1, <1>3, <2>1, <2>2, FoldFacts, Zenon
<1> HIDE DEF F
<1>5. /\ \A x \in SUBSET T : F[x] \in Int
      /\ F[{}] = 0
      /\ \A x \in SUBSET T : \A s \in x : F[x] = Chance(E, s, p, unit) + F[x \ {s}]
    <2>1. F \in [SUBSET T -> Int] /\ F[{}] = 0
        BY <1>4 DEF FoldOf
    <2>2. ASSUME NEW x \in SUBSET T, NEW s \in x
          PROVE  F[x] = Chance(E, s, p, unit) + F[x \ {s}]
        <3>1. F[x] = op[<<val[s], F[x \ {s}]>>]
            BY <1>4 DEF FoldOf
        <3>2. val[s] = Chance(E, s, p, unit) /\ val[s] \in Int /\ F[x \ {s}] \in Int
            BY <1>2, <2>1
        <3> QED
            BY <1>1, <3>1, <3>2
    <2> QED
        BY <2>1, <2>2
<1>6. ASSUME NEW f \in SUBSET T PROVE Likelihood(E, f, p, unit) = F[f]
    <2> DEFINE next(h, x) == IF x = {} THEN 0
                             ELSE Chance(E, CHOOSE y \in x : TRUE, p, unit)
                                    + h[x \ {CHOOSE y \in x : TRUE}]
               ref == [x \in SUBSET f |-> F[x]]
               turn == CHOOSE h : h = [x \in SUBSET f |-> next(h, x)]
    <2>1. Likelihood(E, f, p, unit) = turn[f]
        <3>1. Likelihood(E, f, p, unit) = MapThenSumSet(LAMBDA s : Chance(E, s, p, unit), f)
            BY DEF Likelihood, Chance
        <3> QED
            BY <3>1 DEF MapThenSumSet, MapThenFoldSet
    <2>2. ASSUME NEW x \in SUBSET f, NEW h, \A t \in x : h[x \ {t}] = ref[x \ {t}]
          PROVE  next(h, x) = F[x]
        <3>1. CASE x = {}
            BY <1>5, <3>1
        <3>2. CASE x # {}
            <4> DEFINE e == CHOOSE y \in x : TRUE
            <4>1. e \in x
                BY <3>2
            <4>2. next(h, x) = Chance(E, e, p, unit) + h[x \ {e}]
                BY <3>2
            <4> HIDE DEF e, next
            <4>3. h[x \ {e}] = F[x \ {e}] /\ x \in SUBSET T
                BY <2>2, <4>1
            <4> QED
                BY <1>5, <4>1, <4>2, <4>3
        <3> QED
            BY <3>1, <3>2
    <2> HIDE DEF next
    <2>3. ref = [x \in SUBSET f |-> next(ref, x)]
        BY <2>2
    <2>4. turn = [x \in SUBSET f |-> next(turn, x)]
        BY <2>3, Zenon
    <2> HIDE DEF turn
    <2>5. \A x \in SUBSET f : (\A t \in x : turn[x \ {t}] = ref[x \ {t}]) => turn[x] = ref[x]
        BY <2>2, <2>4
    <2>6. IsFiniteSet(f)
        BY <1>0, FS_Subset
    <2> HIDE DEF ref
    <2>7. turn[f] = ref[f]
        BY <2>5, <2>6, SameLoop
    <2> QED
        BY <2>1, <2>7 DEF ref
<1>7. \A f \in SUBSET T : \A s \in f : f \ {s} \in SUBSET T
    OBVIOUS
<1>8. {} \in SUBSET T
    OBVIOUS
<1> QED
    BY <1>0, <1>5, <1>6, <1>7, <1>8

\* The likelihood of a family from those of its cofactors.
LEMMA LikelihoodSplit ==
    ASSUME NEW p \in [Elems -> Int], NEW unit \in Int, NEW E \in SUBSET Elems, NEW v \in E,
           NEW f \in Families(Elems)
    PROVE  Likelihood(E, f, p, unit)
                = (unit - p[v]) * Likelihood(E \ {v}, OffSet(f, v), p, unit)
                    + p[v] * Likelihood(E \ {v}, OnSet0(f, v), p, unit)
<1> DEFINE L(g) == Likelihood(E, g, p, unit)
           R(g) == Likelihood(E \ {v}, g, p, unit)
           C(s) == Chance(E \ {v}, s, p, unit)
           a == unit - p[v]
           b == p[v]
           Splits(g) == L(g) = a * R(OffSet(g, v)) + b * R(OnSet0(g, v))
           Good == {g \in SUBSET f : Splits(g)}
<1>1. a \in Int /\ b \in Int /\ E \ {v} \in SUBSET Elems /\ v \in Elems
    OBVIOUS
<1>2. /\ \A g \in Families(Elems) : L(g) \in Int /\ R(g) \in Int
      /\ L({}) = 0 /\ R({}) = 0
      /\ \A g \in Families(Elems) : \A s \in g : L(g) = Chance(E, s, p, unit) + L(g \ {s})
      /\ \A g \in Families(Elems) : \A s \in g : R(g) = C(s) + R(g \ {s})
    BY <1>1, LikelihoodFacts
<1>3. \A s : C(s) \in Int /\ Chance(E, s, p, unit) = (IF v \in s THEN b ELSE a) * C(s)
                          /\ C(s) = C(s \ {v})
    <2>1. ASSUME NEW s PROVE C(s) = C(s \ {v})
        BY <1>1, ChanceAlike
    <2>2. ASSUME NEW s PROVE C(s) \in Int
        BY <1>1, ChanceFacts
    <2>3. ASSUME NEW s PROVE Chance(E, s, p, unit) = Factor(v, s, p, unit) * C(s)
        <3>1. FactorsOut(s, p, unit)
            BY ChanceFacts
        <3> QED
            BY <3>1 DEF FactorsOut
    <2> HIDE DEF C
    <2> QED
        BY <2>1, <2>2, <2>3 DEF Factor
<1> HIDE DEF L, R, C, a, b
<1>4. ASSUME NEW g \in SUBSET f, NEW s \in g, Splits(g \ {s}) PROVE Splits(g)
    <2> DEFINE h == g \ {s}
               g0 == OffSet(g, v)
               g1 == OnSet0(g, v)
               h0 == OffSet(h, v)
               h1 == OnSet0(h, v)
    <2>0. g \in Families(Elems) /\ h \in Families(Elems)
        BY DEF Families
    <2>1. g0 \in Families(Elems) /\ g1 \in Families(Elems) /\ h0 \in Families(Elems)
          /\ h1 \in Families(Elems)
        <3>1. /\ g0 \in Families(Elems \ {v}) /\ g1 \in Families(Elems \ {v})
              /\ h0 \in Families(Elems \ {v}) /\ h1 \in Families(Elems \ {v})
            BY <2>0, CofactorFacts
        <3> HIDE DEF g0, g1, h0, h1
        <3> QED
            BY <3>1 DEF Families
    <2>2. \A t : t \in g0 <=> t \in g /\ v \notin t
        BY OffSetIn
    <2>3. \A t : t \in h0 <=> t \in h /\ v \notin t
        BY OffSetIn
    <2>4. \A t : t \in g1 <=> v \notin t /\ t \cup {v} \in g
        BY OnSet0In
    <2>5. \A t : t \in h1 <=> v \notin t /\ t \cup {v} \in h
        BY OnSet0In
    <2>6. L(g) = Chance(E, s, p, unit) + L(h)
        BY <1>2, <2>0
    <2>7. L(h) = a * R(h0) + b * R(h1)
        BY <1>4
    <2> HIDE DEF g0, g1, h0, h1
    <2>8. R(g0) \in Int /\ R(g1) \in Int /\ R(h0) \in Int /\ R(h1) \in Int /\ C(s) \in Int
        BY <1>2, <1>3, <2>1
    <2>9. CASE v \in s
        <3>1. h0 = g0
            BY <2>2, <2>3, <2>9
        <3> DEFINE r == s \ {v}
        <3>2. r \cup {v} = s /\ v \notin r
            BY <2>9
        <3>3. \A t : v \notin t /\ t \cup {v} = s => t = r
            OBVIOUS
        <3> HIDE DEF r
        <3>4. r \in g1
            BY <2>4, <3>2
        <3>5. h1 = g1 \ {r}
            <4>1. \A t : t \in h1 <=> t \in g1 /\ t # r
                BY <2>4, <2>5, <3>2, <3>3
            <4> QED
                BY <4>1
        <3>6. R(g1) = C(r) + R(h1)
            BY <1>2, <2>1, <3>4, <3>5
        <3>7. C(r) = C(s)
            BY <1>3 DEF r
        <3>8. Chance(E, s, p, unit) = b * C(s)
            BY <1>3, <2>9
        <3>9. b * (C(s) + R(h1)) = b * C(s) + b * R(h1)
            BY <1>1, <2>8
        <3>10. a * R(g0) \in Int /\ b * R(h1) \in Int /\ b * C(s) \in Int
            BY <1>1, <2>8
        <3>11. L(g) = a * R(g0) + b * R(g1)
            BY <2>6, <2>7, <3>1, <3>6, <3>7, <3>8, <3>9, <3>10
        <3> QED
            BY <3>11 DEF g0, g1
    <2>10. CASE v \notin s
        <3>1. h1 = g1
            <4>1. \A t : t \cup {v} # s
                BY <2>10
            <4>2. \A t : t \in h1 <=> t \in g1
                BY <2>4, <2>5, <4>1
            <4> QED
                BY <4>2
        <3>2. s \in g0 /\ h0 = g0 \ {s}
            BY <2>2, <2>3, <2>10
        <3>3. R(g0) = C(s) + R(h0)
            BY <1>2, <2>1, <3>2
        <3>4. Chance(E, s, p, unit) = a * C(s)
            BY <1>3, <2>10
        <3>5. a * (C(s) + R(h0)) = a * C(s) + a * R(h0)
            BY <1>1, <2>8
        <3>6. a * R(h0) \in Int /\ b * R(h1) \in Int /\ a * C(s) \in Int
            BY <1>1, <2>8
        <3>7. L(g) = a * R(g0) + b * R(g1)
            BY <2>6, <2>7, <3>1, <3>3, <3>4, <3>5, <3>6
        <3> QED
            BY <3>7 DEF g0, g1
    <2> QED
        BY <2>9, <2>10
<1>5. Splits({})
    <2>1. OffSet({}, v) = {} /\ OnSet0({}, v) = {}
        BY DEF OffSet, OnSet0
    <2>2. a * 0 + b * 0 = 0
        BY <1>1
    <2> QED
        BY <1>2, <2>1, <2>2
<1> HIDE DEF Splits
<1>6. ASSUME NEW g \in SUBSET f, \A t \in g : g \ {t} \in Good PROVE g \in Good
    <2>1. CASE g = {}
        BY <1>5, <2>1
    <2>2. CASE g # {}
        <3>1. PICK s \in g : TRUE
            BY <2>2
        <3>2. Splits(g \ {s})
            BY <1>6
        <3> QED
            BY <1>4, <3>2
    <2> QED
        BY <2>1, <2>2
<1>7. IsFiniteSet(f)
    BY ElemFacts, FS_SUBSET, FS_Subset DEF Families
<1> HIDE DEF Good
<1>8. f \in Good
    BY <1>6, <1>7, SetInduction
<1>9. Splits(f)
    BY <1>8 DEF Good
<1> QED
    BY <1>9 DEF Splits, L, R, a, b

\* Elements that are in none of the sets are not taken.
LEMMA LikelihoodSkips ==
    ASSUME NEW p \in [Elems -> Int], NEW unit \in Int, NEW E \in SUBSET Elems, NEW J \in SUBSET E,
           NEW f \in Families(Elems), Without(f, J)
    PROVE  Likelihood(E, f, p, unit) = Chance(J, {}, p, unit) * Likelihood(E \ J, f, p, unit)
<1> DEFINE L(G) == Likelihood(G, f, p, unit)
           C(S) == Chance(S, {}, p, unit)
           Good == {S \in SUBSET J : L(E) = C(S) * L(E \ S)}
<1>1. /\ \A S \in SUBSET Elems : C(S) \in Int
      /\ C({}) = 1
      /\ \A S \in SUBSET Elems : \A e \in S : C(S) = Factor(e, {}, p, unit) * C(S \ {e})
    <2>1. FactorsOut({}, p, unit)
        BY ChanceFacts
    <2> QED
        BY <2>1, ChanceFacts DEF FactorsOut
<1>2. \A G \in SUBSET Elems : L(G) \in Int
    BY LikelihoodFacts
<1>3. ASSUME NEW G \in SUBSET Elems, NEW t \in G, t \in J
      PROVE  L(G) = (unit - p[t]) * L(G \ {t})
    <2>1. L(G) = (unit - p[t]) * Likelihood(G \ {t}, OffSet(f, t), p, unit)
                    + p[t] * Likelihood(G \ {t}, OnSet0(f, t), p, unit)
        BY LikelihoodSplit
    <2>2. \A s \in f : t \notin s
        BY <1>3 DEF Without
    <2>3. OffSet(f, t) = f /\ OnSet0(f, t) = {}
        BY <2>2 DEF OffSet, OnSet0
    <2>4. Likelihood(G \ {t}, {}, p, unit) = 0 /\ L(G \ {t}) \in Int /\ p[t] \in Int
        BY LikelihoodFacts
    <2>5. L(G) = (unit - p[t]) * L(G \ {t}) + p[t] * 0
        BY <2>1, <2>3, <2>4
    <2> HIDE DEF L
    <2>6. p[t] * 0 = 0 /\ (unit - p[t]) * L(G \ {t}) \in Int
        BY <2>4
    <2> QED
        BY <2>5, <2>6
<1> HIDE DEF L, C
<1>4. ASSUME NEW S \in SUBSET J, \A t \in S : S \ {t} \in Good PROVE S \in Good
    <2>1. CASE S = {}
        <3>1. E \ S = E
            BY <2>1
        <3>2. L(E) = 1 * L(E)
            BY <1>2
        <3> QED
            BY <1>1, <2>1, <3>1, <3>2
    <2>2. CASE S # {}
        <3>1. PICK t \in S : TRUE
            BY <2>2
        <3> DEFINE q == unit - p[t]
                   c == C(S \ {t})
                   l == L(E \ S)
        <3>2. L(E) = c * L(E \ (S \ {t}))
            BY <1>4, <3>1
        <3>3. E \ (S \ {t}) \in SUBSET Elems /\ t \in E \ (S \ {t})
              /\ (E \ (S \ {t})) \ {t} = E \ S /\ t \in J
              /\ S \in SUBSET Elems /\ S \ {t} \in SUBSET Elems /\ E \ S \in SUBSET Elems
            BY <3>1
        <3>4. L(E \ (S \ {t})) = q * l
            BY <1>3, <3>3
        <3>5. C(S) = q * c
            BY <1>1, <3>1, <3>3 DEF Factor
        <3>6. q \in Int /\ c \in Int /\ l \in Int
            BY <1>1, <1>2, <3>1, <3>3
        <3> HIDE DEF q, c, l
        <3>7. c * (q * l) = (q * c) * l
            BY <3>6
        <3>8. L(E) = C(S) * l
            BY <3>2, <3>4, <3>5, <3>7
        <3> QED
            BY <3>8 DEF l
    <2> QED
        BY <2>1, <2>2
<1>5. IsFiniteSet(J)
    BY ElemFacts, FS_Subset
<1> HIDE DEF Good
<1>6. J \in Good
    BY <1>4, <1>5, SetInduction
<1> QED
    BY <1>6 DEF Good, L, C

SkipAlong(p, unit, seq) == FoldLeft(LAMBDA acc, i : acc * (unit - p[i]), 1, seq)
NextElem(f) == IF IsTerm(f) THEN NumElems + 1 ELSE Top(f)

\* The factor for the elements of skipped levels.
LEMMA SkipIs ==
    ASSUME NEW p \in [Elems -> Int], NEW unit \in Int, NEW e \in 1..(NumElems + 1), NEW f,
           NEW n \in e..(NumElems + 1), n = NextElem(f)
    PROVE  SkipProbability(e, f, p, unit) = Chance(e..(n - 1), {}, p, unit)
<1> DEFINE m == n - e
           later(x) == {e + i - 1 : i \in x}
           seq == [i \in 1..m |-> e + i - 1]
           skip(h, x) == IF x = {} THEN 1 ELSE h[x \ {Max(x)}] * (unit - p[seq[Max(x)]])
           ref == [x \in SUBSET DOMAIN seq |-> Chance(later(x), {}, p, unit)]
           turn == CHOOSE h : h = [x \in SUBSET DOMAIN seq |-> skip(h, x)]
<1>1. m \in Nat /\ e \in Nat /\ n \in Nat /\ NumElems \in Nat /\ n <= NumElems + 1 /\ e >= 1
    BY LevelAssumption
<1>2. later(1..m) = e..(n - 1)
    <2>1. \A k : k \in e..(n - 1) => k - e + 1 \in 1..m /\ k = e + (k - e + 1) - 1
        BY <1>1
    <2>2. \A k \in e..(n - 1) : k \in later(1..m)
        BY <2>1
    <2>3. \A i \in 1..m : e + i - 1 \in e..(n - 1)
        BY <1>1
    <2> QED
        BY <2>2, <2>3
<1>3. ASSUME NEW x \in SUBSET (1..m), x # {} PROVE Max(x) \in x
    <2>1. x \in SUBSET (0..m)
        BY <1>1
    <2>2. \E k \in x : \A y \in x : k >= y
        BY <1>1, <1>3, <2>1, GreatestElement
    <2> QED
        BY <2>2 DEF Max
<1>4. ASSUME NEW x \in SUBSET (1..m), NEW h, \A t \in x : h[x \ {t}] = ref[x \ {t}]
      PROVE  skip(h, x) = Chance(later(x), {}, p, unit)
    <2>0. Chance({}, {}, p, unit) = 1 /\ FactorsOut({}, p, unit)
        BY ChanceFacts
    <2>1. CASE x = {}
        <3>1. later(x) = {}
            BY <2>1
        <3> QED
            BY <2>0, <2>1, <3>1
    <2>2. CASE x # {}
        <3> DEFINE j == Max(x)
        <3>1. j \in x
            BY <1>3, <2>2
        <3>2. skip(h, x) = h[x \ {j}] * (unit - p[e + j - 1])
            BY <2>2, <3>1
        <3>3. h[x \ {j}] = Chance(later(x \ {j}), {}, p, unit)
            BY <1>4, <3>1
        <3> HIDE DEF j, skip
        <3> DEFINE E == later(x)
                   k == e + j - 1
        <3>4. k \in E /\ E \ {k} = later(x \ {j})
            <4>1. \A i \in x : e + i - 1 = e + j - 1 => i = j
                BY <1>1, <3>1
            <4> QED
                BY <3>1, <4>1
        <3>5. E \in SUBSET Elems
            <4>1. \A i \in x : e + i - 1 \in Elems
                BY <1>1 DEF Elems
            <4> QED
                BY <4>1
        <3>6. Chance(E \ {k}, {}, p, unit) \in Int /\ p[k] \in Int
            <4>1. E \ {k} \in SUBSET Elems /\ k \in Elems
                BY <3>4, <3>5
            <4> QED
                BY <4>1, ChanceFacts
        <3> HIDE DEF E, k, later
        <3>7. Chance(E, {}, p, unit) = (unit - p[k]) * Chance(E \ {k}, {}, p, unit)
            BY <2>0, <3>4, <3>5 DEF FactorsOut, Factor
        <3>8. skip(h, x) = Chance(E \ {k}, {}, p, unit) * (unit - p[k])
            BY <3>2, <3>3, <3>4 DEF k
        <3>9. skip(h, x) = Chance(E, {}, p, unit)
            BY <3>6, <3>7, <3>8
        <3> QED
            BY <3>9 DEF E
    <2> QED
        BY <2>1, <2>2
<1>5. SkipProbability(e, f, p, unit) = turn[DOMAIN seq]
    <2> DEFINE last == IF IsTerm(f) THEN NumElems + 1 ELSE Top(f)
    <2>1. SkipProbability(e, f, p, unit) = SkipAlong(p, unit, [i \in 1..(last - e) |-> e + i - 1])
        BY DEF SkipProbability, SkipAlong
    <2>2. last = n
        BY DEF NextElem
    <2>3. SkipAlong(p, unit, seq) = turn[DOMAIN seq]
        <3> HIDE DEF seq
        <3> QED
            BY DEF SkipAlong, FoldLeft, MapThenFoldSet, turn
    <2> HIDE DEF last
    <2> QED
        BY <2>1, <2>2, <2>3
<1>11. DOMAIN seq = 1..m
    OBVIOUS
<1> HIDE DEF skip, m, later, seq
<1>6. ref = [x \in SUBSET DOMAIN seq |-> skip(ref, x)]
    <2>1. \A x \in SUBSET (1..m) : skip(ref, x) = Chance(later(x), {}, p, unit)
        BY <1>4
    <2> QED
        BY <1>11, <2>1
<1>7. turn = [x \in SUBSET DOMAIN seq |-> skip(turn, x)]
    BY <1>6, Zenon
<1> HIDE DEF turn
<1>8. \A x \in SUBSET (1..m) : (\A t \in x : turn[x \ {t}] = ref[x \ {t}]) => turn[x] = ref[x]
    BY <1>4, <1>7, <1>11
<1>9. IsFiniteSet(1..m)
    BY <1>1, FS_Interval
<1> HIDE DEF ref
<1>10. turn[1..m] = ref[1..m]
    BY <1>8, <1>9, SameLoop
<1> QED
    BY <1>2, <1>5, <1>10, <1>11 DEF ref

\* What probability() gives for a node on the level of the element e, or above.
LikelihoodFrom(e, f, p, unit) == Likelihood(From(e), f, p, unit)
NodeProbability(e, f, p, unit) ==
    IF IsTerm(f) THEN IF f = Unit THEN 1 ELSE 0
    ELSE SkipProbability(e, f, p, unit) * LikelihoodFrom(Top(f), f, p, unit)

LEMMA BranchIs ==
    ASSUME NEW p \in [Elems -> Int], NEW unit \in Int, NEW e \in 1..(NumElems + 1),
           NEW f \in Families(From(e))
    PROVE  /\ SkipProbability(e, f, p, unit) * NodeProbability(Top(f), f, p, unit)
                = LikelihoodFrom(e, f, p, unit)
           /\ ~IsTerm(f) => NodeProbability(e, f, p, unit) = LikelihoodFrom(e, f, p, unit)
           /\ f = Unit => SkipProbability(e, f, p, unit) = LikelihoodFrom(e, f, p, unit)
           /\ f = Empty => LikelihoodFrom(e, f, p, unit) = 0
<1> DEFINE n == NextElem(f)
           s == SkipProbability(e, f, p, unit)
           L(d) == Likelihood(From(d), f, p, unit)
           C(S) == Chance(S, {}, p, unit)
<1>1. NumElems \in Nat /\ e \in Nat /\ e >= 1
    BY LevelAssumption
<1>2. From(e) \in SUBSET Elems /\ f \in Families(Elems)
    <2>1. From(e) \in SUBSET Elems
        BY <1>1 DEF From, Elems
    <2> QED
        BY <2>1 DEF Families
<1>3. IsTerm(f) <=> f \in {Empty, Unit}
    BY <1>2, TopFacts, ElemFacts DEF IsTerm
<1>4. ~IsTerm(f) => Top(f) \in From(e) /\ \A w \in Support(f) : Top(f) <= w
    <2>1. Support(f) \in SUBSET From(e)
        BY SupportFacts
    <2> QED
        BY <1>2, <1>3, <2>1, TopFacts
<1>5. n \in e..(NumElems + 1)
    BY <1>1, <1>4 DEF NextElem, From
<1>6. s = C(e..(n - 1)) /\ s \in Int
    <2>1. s = C(e..(n - 1))
        BY <1>5, SkipIs
    <2>2. e..(n - 1) \in SUBSET Elems
        BY <1>1, <1>5 DEF Elems
    <2> HIDE DEF n, s
    <2>3. C(e..(n - 1)) \in Int
        BY <2>2, ChanceFacts
    <2> QED
        BY <2>1, <2>3
<1>7. CASE f = Empty
    <2>1. NodeProbability(Top(f), f, p, unit) = 0
        BY <1>3, <1>7, EmptyUnit DEF NodeProbability
    <2>2. L(e) = 0
        BY <1>2, <1>7, LikelihoodFacts DEF Empty
    <2>3. s * 0 = 0
        BY <1>6
    <2> QED
        BY <1>3, <1>7, <2>1, <2>2, <2>3, EmptyUnit DEF LikelihoodFrom
<1>8. CASE f = Unit
    <2>1. NodeProbability(Top(f), f, p, unit) = 1
        BY <1>3, <1>8 DEF NodeProbability
    <2>2. n = NumElems + 1 /\ e..(n - 1) = From(e)
        BY <1>1, <1>3, <1>8 DEF NextElem, From
    <2>3. L(e) = Chance(From(e), {}, p, unit) + Likelihood(From(e), f \ {{}}, p, unit)
          /\ Likelihood(From(e), {}, p, unit) = 0
        <3>1. {} \in f
            BY <1>8 DEF Unit
        <3> QED
            BY <1>2, <3>1, LikelihoodFacts
    <2>4. f \ {{}} = {}
        BY <1>8 DEF Unit
    <2> HIDE DEF n, s
    <2>5. L(e) = s
        <3>1. s = Chance(From(e), {}, p, unit)
            BY <1>6, <2>2
        <3>2. L(e) = Chance(From(e), {}, p, unit) + 0
            BY <2>3, <2>4
        <3> QED
            BY <1>6, <3>1, <3>2
    <2>6. s * 1 = s
        BY <1>6
    <2> QED
        BY <1>3, <1>8, <2>1, <2>5, <2>6, EmptyUnit DEF LikelihoodFrom, s
<1>9. CASE f \notin {Empty, Unit}
    <2>1. n = Top(f) /\ n \in From(e) /\ n \in Elems /\ \A w \in Support(f) : n <= w
        BY <1>2, <1>3, <1>4, <1>9 DEF NextElem
    <2> DEFINE J == e..(n - 1)
    <2>2. J \in SUBSET From(e) /\ From(e) \ J = From(n)
        BY <1>1, <2>1 DEF From
    <2>3. Without(f, J)
        <3>1. ASSUME NEW a \in f, NEW u \in a, u \in J PROVE FALSE
            <4>1. u \in Support(f)
                BY <3>1 DEF Support
            <4> QED
                BY <1>1, <2>1, <3>1, <4>1 DEF From
        <3> QED
            BY <3>1 DEF Without
    <2> HIDE DEF J
    <2>4. L(e) = C(J) * L(n)
        BY <1>2, <2>2, <2>3, LikelihoodSkips
    <2>5. L(e) = s * L(n)
        BY <1>6, <2>4 DEF J
    <2>6. SkipProbability(n, f, p, unit) = 1
        <3>1. n \in 1..(NumElems + 1) /\ n \in n..(NumElems + 1) /\ n..(n - 1) = {}
            BY <1>1, <1>5, <2>1 DEF Elems
        <3>2. SkipProbability(n, f, p, unit) = C(n..(n - 1))
            <4>1. n = NextElem(f)
                OBVIOUS
            <4> HIDE DEF n
            <4> QED
                BY <3>1, <4>1, SkipIs
        <3> QED
            BY <3>1, <3>2, ChanceFacts
    <2>7. L(n) \in Int
        <3>1. From(n) \in SUBSET Elems
            BY <1>1, <2>1 DEF From, Elems
        <3> QED
            BY <1>2, <3>1, LikelihoodFacts
    <2>8. NodeProbability(Top(f), f, p, unit) = L(n)
        <3>1. NodeProbability(Top(f), f, p, unit) = SkipProbability(n, f, p, unit) * L(n)
            BY <1>3, <1>9, <2>1 DEF NodeProbability, LikelihoodFrom
        <3>2. 1 * L(n) = L(n)
            BY <2>7
        <3> QED
            BY <2>6, <3>1, <3>2
    <2>9. NodeProbability(e, f, p, unit) = s * L(n)
        BY <1>3, <1>9, <2>1 DEF NodeProbability, LikelihoodFrom
    <2> QED
        BY <1>9, <2>5, <2>8, <2>9 DEF LikelihoodFrom
<1> QED
    BY <1>7, <1>8, <1>9

LEMMA ProbabilitySteps ==
    ASSUME NEW p \in [Elems -> Int], NEW unit \in Int, NEW S \in SUBSET Elems, NEW h,
           \A t \in S : \A k \in 0..NumElems : \A c \in Families(S \ {t}) :
               h[<<k, c>>] = NodeProbability(k, c, p, unit),
           NEW e \in 0..NumElems, NEW f \in Families(S)
    PROVE  ProbabilityStep(h, e, f, p, unit) = NodeProbability(e, f, p, unit)
<1> DEFINE v == Top(f)
           branch(c) == SkipProbability(v + 1, c, p, unit) * h[<<Top(c), c>>]
           both == (unit - p[v]) * branch(Lo(f)) + p[v] * branch(Hi(f))
<1>1. ProbabilityStep(h, e, f, p, unit) =
        IF IsTerm(f) THEN IF f = Unit THEN 1 ELSE 0
        ELSE SkipProbability(e, f, p, unit) * both
    BY DEF ProbabilityStep
<1>2. CASE IsTerm(f)
    BY <1>1, <1>2 DEF NodeProbability
<1>3. CASE ~IsTerm(f)
    <2>1. f \in Families(Elems) /\ NumElems \in Nat
        BY LevelAssumption DEF Families
    <2>2. v \in Support(f) /\ v \in Elems /\ \A w \in Support(f) : v <= w
        BY <1>3, <2>1, TopFacts DEF IsTerm
    <2>3. v \in S
        BY <2>2, SupportFacts
    <2>4. v \in 1..NumElems /\ v + 1 \in 1..(NumElems + 1)
        BY <2>1, <2>2 DEF Elems
    <2> HIDE DEF v
    <2>5. f \in Families(From(v))
        <3>1. ASSUME NEW a \in f, NEW u \in a PROVE u \in From(v)
            <4>1. u \in Support(f) /\ u \in Elems
                BY <3>1 DEF Support, Families
            <4>2. v <= u
                BY <2>2, <4>1
            <4> QED
                BY <2>1, <2>4, <4>1, <4>2 DEF From, Elems
        <3> QED
            BY <3>1 DEF Families
    <2>6. From(v + 1) = From(v) \ {v} /\ v \in From(v) /\ From(v) \in SUBSET Elems
        BY <2>4, FromFacts
    <2>7. ASSUME NEW c \in Families(S \ {v}), c \in Families(From(v + 1))
          PROVE  branch(c) = LikelihoodFrom(v + 1, c, p, unit)
        <3>1. c \in Families(Elems)
            BY DEF Families
        <3>2. Top(c) \in 0..NumElems
            BY <2>1, <3>1, TopFacts DEF Elems
        <3>3. h[<<Top(c), c>>] = NodeProbability(Top(c), c, p, unit)
            BY <2>3, <3>2
        <3>4. SkipProbability(v + 1, c, p, unit) * NodeProbability(Top(c), c, p, unit)
                = LikelihoodFrom(v + 1, c, p, unit)
            BY <2>4, <2>7, BranchIs
        <3> QED
            BY <3>3, <3>4
    <2>8. Lo(f) = OffSet(f, v) /\ Hi(f) = OnSet0(f, v)
        BY DEF Lo, Hi, v
    <2>9. /\ OffSet(f, v) \in Families(S \ {v}) /\ OffSet(f, v) \in Families(From(v) \ {v})
          /\ OnSet0(f, v) \in Families(S \ {v}) /\ OnSet0(f, v) \in Families(From(v) \ {v})
        BY <2>5, CofactorFacts
    <2>10. branch(OffSet(f, v)) = LikelihoodFrom(v + 1, OffSet(f, v), p, unit)
           /\ branch(OnSet0(f, v)) = LikelihoodFrom(v + 1, OnSet0(f, v), p, unit)
        BY <2>6, <2>7, <2>9
    <2> HIDE DEF branch
    <2>11. both = (unit - p[v]) * LikelihoodFrom(v + 1, OffSet(f, v), p, unit)
                    + p[v] * LikelihoodFrom(v + 1, OnSet0(f, v), p, unit)
        BY <2>8, <2>10
    <2> HIDE DEF both
    <2>12. LikelihoodFrom(v, f, p, unit) = both
        BY <2>1, <2>6, <2>11, LikelihoodSplit DEF LikelihoodFrom
    <2> QED
        BY <1>1, <1>3, <2>12 DEF NodeProbability, v
<1> QED
    BY <1>2, <1>3

LEMMA ProbabilityIs ==
    ASSUME NEW p \in [Elems -> Int], NEW unit \in Int, NEW f \in Families(Elems),
           NEW e \in 0..NumElems
    PROVE  Probability(e, f, p, unit) = NodeProbability(e, f, p, unit)
<1> DEFINE V == Support(f)
           K == 0..NumElems
           D == K \X Over(f, f)
           ref == [x \in D |-> NodeProbability(x[1], x[2], p, unit)]
           found == CHOOSE h : h = [x \in D |-> ProbabilityStep(h, x[1], x[2], p, unit)]
           RightOn(h, S) == \A k \in K : \A c \in Families(S) :
                                h[<<k, c>>] = NodeProbability(k, c, p, unit)
           Good == {S \in SUBSET V : RightOn(found, S)}
<1>1. V \in SUBSET Elems /\ IsFiniteSet(V) /\ f \in Families(V) /\ Over(f, f) = Families(V)
    <2>1. V = Support(f) \cup Support(f)
        OBVIOUS
    <2> QED
        BY <2>1, OperandFacts
<1>2. D = K \X Families(V)
    BY <1>1
<1>3. Probability(e, f, p, unit) = found[<<e, f>>]
    BY DEF Probability
<1> HIDE DEF V, D
<1>4. \A S \in SUBSET V : \A c \in Families(S) : \A k \in K :
            <<k, c>> \in D /\ <<k, c>>[1] = k /\ <<k, c>>[2] = c
    BY <1>2 DEF Families
<1>5. ASSUME NEW S \in SUBSET V, NEW h, \A t \in S : RightOn(h, S \ {t}),
             NEW k \in K, NEW c \in Families(S)
      PROVE  ProbabilityStep(h, k, c, p, unit) = NodeProbability(k, c, p, unit)
    <2>1. \A t \in S : \A i \in 0..NumElems : \A a \in Families(S \ {t}) :
               h[<<i, a>>] = NodeProbability(i, a, p, unit)
        BY <1>5
    <2>2. S \in SUBSET Elems
        BY <1>1
    <2> QED
        BY <2>1, <2>2, ProbabilitySteps
<1>6. \A S \in SUBSET V : RightOn(ref, S)
    <2>1. ASSUME NEW S \in SUBSET V, NEW k \in K, NEW c \in Families(S)
          PROVE  ref[<<k, c>>] = NodeProbability(k, c, p, unit)
        BY <1>4
    <2> QED
        BY <2>1
<1>7. ref = [x \in D |-> ProbabilityStep(ref, x[1], x[2], p, unit)]
    <2>1. ASSUME NEW x \in D
          PROVE  ProbabilityStep(ref, x[1], x[2], p, unit) = NodeProbability(x[1], x[2], p, unit)
        <3>1. x[1] \in K /\ x[2] \in Families(V)
            BY <1>2
        <3>2. V \in SUBSET V /\ \A t \in V : V \ {t} \in SUBSET V
            OBVIOUS
        <3>3. \A t \in V : RightOn(ref, V \ {t})
            BY <1>6, <3>2
        <3> HIDE DEF ref, RightOn
        <3> QED
            BY <1>5, <3>1, <3>2, <3>3
    <2> QED
        BY <2>1
<1>8. found = [x \in D |-> ProbabilityStep(found, x[1], x[2], p, unit)]
    BY <1>7, Zenon
<1> HIDE DEF found, ref
<1>9. ASSUME NEW S \in SUBSET V, \A t \in S : S \ {t} \in Good PROVE S \in Good
    <2>1. \A t \in S : RightOn(found, S \ {t})
        BY <1>9
    <2>2. ASSUME NEW k \in K, NEW c \in Families(S)
          PROVE  found[<<k, c>>] = NodeProbability(k, c, p, unit)
        <3>1. found[<<k, c>>] = ProbabilityStep(found, k, c, p, unit)
            BY <1>4, <1>8
        <3> HIDE DEF RightOn
        <3>2. ProbabilityStep(found, k, c, p, unit) = NodeProbability(k, c, p, unit)
            BY <1>5, <2>1
        <3> QED
            BY <3>1, <3>2
    <2> QED
        BY <2>2
<1> HIDE DEF Good
<1>10. V \in Good
    BY <1>1, <1>9, SetInduction
<1> QED
    BY <1>1, <1>3, <1>10 DEF Good

\* probability() of an object.
LEMMA ProbabilityOfIs ==
    ASSUME this \in Families(Elems), NEW p \in [Elems -> Int]
    PROVE  ProbabilityOf(p) = Likelihood(Elems, this, p, Unit1)
<1>1. NumElems \in Nat \ {0} /\ Unit1 \in Int /\ 1 \in 1..(NumElems + 1) /\ From(1) = Elems
      /\ 1 \in 0..NumElems
    BY SetsetsAssumption DEF From, Elems
<1>2. this \in Families(From(1)) /\ LikelihoodFrom(1, this, p, Unit1) = Likelihood(Elems, this, p, Unit1)
    BY <1>1 DEF LikelihoodFrom
<1>3. /\ ~IsTerm(this) =>
            NodeProbability(1, this, p, Unit1) = LikelihoodFrom(1, this, p, Unit1)
      /\ this = Unit =>
            SkipProbability(1, this, p, Unit1) = LikelihoodFrom(1, this, p, Unit1)
      /\ this = Empty => LikelihoodFrom(1, this, p, Unit1) = 0
    BY <1>1, <1>2, BranchIs
<1>4. Probability(1, this, p, Unit1) = NodeProbability(1, this, p, Unit1)
    BY <1>1, ProbabilityIs
<1>5. this \notin {Empty, Unit} => ~IsTerm(this)
    BY TopFacts, ElemFacts DEF IsTerm
<1> QED
    BY <1>2, <1>3, <1>4, <1>5, EmptyUnit DEF ProbabilityOf

ProbabilityInv == asked.op = "probability" => result = Likelihood(Elems, this, asked.arg, Unit1)

LEMMA OnlyProbability ==
    ASSUME Asks
    PROVE  asked'.op # "probability" \/ \E p \in [Elems -> 0..Unit1] : AskProbability(p)
<1>1. ASSUME NEW op, NEW arg, NEW r, Ask(op, arg, r), op # "probability"
      PROVE  asked'.op # "probability"
    BY <1>1 DEF Ask
<1>2. CASE AskAlone \/ AskStream \/ AskStructure
    BY <1>1, <1>2 DEF AskAlone, AskStream, AskStructure
<1>3. ASSUME NEW s \in SUBSET Elems, AskCount(s) PROVE asked'.op # "probability"
    BY <1>1, <1>3 DEF AskCount
<1>4. ASSUME NEW g \in Others, AskWith(g) PROVE asked'.op # "probability"
    BY <1>1, <1>4 DEF AskWith
<1>5. ASSUME NEW e \in Elems, AskElem(e) \/ AskVariable(e) PROVE asked'.op # "probability"
    BY <1>1, <1>5 DEF AskElem, AskVariable
<1>6. ASSUME NEW v \in Elems, NEW w \in Elems, AskVariables(v, w)
      PROVE  asked'.op # "probability"
    BY <1>1, <1>6 DEF AskVariables
<1>7. ASSUME NEW n \in 0..NumElems, AskSize(n) PROVE asked'.op # "probability"
    BY <1>1, <1>7 DEF AskSize
<1>8. ASSUME NEW in \in SUBSET Elems, NEW ex \in SUBSET Elems, Construct(in, ex)
      PROVE  asked'.op # "probability"
    BY <1>1, <1>8 DEF Construct
<1> QED
    BY <1>2, <1>3, <1>4, <1>5, <1>6, <1>7, <1>8 DEF Asks

\* The probability of an object is that of its sets.
THEOREM ProbabilityRightAlways == Spec => []ProbabilityRight
<1>1. Init => ProbabilityInv
    BY DEF Init, NotAsked, ProbabilityInv
<1>2. AnswerInv /\ ProbabilityInv /\ [Next]_vars => ProbabilityInv'
    <2> SUFFICES ASSUME AnswerInv, ProbabilityInv, [Next]_vars PROVE ProbabilityInv'
        OBVIOUS
    <2>1. CASE Still
        BY <2>1 DEF Still, ProbabilityInv
    <2>2. CASE asked'.op # "probability"
        BY <2>2 DEF ProbabilityInv
    <2>3. ASSUME NEW p \in [Elems -> 0..Unit1], AskProbability(p) PROVE ProbabilityInv'
        <3>1. p \in [Elems -> Int]
            BY SetsetsAssumption
        <3>2. ProbabilityOf(p) = Likelihood(Elems, this, p, Unit1)
            BY <3>1, ProbabilityOfIs DEF AnswerInv
        <3> QED
            BY <2>3, <3>2 DEF AskProbability, Ask, ProbabilityInv
    <2> QED
        BY <2>1, <2>2, <2>3, StepsAre, OnlyProbability
<1>3. ProbabilityInv => ProbabilityRight
    BY DEF ProbabilityInv, ProbabilityRight, Asked
<1> QED
    BY <1>1, <1>2, <1>3, AnswersInductive, PTL DEF Spec

\* Whatever function of an object is asked, in whatever state the program has
\* brought it to, what it returns is what its definition says.
THEOREM AnswersRightAlways == Spec => []AnswersRight
<1>1. AlgebraRight /\ InclusionRight /\ SelectionRight /\ RelationsRight /\ ProbabilityRight
            => AnswersRight
    BY DEF AnswersRight
<1> QED
    BY <1>1, AlgebraRightAlways, InclusionRightAlways, SelectionRightAlways,
       RelationsRightAlways, ProbabilityRightAlways, PTL

-----------------------------------------------------------------------------
(***************************************************************************)
(* The sets written out                                                    *)
(***************************************************************************)
\* What _enum() writes for the family f below the elements of st.
Written(f, st, r) ==
    /\ r \in Seq(Seq(Elems))
    /\ Len(r) = Cardinality(f)
    /\ \A i \in 1..Len(r) : \E t \in f : Range(r[i]) = Range(st) \cup t
    /\ \A t \in f : \E i \in 1..Len(r) : Range(r[i]) = Range(st) \cup t
WritesOn(inner, S) ==
    \A a \in Families(S) : \A st \in Seq(Elems) : Written(a, st, inner[<<a, st>>])

\* A recursion that goes down with something in hand is defined.
GoesDown(D, R, step) ==
    \A g, h \in [D -> R] : \A p \in D :
        SameBelow(D, g, h, p) => step[<<g, p>>] = step[<<h, p>>]
LEMMA DownRecursion ==
    ASSUME NEW V \in SUBSET Elems, NEW D, \A p \in D : p[1] \in Families(V), NEW R, R # {},
           NEW step \in [[D -> R] \X D -> R], GoesDown(D, R, step)
    PROVE  Solvable(D, R, step)
<1> DEFINE supp == [p \in D |-> Support(p[1])]
<1>1. supp \in [D -> SUBSET V]
    BY DEF Families, Support
<1>2. Descends(D, R, step, supp)
    <2>1. ASSUME NEW g \in [D -> R], NEW h \in [D -> R], NEW p \in D,
                 \A q \in D : (\E t \in supp[p] : supp[q] \subseteq supp[p] \ {t}) => g[q] = h[q]
          PROVE  step[<<g, p>>] = step[<<h, p>>]
        <3>1. \A q \in D : supp[q] = Support(q[1])
            OBVIOUS
        <3> HIDE DEF supp
        <3>2. SameBelow(D, g, h, p)
            BY <2>1, <3>1 DEF SameBelow, Lower
        <3> QED
            BY <3>2 DEF GoesDown
    <2> QED
        BY <2>1 DEF Descends
<1> HIDE DEF supp
<1> QED
    BY <1>1, <1>2, SupportRecursion

\* Both edges of a node lead below it.
LEMMA EdgesBelow ==
    ASSUME NEW V \in SUBSET Elems, NEW f \in Families(V), ~IsTerm(f)
    PROVE  /\ Top(f) \in V /\ Top(f) \in Elems /\ Node(V, f, Top(f))
           /\ f \in Families(Elems) /\ f # Empty /\ f # Unit
           /\ Lo(f) \in Families(V) /\ Hi(f) \in Families(V)
           /\ \E t \in Support(f) : /\ Support(Lo(f)) \subseteq Support(f) \ {t}
                                    /\ Support(Hi(f)) \subseteq Support(f) \ {t}
<1>1. f \in Families(Elems)
    BY DEF Families
<1>2. f # Empty /\ f # Unit
    BY <1>1, TopFacts DEF IsTerm
<1> DEFINE v == Top(f)
<1>3. Node(V, f, v)
    BY <1>2, NodeFacts
<1>4. v \in Support(f) /\ v \in Elems
    BY <1>1, <1>2, TopFacts
<1> HIDE DEF v
<1>5. v \in V /\ Lo(f) \in Families(V) /\ Hi(f) \in Families(V)
    BY <1>3 DEF Node, Families
<1>6. v \notin Support(Lo(f)) /\ v \notin Support(Hi(f))
    <2>1. v \in Nat /\ \A w \in Support(Lo(f)) \cup Support(Hi(f)) : v < w
        BY <1>3 DEF Node
    <2> QED
        BY <2>1
<1>7. Support(Lo(f)) \subseteq Support(f) /\ Support(Hi(f)) \subseteq Support(f)
    BY <1>1, CofactorFacts DEF Lo, Hi
<1>8. Support(Lo(f)) \subseteq Support(f) \ {v} /\ Support(Hi(f)) \subseteq Support(f) \ {v}
    BY <1>6, <1>7
<1> QED
    BY <1>1, <1>2, <1>3, <1>4, <1>5, <1>8 DEF v

LEMMA TerminalIs ==
    ASSUME NEW f \in Families(Elems), IsTerm(f)
    PROVE  f = Empty \/ f = Unit
BY TopFacts, ElemFacts DEF IsTerm

Lists == Seq(Seq(Elems))
LEMMA EnumInner ==
    ASSUME NEW V \in SUBSET Elems, NEW D, D = Families(V) \X Seq(Elems),
           NEW p \in D, NEW g \in [D -> Lists]
    PROVE  /\ EnumStep(g, p[1], p[2]) \in Lists
           /\ \A h \in [D -> Lists] :
                SameBelow(D, g, h, p) => EnumStep(g, p[1], p[2]) = EnumStep(h, p[1], p[2])
<1> DEFINE f == p[1]
           st == p[2]
<1>1. f \in Families(V) /\ st \in Seq(Elems)
    OBVIOUS
<1> HIDE DEF f, st
<1>2. CASE IsTerm(f)
    <2>1. \A h : EnumStep(h, f, st) = IF f = Unit THEN <<st>> ELSE <<>>
        BY <1>2 DEF EnumStep
    <2>2. <<st>> \in Lists /\ <<>> \in Lists
        BY <1>1 DEF Lists
    <2> QED
        BY <2>1, <2>2 DEF f, st
<1>3. CASE ~IsTerm(f)
    <2> DEFINE up == Append(st, Top(f))
               l == <<Lo(f), st>>
               r == <<Hi(f), up>>
    <2>1. up \in Seq(Elems) /\ Lo(f) \in Families(V) /\ Hi(f) \in Families(V)
        BY <1>1, <1>3, EdgesBelow
    <2>2. \A h : EnumStep(h, f, st) = h[r] \o h[l]
        BY <1>3 DEF EnumStep
    <2>3. l \in D /\ r \in D /\ l[1] = Lo(f) /\ r[1] = Hi(f)
        BY <1>1, <2>1
    <2>4. Lower(l, p) /\ Lower(r, p)
        BY <1>1, <1>3, <2>3, EdgesBelow DEF Lower, f
    <2> HIDE DEF l, r
    <2>5. g[r] \in Lists /\ g[l] \in Lists
        BY <2>3
    <2>6. EnumStep(g, f, st) \in Lists
        <3>1. \A x, y \in Lists : x \o y \in Lists
            BY DEF Lists
        <3> QED
            BY <2>2, <2>5, <3>1
    <2>7. \A h : SameBelow(D, g, h, p) => g[r] = h[r] /\ g[l] = h[l]
        BY <2>3, <2>4 DEF SameBelow
    <2>8. \A h : SameBelow(D, g, h, p) => EnumStep(g, f, st) = EnumStep(h, f, st)
        BY <2>2, <2>7
    <2> QED
        BY <2>6, <2>8 DEF f, st
<1> QED
    BY <1>2, <1>3

LEMMA EnumSteps ==
    ASSUME NEW S \in SUBSET Elems, NEW inner, \A t \in S : WritesOn(inner, S \ {t}),
           NEW f \in Families(S), NEW st \in Seq(Elems)
    PROVE  Written(f, st, EnumStep(inner, f, st))
<1> DEFINE r == EnumStep(inner, f, st)
<1>1. f \in Families(Elems)
    BY DEF Families
<1>2. CASE f = Empty
    <2>1. r = <<>>
        BY <1>1, <1>2, EmptyUnit, TopFacts DEF EnumStep, IsTerm
    <2>2. <<>> \in Seq(Seq(Elems)) /\ Len(<<>>) = 0 /\ Cardinality(f) = 0 /\ \A t : t \notin f
        BY <1>2, FS_EmptySet DEF Empty
    <2> HIDE DEF r
    <2> QED
        BY <2>1, <2>2 DEF Written, r
<1>3. CASE f = Unit
    <2>1. r = <<st>>
        BY <1>1, <1>3, TopFacts DEF EnumStep, IsTerm
    <2>2. <<st>> \in Seq(Seq(Elems)) /\ Len(<<st>>) = 1 /\ <<st>>[1] = st
        OBVIOUS
    <2>3. Cardinality(f) = 1 /\ {} \in f /\ \A t \in f : t = {}
        BY <1>3, FS_Singleton DEF Unit
    <2>4. Range(st) \cup {} = Range(st)
        OBVIOUS
    <2> HIDE DEF r
    <2>5. \A i \in 1..Len(r) : r[i] = st
        BY <2>1, <2>2
    <2>6. 1 \in 1..Len(r)
        BY <2>1, <2>2
    <2> QED
        BY <2>1, <2>2, <2>3, <2>4, <2>5, <2>6 DEF Written, r
<1>4. CASE f # Empty /\ f # Unit
    <2> DEFINE v == Top(f)
               up == Append(st, v)
               a == inner[<<Hi(f), up>>]
               b == inner[<<Lo(f), st>>]
    <2>1. ~IsTerm(f)
        BY <1>1, <1>4, TopFacts, ElemFacts DEF IsTerm
    <2>2. Node(S, f, v) /\ v \in Elems
        BY <2>1, EdgesBelow
    <2>3. r = a \o b
        BY <2>1 DEF EnumStep
    <2>4. up \in Seq(Elems) /\ Range(up) = Range(st) \cup {v}
        <3>1. up \in Seq(Elems) /\ Len(up) = Len(st) + 1 /\ Len(st) \in Nat /\ DOMAIN st = 1..Len(st)
              /\ DOMAIN up = 1..(Len(st) + 1) /\ up[Len(st) + 1] = v
              /\ \A i \in 1..Len(st) : up[i] = st[i]
            BY <2>2
        <3> HIDE DEF up
        <3>2. \A i \in 1..(Len(st) + 1) : i = Len(st) + 1 \/ i \in 1..Len(st)
            BY <3>1
        <3>3. \A i \in 1..Len(st) : i \in 1..(Len(st) + 1)
            BY <3>1
        <3>4. Len(st) + 1 \in 1..(Len(st) + 1)
            BY <3>1
        <3> QED
            BY <3>1, <3>2, <3>3, <3>4 DEF Range
    <2> HIDE DEF v, up, a, b, r
    <2>5. Written(Hi(f), up, a) /\ Written(Lo(f), st, b)
        <3>1. v \in S /\ Hi(f) \in Families(S \ {v}) /\ Lo(f) \in Families(S \ {v})
            BY <2>2 DEF Node
        <3> QED
            BY <2>4, <3>1 DEF WritesOn, a, b
    <2>6. /\ r \in Seq(Seq(Elems)) /\ Len(r) = Len(a) + Len(b)
          /\ Len(a) \in Nat /\ Len(b) \in Nat
          /\ \A i \in 1..Len(a) : r[i] = a[i]
          /\ \A i \in 1..Len(b) : r[Len(a) + i] = b[i]
        <3>1. a \in Seq(Seq(Elems)) /\ b \in Seq(Seq(Elems))
            BY <2>5 DEF Written
        <3> QED
            BY <2>3, <3>1
    <2>7. Len(r) = Cardinality(f)
        BY <1>4, <2>5, <2>6, CardinalitySplit DEF Written
    <2>8. ASSUME NEW i \in 1..Len(r) PROVE \E t \in f : Range(r[i]) = Range(st) \cup t
        <3>1. CASE i \in 1..Len(a)
            <4>1. PICK t \in Hi(f) : Range(a[i]) = Range(up) \cup t
                BY <2>5, <3>1 DEF Written
            <4>2. t \cup {v} \in f /\ Range(r[i]) = Range(st) \cup (t \cup {v})
                BY <2>2, <2>4, <2>6, <3>1, <4>1 DEF Node
            <4> QED
                BY <4>2
        <3>2. CASE i \notin 1..Len(a)
            <4> DEFINE j == i - Len(a)
            <4>1. j \in 1..Len(b) /\ i = Len(a) + j
                BY <2>6, <3>2
            <4> HIDE DEF j
            <4>2. PICK t \in Lo(f) : Range(b[j]) = Range(st) \cup t
                BY <2>5, <4>1 DEF Written
            <4>3. t \in f
                BY <2>2, <4>2 DEF Node
            <4>4. r[i] = b[j]
                BY <2>6, <4>1
            <4> QED
                BY <4>2, <4>3, <4>4
        <3> QED
            BY <3>1, <3>2
    <2>9. ASSUME NEW t \in f PROVE \E i \in 1..Len(r) : Range(r[i]) = Range(st) \cup t
        <3>1. CASE v \in t
            <4> DEFINE x == t \ {v}
            <4>1. x \in Hi(f) /\ x \cup {v} = t
                BY <2>2, <3>1 DEF Node
            <4> HIDE DEF x
            <4>2. PICK i \in 1..Len(a) : Range(a[i]) = Range(up) \cup x
                BY <2>5, <4>1 DEF Written
            <4>3. i \in 1..Len(r) /\ r[i] = a[i]
                BY <2>6
            <4>4. Range(r[i]) = Range(st) \cup t
                BY <2>4, <4>1, <4>2, <4>3
            <4> QED
                BY <4>3, <4>4
        <3>2. CASE v \notin t
            <4>1. t \in Lo(f)
                BY <2>2, <3>2 DEF Node
            <4>2. PICK j \in 1..Len(b) : Range(b[j]) = Range(st) \cup t
                BY <2>5, <4>1 DEF Written
            <4> DEFINE i == Len(a) + j
            <4>3. j \in 1..Len(b) /\ r[i] = b[j]
                BY <2>6
            <4>4. i \in 1..Len(r)
                <5>1. j \in Int /\ 1 <= j /\ j <= Len(b)
                    BY <2>6
                <5> QED
                    BY <2>6, <5>1
            <4> HIDE DEF i
            <4> QED
                BY <4>2, <4>3, <4>4
        <3> QED
            BY <3>1, <3>2
    <2> QED
        BY <2>6, <2>7, <2>8, <2>9 DEF Written, r
<1> QED
    BY <1>2, <1>3, <1>4

\* _enum() writes each set of a family once.
LEMMA EnumeratedIs ==
    ASSUME NEW f \in Families(Elems), NEW st \in Seq(Elems)
    PROVE  Written(f, st, Enumerated(f, st))
<1> DEFINE V == Support(f)
           A == Seq(Elems)
           D == Over(f, f) \X A
           R == Lists
           step == [x \in [D -> R] \X D |-> EnumStep(x[1], x[2][1], x[2][2])]
           written == CHOOSE h : h = [p \in D |-> EnumStep(h, p[1], p[2])]
<1>1. V \in SUBSET Elems /\ IsFiniteSet(V) /\ f \in Families(V) /\ Over(f, f) = Families(V)
    <2>1. V = Support(f) \cup Support(f)
        OBVIOUS
    <2> HIDE DEF V
    <2> QED
        BY <2>1, OperandFacts
<1>2. D = Families(V) \X A
    BY <1>1
<1>3. R # {} /\ A = Seq(Elems)
    <2>1. <<>> \in Lists
        BY DEF Lists
    <2> QED
        BY <2>1
<1>4. Enumerated(f, st) = written[<<f, st>>]
    BY DEF Enumerated
<1> HIDE DEF V, A, D
<1>5. step \in [[D -> R] \X D -> R]
    BY <1>1, <1>2, <1>3, EnumInner
<1>6. \A h \in [D -> R], p \in D : step[<<h, p>>] = EnumStep(h, p[1], p[2])
    OBVIOUS
<1> HIDE DEF step
<1>0. \A p \in D : p[1] \in Families(V)
    BY <1>2
<1>7. GoesDown(D, R, step)
    <2>1. ASSUME NEW g \in [D -> R], NEW h \in [D -> R], NEW p \in D, SameBelow(D, g, h, p)
          PROVE  EnumStep(g, p[1], p[2]) = EnumStep(h, p[1], p[2])
        BY <1>1, <1>2, <1>3, <2>1, EnumInner
    <2> QED
        BY <1>6, <2>1 DEF GoesDown
<1>8. Solvable(D, R, step)
    BY <1>0, <1>1, <1>3, <1>5, <1>7, DownRecursion
<1>9. PICK h \in [D -> R] : \A p \in D : h[p] = step[<<h, p>>]
    BY <1>8 DEF Solvable
<1>10. h = [p \in D |-> EnumStep(h, p[1], p[2])]
    BY <1>6, <1>9
<1>11. written = [p \in D |-> EnumStep(written, p[1], p[2])]
    BY <1>10, Zenon
<1> HIDE DEF written
<1>12. \A a \in Families(V), x \in A : written[<<a, x>>] = EnumStep(written, a, x)
    BY <1>2, <1>11
<1> DEFINE Good == {S \in SUBSET V : WritesOn(written, S)}
<1>13. ASSUME NEW S \in SUBSET V, \A t \in S : S \ {t} \in Good
       PROVE  S \in Good
    <2>1. \A t \in S : WritesOn(written, S \ {t})
        BY <1>13
    <2>2. S \in SUBSET Elems /\ Families(S) \subseteq Families(V)
        BY <1>1 DEF Families
    <2>3. WritesOn(written, S)
        BY <1>3, <1>12, <2>1, <2>2, EnumSteps DEF WritesOn
    <2> QED
        BY <2>3
<1> HIDE DEF Good
<1>14. V \in Good
    BY <1>1, <1>13, SetInduction
<1> QED
    BY <1>1, <1>3, <1>4, <1>14 DEF Good, WritesOn

-----------------------------------------------------------------------------
(***************************************************************************)
(* Dumping and loading                                                     *)
(***************************************************************************)
\* The stacks of nodes, and what is on them.
Piles(V) == [Elems -> Seq(Families(V))]
On(stacks, g) == \E i \in 1..Len(stacks[Top(g)]) : stacks[Top(g)][i] = g
Known(stacks, g) == g = Empty \/ g = Unit \/ On(stacks, g)
NodeOn(stacks, v, i) == ~IsTerm(stacks[v][i]) /\ Top(stacks[v][i]) = v
Proper(stacks) == \A v \in Elems : \A i \in 1..Len(stacks[v]) : NodeOn(stacks, v, i)

\* From the stacks a to the stacks b nothing is taken away, and the nodes that
\* are put on them have their edges to nodes on them.
Grown(a, b) ==
    \A v \in Elems : Len(a[v]) <= Len(b[v]) /\ \A i \in 1..Len(a[v]) : b[v][i] = a[v][i]
EdgesKnown(stacks, g) == Known(stacks, Lo(g)) /\ Known(stacks, Hi(g))
Settled(a, b) ==
    \A v \in Elems : \A i \in (Len(a[v]) + 1)..Len(b[v]) : EdgesKnown(b, b[v][i])

\* What sort_zdd() does to the stacks.
Visits(f, a, b) ==
    /\ Proper(b) /\ Grown(a, b) /\ Settled(a, b) /\ Known(b, f)
    /\ \A v \in Elems \ Support(f) : b[v] = a[v]
    /\ ~IsTerm(f) /\ ~On(a, f) => b[Top(f)] = Append(a[Top(f)], f)
VisitsOn(inner, V, S) ==
    \A f \in Families(S) : \A a \in Piles(V) :
        Proper(a) => inner[<<f, a>>] \in Piles(V) /\ Visits(f, a, inner[<<f, a>>])

LEMMA PileFacts ==
    ASSUME NEW V, NEW a \in Piles(V)
    PROVE  \A v \in Elems : a[v] \in Seq(Families(V)) /\ Len(a[v]) \in Nat
BY DEF Piles

LEMMA GrownFurther ==
    ASSUME NEW V, NEW a \in Piles(V), NEW b \in Piles(V), NEW c \in Piles(V),
           Grown(a, b), Grown(b, c)
    PROVE  Grown(a, c)
<1> SUFFICES ASSUME NEW v \in Elems
             PROVE  Len(a[v]) <= Len(c[v]) /\ \A i \in 1..Len(a[v]) : c[v][i] = a[v][i]
    BY DEF Grown
<1>1. Len(a[v]) \in Nat /\ Len(b[v]) \in Nat /\ Len(c[v]) \in Nat
    BY PileFacts
<1>2. Len(a[v]) <= Len(b[v]) /\ Len(b[v]) <= Len(c[v])
    BY DEF Grown
<1>3. \A i \in 1..Len(a[v]) : i \in 1..Len(b[v])
    BY <1>1, <1>2
<1> QED
    BY <1>1, <1>2, <1>3 DEF Grown

LEMMA StaysKnown ==
    ASSUME NEW V, NEW a \in Piles(V), NEW b \in Piles(V), Grown(a, b),
           NEW g \in Families(Elems), Known(a, g)
    PROVE  Known(b, g)
<1>1. CASE g = Empty \/ g = Unit
    BY <1>1 DEF Known
<1>2. CASE g # Empty /\ g # Unit
    <2> DEFINE v == Top(g)
    <2>1. v \in Elems
        BY <1>2, TopFacts
    <2>2. PICK i \in 1..Len(a[v]) : a[v][i] = g
        BY <1>2 DEF Known, On
    <2>3. Len(a[v]) \in Nat /\ Len(b[v]) \in Nat
        BY <2>1, PileFacts
    <2>4. Len(a[v]) <= Len(b[v]) /\ b[v][i] = a[v][i]
        BY <2>1 DEF Grown
    <2>5. i \in 1..Len(b[v]) /\ b[v][i] = g
        BY <2>2, <2>3, <2>4
    <2> QED
        BY <2>5 DEF Known, On
<1> QED
    BY <1>1, <1>2

LEMMA VisitInner ==
    ASSUME NEW V \in SUBSET Elems, NEW D, D = Families(V) \X Piles(V),
           NEW p \in D, NEW g \in [D -> Piles(V)]
    PROVE  /\ VisitStep(g, p[1], p[2]) \in Piles(V)
           /\ \A h \in [D -> Piles(V)] :
                SameBelow(D, g, h, p) => VisitStep(g, p[1], p[2]) = VisitStep(h, p[1], p[2])
<1> DEFINE f == p[1]
           a == p[2]
<1>1. f \in Families(V) /\ a \in Piles(V)
    OBVIOUS
<1> HIDE DEF f, a
<1>2. CASE IsTerm(f) \/ Contains(a[Top(f)], f)
    <2>1. \A h : VisitStep(h, f, a) = a
        BY <1>2 DEF VisitStep
    <2> QED
        BY <1>1, <2>1 DEF f, a
<1>3. CASE ~IsTerm(f) /\ ~Contains(a[Top(f)], f)
    <2> DEFINE pushed == [a EXCEPT ![Top(f)] = Append(@, f)]
               l == <<Lo(f), pushed>>
               r(x) == <<Hi(f), x>>
    <2>1. Top(f) \in Elems /\ Lo(f) \in Families(V) /\ Hi(f) \in Families(V)
        BY <1>1, <1>3, EdgesBelow
    <2>2. pushed \in Piles(V)
        BY <1>1, <2>1 DEF Piles
    <2>3. \A h : VisitStep(h, f, a) = h[r(h[l])]
        BY <1>3 DEF VisitStep
    <2>4. l \in D /\ l[1] = Lo(f)
        BY <2>1, <2>2
    <2>5. \A x \in Piles(V) : r(x) \in D /\ r(x)[1] = Hi(f)
        BY <2>1
    <2>6. Lower(l, p) /\ \A x \in Piles(V) : Lower(r(x), p)
        BY <1>1, <1>3, <2>4, <2>5, EdgesBelow DEF Lower, f
    <2> HIDE DEF l, r
    <2>7. g[l] \in Piles(V)
        BY <2>4
    <2>8. g[r(g[l])] \in Piles(V)
        BY <2>5, <2>7
    <2>9. ASSUME NEW h \in [D -> Piles(V)], SameBelow(D, g, h, p)
          PROVE  VisitStep(g, f, a) = VisitStep(h, f, a)
        <3>1. g[l] = h[l]
            BY <2>4, <2>6, <2>9 DEF SameBelow
        <3>2. g[r(g[l])] = h[r(g[l])]
            BY <2>5, <2>6, <2>7, <2>9 DEF SameBelow
        <3> QED
            BY <2>3, <3>1, <3>2
    <2> QED
        BY <2>3, <2>8, <2>9 DEF f, a
<1> QED
    BY <1>2, <1>3

\* Putting a node on its stack.
LEMMA PushFacts ==
    ASSUME NEW V \in SUBSET Elems, NEW f \in Families(V), ~IsTerm(f),
           NEW a \in Piles(V), Proper(a), NEW b, b = [a EXCEPT ![Top(f)] = Append(@, f)]
    PROVE  /\ b \in Piles(V) /\ Proper(b) /\ Grown(a, b) /\ On(b, f)
           /\ b[Top(f)] = Append(a[Top(f)], f)
           /\ \A v \in Elems : v # Top(f) => b[v] = a[v]
<1> DEFINE v == Top(f)
           n == Len(a[v])
<1>1. v \in Elems
    BY EdgesBelow
<1>2. b[v] = Append(a[v], f) /\ \A u \in Elems : u # v => b[u] = a[u]
    BY <1>1 DEF Piles
<1>3. b \in Piles(V)
    BY <1>1 DEF Piles
<1>4. a[v] \in Seq(Families(V)) /\ n \in Nat
    BY <1>1, PileFacts
<1> HIDE DEF v
<1>5. Len(b[v]) = n + 1 /\ b[v][n + 1] = f /\ \A i \in 1..n : b[v][i] = a[v][i]
    BY <1>2, <1>4
<1> HIDE DEF n
<1>6. \A i \in 1..(n + 1) : i = n + 1 \/ i \in 1..n
    BY <1>4
<1>7. n + 1 \in 1..(n + 1) /\ n <= n + 1
    BY <1>4
<1>8. Proper(b)
    <2> SUFFICES ASSUME NEW u \in Elems, NEW i \in 1..Len(b[u]) PROVE NodeOn(b, u, i)
        BY DEF Proper
    <2>1. CASE u # v
        <3>1. b[u] = a[u] /\ NodeOn(a, u, i)
            BY <1>2, <2>1 DEF Proper
        <3> QED
            BY <3>1 DEF NodeOn
    <2>2. CASE u = v /\ i = n + 1
        BY <1>5, <2>2 DEF NodeOn, v
    <2>3. CASE u = v /\ i \in 1..n
        <3>1. NodeOn(a, v, i) /\ b[v][i] = a[v][i]
            BY <1>1, <1>5, <2>3 DEF Proper, n
        <3> QED
            BY <2>3, <3>1 DEF NodeOn
    <2> QED
        BY <1>5, <1>6, <2>1, <2>2, <2>3
<1>9. Grown(a, b)
    <2> SUFFICES ASSUME NEW u \in Elems
                 PROVE  Len(a[u]) <= Len(b[u]) /\ \A i \in 1..Len(a[u]) : b[u][i] = a[u][i]
        BY DEF Grown
    <2>1. CASE u = v
        BY <1>5, <1>7, <2>1 DEF n
    <2>2. CASE u # v
        <3>1. b[u] = a[u] /\ Len(a[u]) \in Nat
            BY <1>2, <2>2, PileFacts
        <3> QED
            BY <3>1
    <2> QED
        BY <2>1, <2>2
<1>10. On(b, f)
    BY <1>5, <1>7 DEF On, v
<1> QED
    BY <1>2, <1>3, <1>8, <1>9, <1>10 DEF v

LEMMA VisitSteps ==
    ASSUME NEW V \in SUBSET Elems, NEW S \in SUBSET V, NEW inner,
           \A t \in S : VisitsOn(inner, V, S \ {t}),
           NEW f \in Families(S), NEW a \in Piles(V), Proper(a)
    PROVE  VisitStep(inner, f, a) \in Piles(V) /\ Visits(f, a, VisitStep(inner, f, a))
<1>0. S \in SUBSET Elems /\ f \in Families(Elems) /\ f \in Families(V)
    BY DEF Families
<1>1. Grown(a, a) /\ Settled(a, a)
    <2>1. \A v \in Elems : Len(a[v]) \in Nat
        BY PileFacts
    <2> QED
        BY <2>1 DEF Grown, Settled
<1>2. CASE IsTerm(f)
    <2>1. VisitStep(inner, f, a) = a
        BY <1>2 DEF VisitStep
    <2>2. Known(a, f)
        BY <1>0, <1>2, TerminalIs DEF Known
    <2> QED
        BY <1>1, <1>2, <2>1, <2>2 DEF Visits
<1>3. CASE ~IsTerm(f) /\ Contains(a[Top(f)], f)
    <2>1. VisitStep(inner, f, a) = a
        BY <1>3 DEF VisitStep
    <2>2. On(a, f)
        BY <1>3 DEF On, Contains
    <2> QED
        BY <1>1, <1>3, <2>1, <2>2 DEF Visits, Known
<1>4. CASE ~IsTerm(f) /\ ~Contains(a[Top(f)], f)
    <2> DEFINE v == Top(f)
               b == [a EXCEPT ![Top(f)] = Append(@, f)]
               c == inner[<<Lo(f), b>>]
               d == inner[<<Hi(f), c>>]
    <2>1. VisitStep(inner, f, a) = d
        BY <1>4 DEF VisitStep
    <2>2. /\ v \in Elems /\ v \in S /\ Node(S, f, v)
          /\ Lo(f) \in Families(S \ {v}) /\ Hi(f) \in Families(S \ {v})
        BY <1>0, <1>4, EdgesBelow DEF Node
    <2>3. /\ b \in Piles(V) /\ Proper(b) /\ Grown(a, b) /\ On(b, f)
          /\ b[v] = Append(a[v], f)
          /\ \A u \in Elems : u # v => b[u] = a[u]
        <3> HIDE DEF b
        <3> QED
            BY <1>0, <1>4, PushFacts DEF b
    <2> HIDE DEF b
    <2>4. c \in Piles(V) /\ Visits(Lo(f), b, c)
        BY <2>2, <2>3 DEF VisitsOn
    <2> HIDE DEF c
    <2>5. d \in Piles(V) /\ Visits(Hi(f), c, d)
        <3>1. Proper(c)
            BY <2>4 DEF Visits
        <3> QED
            BY <2>2, <2>4, <3>1 DEF VisitsOn
    <2> HIDE DEF d
    <2>6. Grown(b, c) /\ Grown(c, d) /\ Grown(b, d) /\ Grown(a, d)
        <3>1. Grown(b, c) /\ Grown(c, d)
            BY <2>4, <2>5 DEF Visits
        <3>2. Grown(b, d)
            BY <2>3, <2>4, <2>5, <3>1, GrownFurther
        <3> QED
            BY <2>3, <2>5, <3>1, <3>2, GrownFurther
    <2>7. \A g \in Families(Elems) : Known(c, g) => Known(d, g)
        BY <2>4, <2>5, <2>6, StaysKnown
    <2>8. Known(d, Lo(f)) /\ Known(d, Hi(f)) /\ Known(d, f)
        <3>1. Lo(f) \in Families(Elems)
            BY <1>0, <2>2 DEF Families
        <3>2. Known(c, Lo(f)) /\ Known(d, Hi(f))
            BY <2>4, <2>5 DEF Visits
        <3>3. Known(b, f)
            BY <2>3 DEF Known
        <3>4. Known(d, f)
            BY <1>0, <2>3, <2>5, <2>6, <3>3, StaysKnown
        <3> QED
            BY <2>7, <3>1, <3>2, <3>4
    <2>9. v \notin Support(Lo(f)) /\ v \notin Support(Hi(f)) /\ v \in Support(f)
        <3>1. v \in Nat /\ \A w \in Support(Lo(f)) \cup Support(Hi(f)) : v < w
            BY <2>2 DEF Node
        <3>2. f # Empty /\ f # Unit
            BY <1>0, <1>4, EdgesBelow
        <3> QED
            BY <1>0, <3>1, <3>2, TopFacts
    <2>10. d[v] = Append(a[v], f)
        <3>1. c[v] = b[v] /\ d[v] = c[v]
            BY <2>2, <2>4, <2>5, <2>9 DEF Visits
        <3> QED
            BY <2>3, <3>1
    <2>11. \A u \in Elems \ Support(f) : d[u] = a[u]
        <3>1. Support(Lo(f)) \subseteq Support(f) /\ Support(Hi(f)) \subseteq Support(f)
            BY <1>0, CofactorFacts DEF Lo, Hi
        <3>2. \A u \in Elems \ Support(f) : c[u] = b[u] /\ d[u] = c[u] /\ u # v
            BY <2>4, <2>5, <2>9, <3>1 DEF Visits
        <3> QED
            BY <2>3, <3>2
    <2>12. Settled(a, d)
        <3> SUFFICES ASSUME NEW u \in Elems, NEW i \in (Len(a[u]) + 1)..Len(d[u])
                     PROVE  EdgesKnown(d, d[u][i])
            BY DEF Settled
        <3>1. Len(a[u]) \in Nat /\ Len(c[u]) \in Nat /\ Len(d[u]) \in Nat
            BY <2>4, <2>5, PileFacts
        <3>2. CASE u = v
            <4>1. a[v] \in Seq(Families(V))
                BY <2>2, PileFacts
            <4>2. Len(d[v]) = Len(a[v]) + 1 /\ d[v][Len(a[v]) + 1] = f
                BY <1>0, <2>10, <4>1
            <4>3. i = Len(a[v]) + 1
                BY <3>1, <3>2, <4>2
            <4> QED
                BY <2>8, <3>2, <4>2, <4>3 DEF EdgesKnown
        <3>3. CASE u # v /\ i \in 1..Len(c[u])
            <4>1. b[u] = a[u]
                BY <2>3, <3>3
            <4>2. i \in (Len(b[u]) + 1)..Len(c[u])
                BY <3>1, <3>3, <4>1
            <4>3. EdgesKnown(c, c[u][i])
                BY <2>4, <4>2 DEF Visits, Settled
            <4>4. d[u][i] = c[u][i]
                BY <2>6, <3>3 DEF Grown
            <4>5. c[u][i] \in Families(V) /\ ~IsTerm(c[u][i])
                <5>1. c[u] \in Seq(Families(V))
                    BY <2>4, PileFacts
                <5>2. NodeOn(c, u, i)
                    BY <2>4, <3>3 DEF Visits, Proper
                <5> QED
                    BY <3>3, <5>1, <5>2 DEF NodeOn
            <4> DEFINE g == c[u][i]
            <4>6. Lo(g) \in Families(Elems) /\ Hi(g) \in Families(Elems)
                <5>1. g \in Families(V) /\ ~IsTerm(g)
                    BY <4>5
                <5> HIDE DEF g
                <5>2. Lo(g) \in Families(V) /\ Hi(g) \in Families(V)
                    BY <5>1, EdgesBelow
                <5> QED
                    BY <5>2 DEF Families
            <4> QED
                BY <2>7, <4>3, <4>4, <4>6 DEF EdgesKnown
        <3>4. CASE i \notin 1..Len(c[u])
            <4>1. i \in (Len(c[u]) + 1)..Len(d[u])
                BY <3>1, <3>4
            <4> QED
                BY <2>5, <4>1 DEF Visits, Settled
        <3> QED
            BY <3>2, <3>3, <3>4
    <2>13. Proper(d)
        BY <2>5 DEF Visits
    <2> QED
        BY <2>1, <2>5, <2>6, <2>8, <2>10, <2>11, <2>12, <2>13 DEF Visits
<1> QED
    BY <1>2, <1>3, <1>4

\* sort_zdd() puts the nodes of a family on stacks, with what they lead to.
LEMMA VisitedIs ==
    ASSUME NEW f \in Families(Elems), NEW V, V = Support(f), NEW a \in Piles(V), Proper(a)
    PROVE  Visited(f, a) \in Piles(V) /\ Visits(f, a, Visited(f, a))
<1> DEFINE R == Piles(V)
           D == Over(f, f) \X [Elems -> Seq(Over(f, f))]
           step == [x \in [D -> R] \X D |-> VisitStep(x[1], x[2][1], x[2][2])]
           visited == CHOOSE h : h = [p \in D |-> VisitStep(h, p[1], p[2])]
<1>1. V \in SUBSET Elems /\ IsFiniteSet(V) /\ f \in Families(V) /\ Over(f, f) = Families(V)
    <2>1. V = Support(f) \cup Support(f)
        OBVIOUS
    <2> QED
        BY <2>1, OperandFacts
<1>2. D = Families(V) \X Piles(V)
    BY <1>1 DEF Piles
<1>3. R # {}
    OBVIOUS
<1>4. Visited(f, a) = visited[<<f, a>>]
    BY DEF Visited
<1> HIDE DEF D
<1>5. step \in [[D -> R] \X D -> R]
    BY <1>1, <1>2, VisitInner
<1>6. \A h \in [D -> R], p \in D : step[<<h, p>>] = VisitStep(h, p[1], p[2])
    OBVIOUS
<1> HIDE DEF step
<1>0. \A p \in D : p[1] \in Families(V)
    BY <1>2
<1>7. GoesDown(D, R, step)
    <2>1. ASSUME NEW g \in [D -> R], NEW h \in [D -> R], NEW p \in D, SameBelow(D, g, h, p)
          PROVE  VisitStep(g, p[1], p[2]) = VisitStep(h, p[1], p[2])
        BY <1>1, <1>2, <2>1, VisitInner
    <2> QED
        BY <1>6, <2>1 DEF GoesDown
<1>8. Solvable(D, R, step)
    BY <1>0, <1>1, <1>3, <1>5, <1>7, DownRecursion
<1>9. PICK h \in [D -> R] : \A p \in D : h[p] = step[<<h, p>>]
    BY <1>8 DEF Solvable
<1>10. h = [p \in D |-> VisitStep(h, p[1], p[2])]
    BY <1>6, <1>9
<1>11. visited = [p \in D |-> VisitStep(visited, p[1], p[2])]
    BY <1>10, Zenon
<1> HIDE DEF visited
<1>12. \A x \in Families(V), y \in R : visited[<<x, y>>] = VisitStep(visited, x, y)
    BY <1>2, <1>11
<1> DEFINE Good == {S \in SUBSET V : VisitsOn(visited, V, S)}
<1>13. ASSUME NEW S \in SUBSET V, \A t \in S : S \ {t} \in Good
       PROVE  S \in Good
    <2>1. \A t \in S : VisitsOn(visited, V, S \ {t})
        BY <1>13
    <2>2. Families(S) \subseteq Families(V)
        BY DEF Families
    <2>3. VisitsOn(visited, V, S)
        BY <1>1, <1>12, <2>1, <2>2, VisitSteps DEF VisitsOn
    <2> QED
        BY <2>3
<1> HIDE DEF Good
<1>14. V \in Good
    BY <1>1, <1>13, SetInduction
<1> QED
    BY <1>1, <1>4, <1>14 DEF Good, VisitsOn

LineSet(V) == {Line(g) : g \in Families(V)}
LEMMA PoppedFacts ==
    ASSUME NEW V, NEW st \in Seq(Families(V))
    PROVE  /\ Popped(st) \in Seq(LineSet(V))
           /\ Len(Popped(st)) = Len(st)
           /\ \A i \in 1..Len(st) : Popped(st)[i] = Line(st[Len(st) - i + 1])
<1> DEFINE n == Len(st)
           nodes == [i \in 1..n |-> st[(n - i) + 1]]
<1>1. n \in Nat /\ DOMAIN nodes = 1..n
    OBVIOUS
<1>2. Popped(st) = [i \in 1..n |-> Line(nodes[i])]
    BY DEF Popped, Reverse
<1>3. \A i \in 1..n : (n - i) + 1 \in 1..n
    BY <1>1
<1>4. \A i \in 1..n : nodes[i] = st[n - i + 1] /\ nodes[i] \in Families(V)
    BY <1>3
<1> HIDE DEF nodes
<1>5. \A i \in 1..n : Line(nodes[i]) \in LineSet(V)
    BY <1>4 DEF LineSet
<1> HIDE DEF n
<1>6. [i \in 1..n |-> Line(nodes[i])] \in Seq(LineSet(V)) /\ Len([i \in 1..n |-> Line(nodes[i])]) = n
    BY <1>1, <1>5
<1> QED
    BY <1>2, <1>4, <1>6 DEF n

\* Lines that load() can read: every line has its edges to nodes of earlier lines.
ReadBefore(lines, i, g) == g = Empty \/ g = Unit \/ \E j \in 1..(i - 1) : lines[j].id = g
LineOk(lines, i) ==
    LET g == lines[i].id
    IN  /\ g \in Families(Elems) /\ ~IsTerm(g) /\ lines[i] = Line(g)
        /\ ReadBefore(lines, i, Lo(g)) /\ ReadBefore(lines, i, Hi(g))
Legible(lines) == \A i \in 1..Len(lines) : LineOk(lines, i)

\* What dump() has written for the levels of the elements from v on.
HasNode(lines, g) == \E j \in 1..Len(lines) : lines[j].id = g
EndsWith(lines, f) == Len(lines) > 0 /\ lines[Len(lines)].id = f
Dumped(f, stacks, v, lines) ==
    /\ Legible(lines)
    /\ \A u \in v..NumElems : \A i \in 1..Len(stacks[u]) : HasNode(lines, stacks[u][i])
    /\ v <= Top(f) => EndsWith(lines, f)

LEMMA DumpSteps ==
    ASSUME NEW f \in Families(Elems), ~IsTerm(f), NEW V, V = Support(f),
           NEW b \in Piles(V), Visits(f, NoStacks, b),
           NEW v \in 1..NumElems, NEW w \in Seq(LineSet(V)), Dumped(f, b, v + 1, w)
    PROVE  Dumped(f, b, v, w \o Popped(b[v]))
<1> DEFINE p == Popped(b[v])
           l == w \o p
           m == Len(w)
           n == Len(b[v])
           at(i) == b[v][n - i + 1]
<1>1. v \in Elems /\ v \in Nat /\ V \in SUBSET Elems /\ f \in Families(V) /\ NumElems \in Nat
    <2>1. V = Support(f) \cup Support(f)
        OBVIOUS
    <2>2. V \in SUBSET Elems /\ f \in Families(V)
        BY <2>1, OperandFacts
    <2> QED
        BY <2>2, LevelAssumption DEF Elems
<1>2. b[v] \in Seq(Families(V)) /\ n \in Nat /\ m \in Nat
    BY <1>1, PileFacts
<1>3. p \in Seq(LineSet(V)) /\ Len(p) = n /\ \A i \in 1..n : p[i] = Line(at(i))
    BY <1>2, PoppedFacts
<1>4. \A i \in 1..n : n - i + 1 \in 1..n
    BY <1>2
<1>5. \A g : Line(g).id = g
    BY DEF Line
<1> HIDE DEF p
<1>6. /\ Len(l) = m + n
      /\ \A i \in 1..m : l[i] = w[i]
      /\ \A i \in 1..n : l[m + i] = p[i]
    <2>1. w \in Seq(LineSet(V)) /\ p \in Seq(LineSet(V)) /\ Len(w) = m /\ Len(p) = n
        BY <1>3
    <2> HIDE DEF m, n
    <2>2. Len(l) = m + n
        BY <2>1
    <2>3. \A i \in 1..m : l[i] = w[i]
        BY <1>2, <2>1
    <2>4. \A i \in 1..n : l[m + i] = p[i]
        BY <1>2, <2>1
    <2> QED
        BY <2>2, <2>3, <2>4
<1> HIDE DEF l, m, n, at
<1>7. \A i \in 1..n : l[m + i] = Line(at(i)) /\ l[m + i].id = at(i)
    BY <1>3, <1>5, <1>6
<1>8. \A i \in 1..(m + n) : i \in 1..m \/ \E k \in 1..n : i = m + k
    <2> SUFFICES ASSUME NEW i \in 1..(m + n), i \notin 1..m PROVE \E k \in 1..n : i = m + k
        OBVIOUS
    <2>1. i - m \in 1..n /\ i = m + (i - m)
        BY <1>2
    <2> QED
        BY <2>1
<1>9. \A i \in 1..m : i \in 1..(m + n)
    BY <1>2
<1>10. \A i \in 1..n : m + i \in 1..(m + n)
    BY <1>2
<1>11. \A g : HasNode(w, g) => HasNode(l, g)
    BY <1>6, <1>9 DEF HasNode, m
<1>12. ASSUME NEW i \in 1..n PROVE LineOk(l, m + i)
    <2> DEFINE g == at(i)
               k == n - i + 1
    <2>1. k \in 1..n /\ g = b[v][k]
        BY <1>4 DEF at
    <2> HIDE DEF k
    <2>2. g \in Families(V) /\ ~IsTerm(g) /\ Top(g) = v
        <3>1. NodeOn(b, v, k)
            BY <1>1, <2>1 DEF Visits, Proper, n
        <3> QED
            BY <1>2, <2>1, <3>1 DEF NodeOn, n
    <2>3. EdgesKnown(b, g)
        <3>1. NoStacks[v] = <<>> /\ Len(NoStacks[v]) = 0
            BY <1>1 DEF NoStacks
        <3>2. k \in (Len(NoStacks[v]) + 1)..Len(b[v])
            BY <1>2, <2>1, <3>1 DEF n
        <3> QED
            BY <1>1, <2>1, <3>2 DEF Visits, Settled
    <2> HIDE DEF g
    <2>4. Node(V, g, v) /\ g \in Families(Elems)
        BY <1>1, <2>2, EdgesBelow
    <2>5. ASSUME NEW c \in Families(Elems), Known(b, c), \A u \in Support(c) : v < u
          PROVE  ReadBefore(l, m + i, c)
        <3>1. CASE c = Empty \/ c = Unit
            BY <3>1 DEF ReadBefore
        <3>2. CASE c # Empty /\ c # Unit
            <4> DEFINE u == Top(c)
            <4>1. u \in Support(c) /\ u \in Elems
                BY <3>2, TopFacts
            <4>2. PICK y \in 1..Len(b[u]) : b[u][y] = c
                BY <2>5, <3>2 DEF Known, On
            <4>3. u \in (v + 1)..NumElems
                BY <1>1, <2>5, <4>1 DEF Elems
            <4>4. HasNode(w, c)
                BY <4>2, <4>3 DEF Dumped
            <4>5. PICK j \in 1..m : w[j].id = c
                BY <4>4 DEF HasNode, m
            <4>6. j \in 1..((m + i) - 1) /\ l[j].id = c
                BY <1>2, <1>6, <4>5
            <4> QED
                BY <4>6 DEF ReadBefore
        <3> QED
            BY <3>1, <3>2
    <2>6. ReadBefore(l, m + i, Lo(g)) /\ ReadBefore(l, m + i, Hi(g))
        <3>1. \A u \in Support(Lo(g)) \cup Support(Hi(g)) : v < u
            BY <2>4 DEF Node
        <3>2. Lo(g) \in Families(Elems) /\ Hi(g) \in Families(Elems)
            BY <1>1, <2>4 DEF Node, Families
        <3> QED
            BY <2>3, <2>5, <3>1, <3>2 DEF EdgesKnown
    <2>7. l[m + i] = Line(g) /\ l[m + i].id = g
        BY <1>7 DEF g
    <2> QED
        BY <2>2, <2>4, <2>6, <2>7 DEF LineOk
<1>13. ASSUME NEW i \in 1..m PROVE LineOk(l, i)
    <2> DEFINE g == w[i].id
    <2>1. LineOk(w, i)
        BY DEF Dumped, Legible, m
    <2>2. l[i] = w[i]
        BY <1>6
    <2>3. \A j \in 1..(i - 1) : j \in 1..m /\ l[j] = w[j]
        <3>1. \A j \in 1..(i - 1) : j \in 1..m
            BY <1>2
        <3> QED
            BY <1>6, <3>1
    <2>4. \A c : ReadBefore(w, i, c) => ReadBefore(l, i, c)
        BY <2>3 DEF ReadBefore
    <2> QED
        BY <2>1, <2>2, <2>4 DEF LineOk
<1>14. Legible(l)
    BY <1>6, <1>8, <1>12, <1>13 DEF Legible
<1>15. ASSUME NEW u \in v..NumElems, NEW i \in 1..Len(b[u]) PROVE HasNode(l, b[u][i])
    <2>1. CASE u = v
        <3> DEFINE k == n - i + 1
        <3>1. k \in 1..n /\ n - k + 1 = i
            BY <1>2, <2>1 DEF n
        <3> HIDE DEF k
        <3>2. at(k) = b[u][i]
            BY <2>1, <3>1 DEF at
        <3> QED
            BY <1>6, <1>7, <1>10, <3>1, <3>2 DEF HasNode
    <2>2. CASE u # v
        <3>1. u \in (v + 1)..NumElems
            BY <1>1, <2>2
        <3> QED
            BY <1>11, <3>1 DEF Dumped
    <2> QED
        BY <2>1, <2>2
<1>16. ASSUME v <= Top(f) PROVE EndsWith(l, f)
    <2>0. Top(f) \in Elems /\ Top(f) \in Nat
        BY <1>1, EdgesBelow DEF Elems
    <2>1. CASE v = Top(f)
        <3>1. ~On(NoStacks, f) /\ NoStacks[v] = <<>>
            <4>1. NoStacks[v] = <<>> /\ Len(NoStacks[v]) = 0
                BY <1>1 DEF NoStacks
            <4> QED
                BY <2>1, <4>1 DEF On
        <3>2. b[v] = Append(<<>>, f)
            BY <2>1, <3>1 DEF Visits
        <3>3. n = 1 /\ b[v][1] = f
            BY <3>2 DEF n
        <3>4. at(1) = f
            BY <3>3 DEF at
        <3>5. l[m + 1].id = f
            BY <1>7, <3>3, <3>4
        <3>6. Len(l) = m + 1 /\ m + 1 > 0
            BY <1>2, <1>6, <3>3
        <3> QED
            BY <3>5, <3>6 DEF EndsWith
    <2>2. CASE v # Top(f)
        <3>1. v \notin Support(f)
            <4>1. f # Empty /\ f # Unit
                BY <1>1, EdgesBelow
            <4>2. \A u \in Support(f) : Top(f) <= u
                BY <4>1, TopFacts
            <4> QED
                BY <1>1, <1>16, <2>0, <2>2, <4>2
        <3>2. b[v] = <<>>
            BY <1>1, <3>1 DEF Visits, NoStacks
        <3>3. n = 0 /\ Len(l) = m
            BY <1>2, <1>6, <3>2 DEF n
        <3>4. EndsWith(w, f)
            <4>1. v + 1 <= Top(f)
                BY <1>1, <1>16, <2>0, <2>2
            <4> QED
                BY <4>1 DEF Dumped
        <3>5. m > 0 /\ w[m].id = f
            BY <3>4 DEF EndsWith, m
        <3>6. m \in 1..m
            BY <1>2, <3>5
        <3>7. l[m] = w[m]
            BY <1>6, <3>6
        <3> QED
            BY <3>3, <3>5, <3>7 DEF EndsWith
    <2> QED
        BY <2>1, <2>2
<1> QED
    BY <1>14, <1>15, <1>16 DEF Dumped, l, p

\* dump() writes every line after the lines its edges name, and that of the
\* family last.
LEMMA DumpIs ==
    ASSUME NEW f \in Families(Elems), ~IsTerm(f)
    PROVE  /\ Dump(f) \in Seq(LineSet(Support(f)))
           /\ Legible(Dump(f)) /\ EndsWith(Dump(f), f)
<1> DEFINE V == Support(f)
           b == Visited(f, NoStacks)
           D == 1..(NumElems + 1)
           R == Seq(LineSet(V))
           writes(h, v) == IF v > NumElems THEN <<>> ELSE h[v + 1] \o Popped(b[v])
           step == [x \in [D -> R] \X D |-> writes(x[1], x[2])]
           size == [v \in D |-> NumElems + 1 - v]
           written == CHOOSE h : h = [v \in D |-> writes(h, v)]
           Good == {v \in D : written[v] \in R /\ Dumped(f, b, v, written[v])}
<1>1. NumElems \in Nat /\ \A v \in 1..NumElems : v \in Elems /\ v \in D /\ v + 1 \in D /\ ~(v > NumElems)
    BY LevelAssumption DEF Elems
<1>2. V \in SUBSET Elems
    <2>1. V = Support(f) \cup Support(f)
        OBVIOUS
    <2> QED
        BY <2>1, OperandFacts
<1>3. NoStacks \in Piles(V) /\ Proper(NoStacks)
    <2>1. \A v \in Elems : NoStacks[v] = <<>> /\ Len(NoStacks[v]) = 0
        BY DEF NoStacks
    <2>2. NoStacks \in Piles(V)
        BY DEF NoStacks, Piles
    <2> QED
        BY <2>1, <2>2 DEF Proper
<1>4. b \in Piles(V) /\ Visits(f, NoStacks, b)
    BY <1>3, VisitedIs
<1> HIDE DEF b
<1>5. \A v \in D : v \in 1..NumElems \/ (v = NumElems + 1 /\ v > NumElems)
    BY <1>1
<1>6. R # {} /\ <<>> \in R
    <2>1. <<>> \in R
        OBVIOUS
    <2> HIDE DEF R
    <2> QED
        BY <2>1
<1>7. \A v \in 1..NumElems : Popped(b[v]) \in R
    <2> SUFFICES ASSUME NEW v \in 1..NumElems PROVE Popped(b[v]) \in R
        OBVIOUS
    <2>1. b[v] \in Seq(Families(V))
        BY <1>1, <1>2, <1>4, PileFacts
    <2> QED
        BY <2>1, PoppedFacts
<1>8. \A x \in R, y \in R : x \o y \in R
    OBVIOUS
<1> HIDE DEF V, R
<1>9. ASSUME NEW h, NEW v \in D, v \in 1..NumElems => h[v + 1] \in R PROVE writes(h, v) \in R
    BY <1>1, <1>5, <1>6, <1>7, <1>8, <1>9
<1>10. step \in [[D -> R] \X D -> R]
    <2>1. ASSUME NEW h \in [D -> R], NEW v \in D PROVE writes(h, v) \in R
        BY <1>1, <1>9
    <2> HIDE DEF writes, D
    <2> QED
        BY <2>1
<1>11. size \in [D -> 0..NumElems]
    BY <1>1
<1>12. Shrinks(D, R, step, size)
    <2>1. ASSUME NEW g \in [D -> R], NEW h \in [D -> R], NEW v \in D,
                 \A q \in D : size[q] < size[v] => g[q] = h[q]
          PROVE  writes(g, v) = writes(h, v)
        <3>1. v \in 1..NumElems => g[v + 1] = h[v + 1]
            <4>1. ASSUME v \in 1..NumElems PROVE v + 1 \in D /\ size[v + 1] < size[v]
                BY <1>1, <4>1
            <4> HIDE DEF size
            <4> QED
                BY <2>1, <4>1
        <3> QED
            BY <1>5, <3>1
    <2> HIDE DEF writes, D, size
    <2>2. \A g \in [D -> R], v \in D : step[<<g, v>>] = writes(g, v)
        OBVIOUS
    <2> HIDE DEF step
    <2> QED
        BY <2>1, <2>2 DEF Shrinks
<1>13. \A h \in [D -> R], v \in D : step[<<h, v>>] = writes(h, v)
    OBVIOUS
<1> HIDE DEF writes, step, size, D
<1>14. Solvable(D, R, step)
    BY <1>1, <1>6, <1>10, <1>11, <1>12, Recursion
<1>15. PICK h \in [D -> R] : \A v \in D : h[v] = step[<<h, v>>]
    BY <1>14 DEF Solvable
<1>16. h = [v \in D |-> writes(h, v)]
    BY <1>13, <1>15
<1>17. written = [v \in D |-> writes(written, v)]
    BY <1>16, Zenon
<1> HIDE DEF written
<1>18. NumElems + 1 \in Good
    <2>1. NumElems + 1 \in D /\ NumElems + 1 > NumElems
        BY <1>1 DEF D
    <2>2. written[NumElems + 1] = <<>>
        BY <1>17, <2>1 DEF writes
    <2>3. Legible(<<>>)
        BY DEF Legible
    <2>4. Top(f) \in Elems
        BY <1>2, EdgesBelow
    <2>5. ~(NumElems + 1 <= Top(f))
        BY <1>1, <2>4 DEF Elems
    <2>6. (NumElems + 1)..NumElems = {}
        BY <1>1
    <2>7. Dumped(f, b, NumElems + 1, <<>>)
        BY <2>3, <2>5, <2>6 DEF Dumped
    <2> QED
        BY <1>6, <2>1, <2>2, <2>7
<1>19. ASSUME NEW v \in 1..NumElems, v + 1 \in Good PROVE v \in Good
    <2>1. written[v + 1] \in R /\ Dumped(f, b, v + 1, written[v + 1])
        BY <1>19
    <2>2. written[v] = written[v + 1] \o Popped(b[v])
        BY <1>1, <1>17 DEF writes
    <2>3. Dumped(f, b, v, written[v + 1] \o Popped(b[v]))
        BY <1>4, <2>1, DumpSteps DEF R, V
    <2>4. written[v] \in R
        BY <1>7, <1>8, <2>1, <2>2
    <2> QED
        BY <1>1, <2>2, <2>3, <2>4
<1> HIDE DEF Good
<1>20. 1 \in Good
    <2>1. 1 \in 1..(NumElems + 1)
        BY <1>1
    <2> QED
        BY <1>18, <1>19, <2>1, UpwardInduction
<1>21. Dump(f) = written[1]
    BY DEF Dump, written, writes, D, b
<1>22. 1 <= Top(f)
    <2>1. Top(f) \in Elems
        BY <1>2, EdgesBelow
    <2> QED
        BY <1>1, <2>1 DEF Elems
<1> QED
    BY <1>20, <1>21, <1>22 DEF Good, R, V, Dumped

\* What load() holds after k lines: every node read is itself again, and the
\* last one is the root.
ReadsTo(lines, k, acc) ==
    /\ DOMAIN acc.table = {lines[j].id : j \in 1..k}
    /\ \A x \in DOMAIN acc.table : acc.table[x] = x
    /\ acc.root = IF k = 0 THEN Empty ELSE lines[k].id

LEMMA ReadLineSteps ==
    ASSUME NEW X, NEW lines \in Seq(X), Legible(lines),
           NEW k \in 0..(Len(lines) - 1), NEW acc, ReadsTo(lines, k, acc)
    PROVE  ReadsTo(lines, k + 1, ReadLine(acc, lines[k + 1]))
<1> DEFINE line == lines[k + 1]
           g == line.id
           r == ReadLine(acc, line)
<1>1. k \in Nat /\ Len(lines) \in Nat /\ k + 1 \in 1..Len(lines) /\ (k + 1) - 1 = k
    OBVIOUS
<1>2. LineOk(lines, k + 1)
    BY <1>1 DEF Legible
<1>3. g \in Families(Elems) /\ ~IsTerm(g) /\ line = Line(g)
    BY <1>2 DEF LineOk
<1>4. ReadBefore(lines, k + 1, Lo(g)) /\ ReadBefore(lines, k + 1, Hi(g))
    BY <1>2 DEF LineOk
<1>5. Unread \notin Families(Elems)
    <2>1. {0} \in Unread /\ 0 \notin Elems
        BY DEF Unread, Elems
    <2> QED
        BY <2>1 DEF Families
<1>6. acc.root # Unread
    <2>1. CASE k = 0
        <3>1. acc.root = Empty /\ Empty # Unread
            BY <2>1 DEF ReadsTo, Empty, Unread
        <3> QED
            BY <3>1
    <2>2. CASE k # 0
        <3>1. k \in 1..Len(lines)
            BY <1>1, <2>2
        <3>2. lines[k].id \in Families(Elems)
            BY <3>1 DEF Legible, LineOk
        <3> QED
            BY <1>5, <2>2, <3>2 DEF ReadsTo
    <2> QED
        BY <2>1, <2>2
<1>7. Top(g) \in Elems /\ Lo(g) \in Families(Elems) /\ Hi(g) \in Families(Elems)
    BY <1>3, EdgesBelow
<1>8. ASSUME NEW c, ReadBefore(lines, k + 1, c) PROVE Read(acc.table, c) = c
    <2>1. CASE c = Empty \/ c = Unit
        BY <2>1 DEF Read
    <2>2. CASE c # Empty /\ c # Unit
        <3>1. PICK j \in 1..k : lines[j].id = c
            BY <1>1, <1>8, <2>2 DEF ReadBefore
        <3>2. c \in DOMAIN acc.table
            BY <3>1 DEF ReadsTo
        <3>3. acc.table[c] = c
            BY <3>2 DEF ReadsTo
        <3> QED
            BY <2>2, <3>2, <3>3 DEF Read
    <2> QED
        BY <2>1, <2>2
<1> DEFINE h == line.hi
           l == line.lo
           e == line.elem
<1>9. h = Hi(g) /\ l = Lo(g) /\ e = Top(g)
    BY <1>3 DEF Line
<1> HIDE DEF g, h, l, e
<1>10. Read(acc.table, l) = Lo(g) /\ Read(acc.table, h) = Hi(g)
    BY <1>4, <1>8, <1>9
<1>11. Zuniq(e, Lo(g), Hi(g)) = g
    BY <1>3, <1>7, <1>9, ZuniqRebuilt DEF Lo, Hi
<1>12. r = [table |-> [x \in DOMAIN acc.table \cup {g} |-> IF x = g THEN g ELSE acc.table[x]],
            root |-> g]
    <2>1. Lo(g) # Unread /\ Hi(g) # Unread
        BY <1>5, <1>7
    <2> QED
        BY <1>6, <1>10, <1>11, <2>1 DEF ReadLine, g, h, l, e
<1> HIDE DEF r
<1>13. r.root = g /\ r.table = [x \in DOMAIN acc.table \cup {g} |-> IF x = g THEN g ELSE acc.table[x]]
    BY <1>12
<1>14. DOMAIN r.table = DOMAIN acc.table \cup {g} /\ \A x \in DOMAIN r.table : r.table[x] = x
    BY <1>13 DEF ReadsTo
<1>15. DOMAIN acc.table \cup {g} = {lines[j].id : j \in 1..(k + 1)}
    <2>1. \A j : j \in 1..(k + 1) <=> j \in 1..k \/ j = k + 1
        BY <1>1
    <2>2. DOMAIN acc.table = {lines[j].id : j \in 1..k}
        BY DEF ReadsTo
    <2> QED
        BY <2>1, <2>2 DEF g, line
<1>16. k + 1 # 0
    BY <1>1
<1> QED
    BY <1>13, <1>14, <1>15, <1>16 DEF ReadsTo, r, g, line

\* load() reads back what the lines end with.
LEMMA LoadIs ==
    ASSUME NEW X, NEW lines \in Seq(X), Legible(lines), NEW f, EndsWith(lines, f)
    PROVE  LoadLines(lines) = f
<1> DEFINE n == Len(lines)
           loop(h, x) == IF x = {} THEN NothingRead ELSE ReadLine(h[x \ {Max(x)}], lines[Max(x)])
           turn == CHOOSE h : h = [x \in SUBSET DOMAIN lines |-> loop(h, x)]
           Defined(h, k) == h = [x \in SUBSET (1..k) |-> loop(h, x)]
           Ks == {k \in Nat : \E h : Defined(h, k)}
<1>1. n \in Nat /\ DOMAIN lines = 1..n /\ n > 0
    BY DEF EndsWith
<1>2. LoadLines(lines) = turn[DOMAIN lines].root
    BY DEF LoadLines, FoldLeft, MapThenFoldSet
<1> HIDE DEF turn
<1>3. ASSUME NEW k \in Nat, NEW x \in SUBSET (1..k), x # {}
      PROVE  Max(x) \in x /\ \A y \in x : Max(x) >= y
    <2>1. x \in SUBSET (0..k)
        OBVIOUS
    <2>2. \E y \in x : \A z \in x : y >= z
        BY <1>3, <2>1, GreatestElement
    <2> QED
        BY <2>2 DEF Max
<1>4. \A h : loop(h, {}) = NothingRead
    OBVIOUS
<1>5. \A x : x # {} => \A h : loop(h, x) = ReadLine(h[x \ {Max(x)}], lines[Max(x)])
    OBVIOUS
<1>6. ASSUME NEW k \in Nat, NEW x \in SUBSET (1..(k + 1)), k + 1 \in x
      PROVE  Max(x) = k + 1 /\ x \ {k + 1} \in SUBSET (1..k)
    <2>1. k + 1 \in Nat /\ \A y \in x : y \in Nat /\ y <= k + 1
        OBVIOUS
    <2>2. Max(x) \in x /\ Max(x) >= k + 1
        BY <1>3, <1>6, <2>1
    <2> DEFINE y == Max(x)
    <2>3. y \in Nat /\ y <= k + 1 /\ y >= k + 1
        BY <2>1, <2>2
    <2> HIDE DEF y
    <2>4. y = k + 1
        BY <2>3
    <2> QED
        BY <2>4 DEF y
<1> HIDE DEF loop
<1>7. 0 \in Ks
    <2>1. \A x \in SUBSET (1..0) : x = {}
        OBVIOUS
    <2>2. Defined([x \in SUBSET (1..0) |-> NothingRead], 0)
        BY <1>4, <2>1
    <2> QED
        BY <2>2
<1>8. ASSUME NEW k \in 0..(n - 1), k \in Ks PROVE k + 1 \in Ks
    <2>0. k \in Nat /\ k + 1 \in Nat /\ 1..k \subseteq 1..(k + 1) /\ k + 1 \notin 1..k
        BY <1>1
    <2>1. PICK h : Defined(h, k)
        BY <1>8
    <2> DEFINE g == [x \in SUBSET (1..(k + 1)) |->
                        IF k + 1 \in x THEN ReadLine(h[x \ {k + 1}], lines[k + 1]) ELSE h[x]]
    <2>2. \A x \in SUBSET (1..k) : h[x] = loop(h, x)
        BY <2>1
    <2>3. \A x \in SUBSET (1..k) : g[x] = h[x]
        <3> SUFFICES ASSUME NEW x \in SUBSET (1..k) PROVE g[x] = h[x]
            OBVIOUS
        <3>1. x \in SUBSET (1..(k + 1)) /\ k + 1 \notin x
            BY <2>0
        <3> QED
            BY <3>1
    <2>4. ASSUME NEW x \in SUBSET (1..(k + 1)) PROVE g[x] = loop(g, x)
        <3>1. CASE k + 1 \in x
            <4>1. g[x] = ReadLine(h[x \ {k + 1}], lines[k + 1])
                BY <3>1
            <4> HIDE DEF g
            <4>2. Max(x) = k + 1 /\ x \ {k + 1} \in SUBSET (1..k) /\ x # {}
                BY <1>6, <2>0, <3>1
            <4>3. g[x \ {k + 1}] = h[x \ {k + 1}]
                BY <2>3, <4>2
            <4> QED
                BY <1>5, <4>1, <4>2, <4>3
        <3>2. CASE k + 1 \notin x
            <4> HIDE DEF g
            <4>0. x \in SUBSET (1..k)
                <5>1. \A i \in 1..(k + 1) : i = k + 1 \/ i \in 1..k
                    BY <2>0
                <5> QED
                    BY <3>2, <5>1
            <4>1. g[x] = loop(h, x)
                BY <2>2, <2>3, <4>0
            <4>2. CASE x = {}
                BY <1>4, <4>1, <4>2
            <4>3. CASE x # {}
                <5>1. g[x \ {Max(x)}] = h[x \ {Max(x)}]
                    <6>1. x \ {Max(x)} \in SUBSET (1..k)
                        BY <4>0
                    <6> QED
                        BY <2>3, <6>1
                <5> QED
                    BY <1>5, <4>1, <4>3, <5>1
            <4> QED
                BY <4>2, <4>3
        <3> QED
            BY <3>1, <3>2
    <2>5. Defined(g, k + 1)
        <3>1. g = [x \in SUBSET (1..(k + 1)) |-> g[x]]
            OBVIOUS
        <3> HIDE DEF g
        <3> QED
            BY <2>4, <3>1
    <2> HIDE DEF Defined, g
    <2> QED
        BY <2>0, <2>5
<1>9. n \in Ks
    <2>1. Ks \in SUBSET Nat
        OBVIOUS
    <2> HIDE DEF Ks
    <2>2. 0..n \subseteq Ks
        BY <1>1, <1>7, <1>8, <2>1, InductionTo
    <2> QED
        BY <1>1, <2>2
<1>10. turn = [x \in SUBSET DOMAIN lines |-> loop(turn, x)]
    <2>1. PICK h : h = [x \in SUBSET DOMAIN lines |-> loop(h, x)]
        BY <1>1, <1>9
    <2> QED
        BY <2>1, Zenon DEF turn
<1> DEFINE ReadUpTo == {k \in 0..n : ReadsTo(lines, k, turn[1..k])}
<1>11. 0 \in ReadUpTo
    <2>1. 1..0 = {}
        OBVIOUS
    <2>2. turn[1..0] = NothingRead
        BY <1>4, <1>10, <2>1
    <2>3. ReadsTo(lines, 0, NothingRead)
        BY <2>1 DEF ReadsTo, NothingRead
    <2> QED
        BY <1>1, <2>2, <2>3
<1>12. ASSUME NEW k \in 0..(n - 1), k \in ReadUpTo PROVE k + 1 \in ReadUpTo
    <2>0. k \in Nat /\ k + 1 \in 0..n /\ 1..(k + 1) \subseteq 1..n /\ k + 1 \in 1..(k + 1)
        BY <1>1
    <2>1. (1..(k + 1)) \ {k + 1} = 1..k
        BY <2>0
    <2>2. Max(1..(k + 1)) = k + 1
        BY <1>6, <2>0
    <2>3. turn[1..(k + 1)] = loop(turn, 1..(k + 1))
        BY <1>1, <1>10, <2>0
    <2>4. turn[1..(k + 1)] = ReadLine(turn[1..k], lines[k + 1])
        BY <1>5, <2>0, <2>1, <2>2, <2>3
    <2>5. ReadsTo(lines, k + 1, ReadLine(turn[1..k], lines[k + 1]))
        BY <1>12, ReadLineSteps DEF n
    <2> QED
        BY <2>0, <2>4, <2>5
<1>13. n \in ReadUpTo
    <2>1. ReadUpTo \in SUBSET Nat
        BY <1>1
    <2> HIDE DEF ReadUpTo
    <2>2. 0..n \subseteq ReadUpTo
        BY <1>1, <1>11, <1>12, <2>1, InductionTo
    <2> QED
        BY <1>1, <2>2
<1>14. turn[1..n].root = lines[n].id
    BY <1>1, <1>13 DEF ReadsTo
<1> QED
    BY <1>1, <1>2, <1>14 DEF EndsWith

\* What is dumped is loaded again.
LEMMA LoadedIs ==
    ASSUME NEW f \in Families(Elems)
    PROVE  Loaded(f) = f /\ (~IsTerm(f) => LoadedFromFile(f) = f)
<1>1. ASSUME ~IsTerm(f) PROVE LoadLines(Dump(f)) = f
    BY <1>1, DumpIs, LoadIs
<1> QED
    BY <1>1 DEF Loaded, LoadedFromFile

StreamInv ==
    /\ asked.op = "load" => result = this
    /\ asked.op = "load_file" => (~IsTerm(this) => result = this)
    /\ asked.op = "enum" => Written(this, <<>>, result)

StreamOps == {"load", "load_file", "enum"}
LEMMA OnlyStreams ==
    ASSUME Asks
    PROVE  asked'.op \notin StreamOps \/ AskStream
<1>1. ASSUME NEW op, NEW arg, NEW r, Ask(op, arg, r), op \notin StreamOps
      PROVE  asked'.op \notin StreamOps
    BY <1>1 DEF Ask
<1>2. CASE AskAlone \/ AskStructure
    BY <1>1, <1>2 DEF AskAlone, AskStructure, StreamOps
<1>3. ASSUME NEW s \in SUBSET Elems, AskCount(s) PROVE asked'.op \notin StreamOps
    BY <1>1, <1>3 DEF AskCount, StreamOps
<1>4. ASSUME NEW g \in Others, AskWith(g) PROVE asked'.op \notin StreamOps
    BY <1>1, <1>4 DEF AskWith, StreamOps
<1>5. ASSUME NEW e \in Elems, AskElem(e) \/ AskVariable(e) PROVE asked'.op \notin StreamOps
    BY <1>1, <1>5 DEF AskElem, AskVariable, StreamOps
<1>6. ASSUME NEW v \in Elems, NEW w \in Elems, AskVariables(v, w)
      PROVE  asked'.op \notin StreamOps
    BY <1>1, <1>6 DEF AskVariables, StreamOps
<1>7. ASSUME NEW n \in 0..NumElems, AskSize(n) PROVE asked'.op \notin StreamOps
    BY <1>1, <1>7 DEF AskSize, StreamOps
<1>8. ASSUME NEW in \in SUBSET Elems, NEW ex \in SUBSET Elems, Construct(in, ex)
      PROVE  asked'.op \notin StreamOps
    BY <1>1, <1>8 DEF Construct, StreamOps
<1>9. ASSUME NEW p \in [Elems -> 0..Unit1], AskProbability(p) PROVE asked'.op \notin StreamOps
    BY <1>1, <1>9 DEF AskProbability, StreamOps
<1> QED
    BY <1>2, <1>3, <1>4, <1>5, <1>6, <1>7, <1>8, <1>9 DEF Asks

\* The sets of sequences that _enum() writes for an object.
LEMMA WrittenGivesAll ==
    ASSUME NEW f, NEW r, Written(f, <<>>, r)
    PROVE  Len(r) = Cardinality(f) /\ {Range(s) : s \in Range(r)} = f
<1>1. r \in Seq(Seq(Elems)) /\ DOMAIN r = 1..Len(r)
    BY DEF Written
<1>2. Range(<<>>) = {}
    BY DEF Range
<1>3. Range(r) = {r[i] : i \in 1..Len(r)}
    BY <1>1 DEF Range
<1>4. \A t : Range(<<>>) \cup t = t
    BY <1>2
<1>5. \A i \in 1..Len(r) : Range(r[i]) \in f
    BY <1>4 DEF Written
<1>6. \A t \in f : \E i \in 1..Len(r) : Range(r[i]) = t
    BY <1>4 DEF Written
<1>7. {Range(s) : s \in Range(r)} = {Range(r[i]) : i \in 1..Len(r)}
    BY <1>3
<1>8. {Range(r[i]) : i \in 1..Len(r)} = f
    BY <1>5, <1>6
<1> QED
    BY <1>7, <1>8 DEF Written

\* What dump() writes load() reads back as the same family, from a stream and,
\* of a family with a node, from a file; the enumeration writes each set of
\* the object once and nothing else.
THEOREM StreamsRightAlways == Spec => []StreamsRight
<1>1. Init => StreamInv
    BY DEF Init, NotAsked, StreamInv
<1>2. AnswerInv /\ StreamInv /\ [Next]_vars => StreamInv'
    <2> SUFFICES ASSUME AnswerInv, StreamInv, [Next]_vars PROVE StreamInv'
        OBVIOUS
    <2>1. CASE Still
        BY <2>1 DEF Still, StreamInv
    <2>2. CASE asked'.op \notin StreamOps
        BY <2>2 DEF StreamInv, StreamOps
    <2>3. CASE AskStream
        <3>1. this \in Families(Elems)
            BY DEF AnswerInv
        <3>2. CASE Ask("load", 0, Loaded(this))
            BY <3>1, <3>2, LoadedIs DEF Ask, StreamInv
        <3>3. CASE Ask("load_file", 0, LoadedFromFile(this))
            <4>1. asked'.op = "load_file" /\ this' = this /\ result' = LoadedFromFile(this)
                BY <3>3 DEF Ask
            <4>2. ~IsTerm(this) => result' = this
                BY <3>1, <4>1, LoadedIs
            <4>3. ~IsTerm(this)' <=> ~IsTerm(this)
                BY <4>1 DEF IsTerm, Top
            <4> QED
                BY <4>1, <4>2, <4>3 DEF StreamInv
        <3>4. CASE Ask("enum", 0, Enumerated(this, <<>>))
            <4>1. asked'.op = "enum" /\ this' = this /\ result' = Enumerated(this, <<>>)
                BY <3>4 DEF Ask
            <4>2. <<>> \in Seq(Elems)
                OBVIOUS
            <4>3. Written(this, <<>>, Enumerated(this, <<>>))
                BY <3>1, <4>2, EnumeratedIs
            <4>4. Written(this', <<>>, result')
                BY <4>1, <4>3
            <4> QED
                BY <4>1, <4>4 DEF StreamInv, Written
        <3> QED
            BY <2>3, <3>2, <3>3, <3>4 DEF AskStream
    <2> QED
        <3>1. CASE asked'.op = "none"
            BY <2>2, <3>1 DEF StreamOps
        <3> QED
            BY <2>1, <2>2, <2>3, <3>1, StepsAre, OnlyStreams
<1>3. StreamInv => StreamsRight
    BY WrittenGivesAll DEF StreamInv, StreamsRight, Asked
<1> QED
    BY <1>1, <1>2, <1>3, AnswersInductive, PTL DEF Spec
=============================================================================
