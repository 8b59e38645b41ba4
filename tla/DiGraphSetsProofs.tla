------------------------- MODULE DiGraphSetsProofs -------------------------
(***************************************************************************)
(* A program that uses digraphillion, in every universe.                   *)
(***************************************************************************)
EXTENDS DiGraphSets, FamilyProofs

(***************************************************************************)
(* Loops over sequences.                                                   *)
(***************************************************************************)
LEMMA MaxIs ==
    ASSUME NEW n \in Nat, NEW S \in SUBSET (0..n), S # {}
    PROVE  Max(S) \in S /\ \A y \in S : Max(S) >= y
<1>1. \E y \in S : \A z \in S : y >= z
    BY GreatestElement
<1> QED
    BY <1>1 DEF Max

\* The loop over a sequence of n items, each turn of which gives a member of A.
FoldTurn(base, next, h, x) ==
    IF x = {} THEN base ELSE next[<<h[x \ {Max(x)}], Max(x)>>]

FoldsAs(h, base, next, n, A) ==
    /\ h \in [SUBSET (1..n) -> A]
    /\ \A x \in SUBSET (1..n) : h[x] = FoldTurn(base, next, h, x)

IsTurn(next, n, A) == next \in [A \X (1..n) -> A]

LEMMA FoldRuns ==
    ASSUME NEW n \in Nat, NEW A, NEW base \in A, NEW next, IsTurn(next, n, A)
    PROVE  \E h : FoldsAs(h, base, next, n, A)
<1> DEFINE D == SUBSET (1..n)
           size == [x \in D |-> Cardinality(x)]
           step == [p \in [D -> A] \X D |-> FoldTurn(base, next, p[1], p[2])]
<1>1. IsFiniteSet(1..n) /\ Cardinality(1..n) = n
    BY FS_Interval
<1>2. ASSUME NEW x \in D, x # {}
      PROVE  /\ Max(x) \in 1..n /\ x \ {Max(x)} \in D
             /\ Cardinality(x \ {Max(x)}) < Cardinality(x)
    <2>1. x \in SUBSET (0..n)
        OBVIOUS
    <2>2. Max(x) \in x
        BY <1>2, <2>1, MaxIs
    <2>3. IsFiniteSet(x)
        BY <1>1, FS_Subset
    <2>4. Cardinality(x \ {Max(x)}) = Cardinality(x) - 1 /\ Cardinality(x) \in Nat
        BY <2>2, <2>3, FS_RemoveElement, FS_CardinalityType
    <2>5. Cardinality(x \ {Max(x)}) < Cardinality(x)
        <3> DEFINE c == Cardinality(x)
        <3>1. c \in Nat => c - 1 < c
            OBVIOUS
        <3> QED
            BY <2>4, <3>1
    <2>6. Max(x) \in 1..n /\ x \ {Max(x)} \in D
        BY <2>2
    <2> QED
        BY <2>5, <2>6
<1>3. size \in [D -> 0..n]
    <2>1. ASSUME NEW x \in D PROVE Cardinality(x) \in 0..n
        <3>1. x \in SUBSET (1..n)
            OBVIOUS
        <3>2. IsFiniteSet(x) /\ Cardinality(x) <= Cardinality(1..n)
            BY <1>1, <3>1, FS_Subset
        <3>3. Cardinality(x) \in Nat
            BY <3>2, FS_CardinalityType
        <3> QED
            BY <1>1, <3>2, <3>3
    <2> QED
        BY <2>1
<1>4. ASSUME NEW h \in [D -> A], NEW x \in D PROVE FoldTurn(base, next, h, x) \in A
    <2>1. next \in [A \X (1..n) -> A]
        BY DEF IsTurn
    <2> QED
        BY <1>2, <2>1 DEF FoldTurn
<1>5. step \in [[D -> A] \X D -> A]
    BY <1>4
<1>6. \A h \in [D -> A], x \in D : step[<<h, x>>] = FoldTurn(base, next, h, x)
    OBVIOUS
<1>7. Shrinks(D, A, step, size)
    <2>1. ASSUME NEW g \in [D -> A], NEW h \in [D -> A], NEW x \in D,
                 \A y \in D : size[y] < size[x] => g[y] = h[y]
          PROVE  FoldTurn(base, next, g, x) = FoldTurn(base, next, h, x)
        <3>1. x # {} => g[x \ {Max(x)}] = h[x \ {Max(x)}]
            BY <1>2, <2>1
        <3> QED
            BY <3>1 DEF FoldTurn
    <2> HIDE DEF step, size, D
    <2> QED
        BY <1>6, <2>1 DEF Shrinks
<1>8. A # {}
    OBVIOUS
<1> HIDE DEF D, step, size
<1>9. Solvable(D, A, step)
    BY <1>3, <1>5, <1>7, <1>8, Recursion
<1>10. PICK h \in [D -> A] : \A x \in D : h[x] = step[<<h, x>>]
    BY <1>9 DEF Solvable
<1>11. FoldsAs(h, base, next, n, A)
    BY <1>6, <1>10 DEF D, FoldsAs
<1> QED
    BY <1>11

LEMMA PrefixFacts ==
    ASSUME NEW n \in Nat, NEW k \in 0..(n - 1)
    PROVE  /\ 1..(k + 1) \in SUBSET (1..n) /\ 1..(k + 1) # {}
           /\ Max(1..(k + 1)) = k + 1 /\ (1..(k + 1)) \ {k + 1} = 1..k
<1>1. 1..(k + 1) \in SUBSET (0..n) /\ k + 1 \in 1..(k + 1) /\ k \in Nat
    OBVIOUS
<1>2. Max(1..(k + 1)) \in 1..(k + 1) /\ Max(1..(k + 1)) >= k + 1
    BY <1>1, MaxIs
<1> DEFINE m == Max(1..(k + 1))
<1>3. m \in 1..(k + 1) /\ m >= k + 1
    BY <1>2
<1> HIDE DEF m
<1>4. m = k + 1
    BY <1>1, <1>3
<1>5. (1..(k + 1)) \ {k + 1} = 1..k
    BY <1>1
<1> QED
    BY <1>1, <1>4, <1>5 DEF m

\* A run of such a loop, from what is there before it.
Run(r, base, next, n, A) ==
    /\ r \in [0..n -> A] /\ r[0] = base
    /\ \A k \in 0..(n - 1) : r[k + 1] = next[<<r[k], k + 1>>]

LEMMA RunOf ==
    ASSUME NEW n \in Nat, NEW A, NEW base \in A, NEW next, NEW h,
           FoldsAs(h, base, next, n, A)
    PROVE  Run([k \in 0..n |-> h[1..k]], base, next, n, A)
<1> DEFINE r == [k \in 0..n |-> h[1..k]]
<1>0. /\ h \in [SUBSET (1..n) -> A]
      /\ \A x \in SUBSET (1..n) : h[x] = FoldTurn(base, next, h, x)
    BY DEF FoldsAs
<1>1. \A k \in 0..n : 1..k \in SUBSET (1..n)
    OBVIOUS
<1>2. r \in [0..n -> A]
    BY <1>0, <1>1
<1>3. 1..0 = {} /\ {} \in SUBSET (1..n) /\ 0 \in 0..n
    OBVIOUS
<1>4. r[0] = base
    BY <1>0, <1>3 DEF FoldTurn
<1>5. ASSUME NEW k \in 0..(n - 1) PROVE r[k + 1] = next[<<r[k], k + 1>>]
    <2>1. k \in 0..n /\ k + 1 \in 0..n
        OBVIOUS
    <2>2. r[k + 1] = h[1..(k + 1)] /\ r[k] = h[1..k]
        BY <2>1
    <2>3. h[1..(k + 1)] = FoldTurn(base, next, h, 1..(k + 1))
        BY <1>0, PrefixFacts
    <2> QED
        BY <2>2, <2>3, PrefixFacts DEF FoldTurn
<1> QED
    BY <1>2, <1>4, <1>5 DEF Run

LEMMA LastOfSet ==
    ASSUME NEW n \in Nat, NEW x \in SUBSET (1..n), x # {}
    PROVE  Max(x) \in x /\ Max(x) \in 1..n /\ x \ {Max(x)} \in SUBSET (1..n)
<1>1. x \in SUBSET (0..n)
    OBVIOUS
<1>2. Max(x) \in x
    BY <1>1, MaxIs
<1> QED
    BY <1>2

\* A function that goes through the sequence as a loop does has a run of it.
Loops(turn, base, next, n, A) ==
    /\ turn[{}] = base
    /\ \A x \in SUBSET (1..n) :
        x # {} /\ turn[x \ {Max(x)}] \in A => turn[x] = next[<<turn[x \ {Max(x)}], Max(x)>>]

LEMMA LoopIsRun ==
    ASSUME NEW n \in Nat, NEW A, NEW base \in A, NEW next, IsTurn(next, n, A),
           NEW turn, Loops(turn, base, next, n, A)
    PROVE  \E r : Run(r, base, next, n, A) /\ turn[1..n] = r[n]
<1>1. PICK h : FoldsAs(h, base, next, n, A)
    BY FoldRuns
<1> DEFINE r == [k \in 0..n |-> h[1..k]]
<1>2. Run(r, base, next, n, A)
    BY <1>1, RunOf
<1>3. \A x \in SUBSET (1..n) : (\A t \in x : turn[x \ {t}] = h[x \ {t}]) => turn[x] = h[x]
    <2> SUFFICES ASSUME NEW x \in SUBSET (1..n), \A t \in x : turn[x \ {t}] = h[x \ {t}]
                 PROVE  turn[x] = h[x]
        OBVIOUS
    <2>1. h[x] = FoldTurn(base, next, h, x)
        BY <1>1 DEF FoldsAs
    <2>2. CASE x = {}
        BY <2>1, <2>2 DEF FoldTurn, Loops
    <2>3. CASE x # {}
        <3>1. Max(x) \in x /\ x \ {Max(x)} \in SUBSET (1..n)
            BY <2>3, LastOfSet
        <3>2. turn[x \ {Max(x)}] = h[x \ {Max(x)}] /\ h[x \ {Max(x)}] \in A
            BY <1>1, <3>1 DEF FoldsAs
        <3>3. turn[x] = next[<<h[x \ {Max(x)}], Max(x)>>]
            BY <2>3, <3>2 DEF Loops
        <3> QED
            BY <2>1, <2>3, <3>3 DEF FoldTurn
    <2> QED
        BY <2>2, <2>3
<1>4. IsFiniteSet(1..n)
    BY FS_Interval
<1>5. turn[1..n] = h[1..n]
    BY <1>3, <1>4, SameLoop
<1>6. r[n] = h[1..n]
    OBVIOUS
<1> QED
    BY <1>2, <1>5, <1>6

\* What holds before the first turn and is kept by every turn holds after each.
KeptBy(Good, base, next, n, A) ==
    /\ <<0, base>> \in Good
    /\ \A k \in 0..(n - 1), a \in A : <<k, a>> \in Good => <<k + 1, next[<<a, k + 1>>]>> \in Good

LEMMA RunKeeps ==
    ASSUME NEW n \in Nat, NEW A, NEW base, NEW next, NEW r, Run(r, base, next, n, A),
           NEW Good, KeptBy(Good, base, next, n, A)
    PROVE  \A k \in 0..n : r[k] \in A /\ <<k, r[k]>> \in Good
<1> DEFINE S == {k \in 0..n : r[k] \in A /\ <<k, r[k]>> \in Good}
<1>1. 0 \in S
    BY DEF Run, KeptBy
<1>2. ASSUME NEW k \in 0..(n - 1), k \in S PROVE k + 1 \in S
    <2>1. k + 1 \in 0..n
        OBVIOUS
    <2> QED
        BY <1>2, <2>1 DEF Run, KeptBy
<1>3. S \in SUBSET Nat
    OBVIOUS
<1> HIDE DEF S
<1>4. 0..n \subseteq S
    BY <1>1, <1>2, <1>3, InductionTo
<1> QED
    BY <1>4 DEF S

-----------------------------------------------------------------------------
(***************************************************************************)
(* The numbering of a digraph, for any list of edges.                      *)
(***************************************************************************)
LEMMA AppendFacts ==
    ASSUME NEW X, NEW s \in Seq(X), NEW e \in X
    PROVE  /\ Append(s, e) \in Seq(X) /\ Len(Append(s, e)) = Len(s) + 1 /\ Append(s, e) # <<>>
           /\ Append(s, e)[Len(s) + 1] = e
           /\ \A i \in 1..Len(s) : Append(s, e)[i] = s[i]
<1>1. Append(s, e) \in Seq(X) /\ Len(Append(s, e)) = Len(s) + 1 /\ Len(s) \in Nat
    OBVIOUS
<1>2. Append(s, e) # <<>>
    BY <1>1
<1> QED
    BY <1>1, <1>2

\* The list of edges as it is collected.
UniqueTurn(names, X) ==
    [p \in Seq(X) \X (1..Len(names)) |->
        IF Contains(p[1], names[p[2]]) THEN p[1] ELSE Append(p[1], names[p[2]])]
LEMMA UniqueRun ==
    ASSUME NEW X, NEW names \in Seq(X)
    PROVE  /\ IsTurn(UniqueTurn(names, X), Len(names), Seq(X))
           /\ \E r : /\ Run(r, <<>>, UniqueTurn(names, X), Len(names), Seq(X))
                     /\ UniqueEdges(names) = r[Len(names)]
<1> DEFINE n == Len(names)
           A == Seq(X)
           next == UniqueTurn(names, X)
           put(kept, e) == IF Contains(kept, e) THEN kept ELSE Append(kept, e)
           turn == CHOOSE h : h = [x \in SUBSET DOMAIN names |->
                        IF x = {} THEN <<>> ELSE put(h[x \ {Max(x)}], names[Max(x)])]
<1>1. n \in Nat /\ DOMAIN names = 1..n /\ <<>> \in A
    OBVIOUS
<1>2. IsTurn(next, n, A)
    BY DEF UniqueTurn, IsTurn
<1>3. \A a \in A, i \in 1..n : next[<<a, i>>] = put(a, names[i])
    BY DEF UniqueTurn
<1>4. UniqueEdges(names) = turn[DOMAIN names]
    BY DEF UniqueEdges, FoldLeft, MapThenFoldSet
<1> HIDE DEF n, A, next, put, turn
<1>5. PICK h : FoldsAs(h, <<>>, next, n, A)
    BY <1>1, <1>2, FoldRuns
<1>6. \A x \in SUBSET (1..n) : x # {} => Max(x) \in 1..n /\ x \ {Max(x)} \in SUBSET (1..n)
    BY <1>1, LastOfSet
<1>7. h = [x \in SUBSET DOMAIN names |->
            IF x = {} THEN <<>> ELSE put(h[x \ {Max(x)}], names[Max(x)])]
    <2>1. /\ h \in [SUBSET (1..n) -> A]
          /\ \A x \in SUBSET (1..n) : h[x] = FoldTurn(<<>>, next, h, x)
        BY <1>5 DEF FoldsAs
    <2> QED
        BY <1>1, <1>3, <1>6, <2>1 DEF FoldTurn
<1>8. turn = [x \in SUBSET DOMAIN names |->
                IF x = {} THEN <<>> ELSE put(turn[x \ {Max(x)}], names[Max(x)])]
    BY <1>7, Zenon DEF turn
<1>9. Loops(turn, <<>>, next, n, A)
    BY <1>1, <1>3, <1>6, <1>8 DEF Loops
<1>10. \E r : Run(r, <<>>, next, n, A) /\ turn[1..n] = r[n]
    BY <1>1, <1>2, <1>9, LoopIsRun
<1> QED
    BY <1>1, <1>2, <1>4, <1>10 DEF n, next, A

\* Repetitions are dropped and nothing else.
LEMMA UniqueEdgesIs ==
    ASSUME NEW X, NEW names \in Seq(X)
    PROVE  /\ UniqueEdges(names) \in Seq(X)
           /\ names # <<>> => UniqueEdges(names) # <<>>
<1> DEFINE n == Len(names)
           A == Seq(X)
           next == UniqueTurn(names, X)
<1>1. PICK r : Run(r, <<>>, next, n, A) /\ UniqueEdges(names) = r[n]
    BY UniqueRun
<1>2. n \in Nat /\ r \in [0..n -> A]
    BY <1>1 DEF Run
<1>3. r[n] \in A
    BY <1>2
<1>4. ASSUME names # <<>> PROVE r[n] # <<>>
    <2>1. n > 0 /\ n - 1 \in 0..(n - 1) /\ (n - 1) + 1 = n /\ n \in 1..n /\ n - 1 \in 0..n
        BY <1>2, <1>4
    <2>2. r[n] = next[<<r[n - 1], n>>] /\ r[n - 1] \in A /\ names[n] \in X
        BY <1>1, <1>2, <2>1 DEF Run
    <2>3. r[n] = IF Contains(r[n - 1], names[n]) THEN r[n - 1] ELSE Append(r[n - 1], names[n])
        BY <2>1, <2>2 DEF UniqueTurn
    <2> DEFINE s == r[n - 1]
               e == names[n]
    <2>4. Contains(s, e) => s # <<>>
        BY DEF Contains
    <2>5. Append(s, e) # <<>>
        <3>1. s \in Seq(X) /\ e \in X
            BY <2>2
        <3> QED
            BY <3>1, AppendFacts
    <2> QED
        BY <2>3, <2>4, <2>5
<1> QED
    BY <1>1, <1>3, <1>4

\* What it is to push an item unless it is there.
Pushes(stack, v, pushed, V) ==
    /\ pushed \in Seq(V) /\ IsInjective(pushed)
    /\ ToSet(pushed) = ToSet(stack) \cup {v}
    /\ Len(stack) <= Len(pushed) /\ \A i \in 1..Len(stack) : pushed[i] = stack[i]
    /\ pushed # <<>> /\ (stack = <<>> => pushed[1] = v)

LEMMA ContainsIs ==
    ASSUME NEW V, NEW s \in Seq(V), NEW v
    PROVE  Contains(s, v) <=> v \in ToSet(s)
    BY DEF Contains, ToSet

LEMMA AppendNew ==
    ASSUME NEW V, NEW s \in Seq(V), IsInjective(s), NEW v \in V, v \notin ToSet(s)
    PROVE  IsInjective(Append(s, v)) /\ ToSet(Append(s, v)) = ToSet(s) \cup {v}
<1> DEFINE p == Append(s, v)
<1>1. /\ p \in Seq(V) /\ Len(p) = Len(s) + 1 /\ p[Len(s) + 1] = v
      /\ \A i \in 1..Len(s) : p[i] = s[i]
    BY AppendFacts
<1>2. /\ DOMAIN s = 1..Len(s) /\ DOMAIN p = 1..Len(p) /\ Len(s) \in Nat
    BY <1>1
<1> HIDE DEF p
<1>3. \A i \in 1..Len(s) : s[i] # v
    BY <1>2 DEF ToSet
<1>4. \A i \in DOMAIN p : i = Len(s) + 1 \/ i \in 1..Len(s)
    BY <1>1, <1>2
<1>5. IsInjective(p)
    BY <1>1, <1>2, <1>3, <1>4 DEF IsInjective
<1>6. \A x : x \in ToSet(p) <=> x \in ToSet(s) \cup {v}
    <2> TAKE x
    <2>1. ASSUME x \in ToSet(p) PROVE x \in ToSet(s) \cup {v}
        BY <1>1, <1>2, <1>4, <2>1 DEF ToSet
    <2>2. ASSUME x \in ToSet(s) PROVE x \in ToSet(p)
        <3>1. PICK i \in 1..Len(s) : x = s[i]
            BY <1>2, <2>2 DEF ToSet
        <3>2. i \in DOMAIN p /\ p[i] = x
            BY <1>1, <1>2, <3>1
        <3> QED
            BY <3>2 DEF ToSet
    <2>3. v \in ToSet(p)
        <3>1. Len(s) + 1 \in DOMAIN p
            BY <1>1, <1>2
        <3> QED
            BY <1>1, <3>1 DEF ToSet
    <2> QED
        BY <2>1, <2>2, <2>3
<1> QED
    BY <1>5, <1>6 DEF p

LEMMA PushNewIs ==
    ASSUME NEW V, NEW stack \in Seq(V), IsInjective(stack), NEW v \in V
    PROVE  Pushes(stack, v, PushNew(stack, v), V)
<1>1. CASE v \in ToSet(stack)
    <2>1. PushNew(stack, v) = stack
        BY <1>1, ContainsIs DEF PushNew
    <2>2. stack # <<>>
        BY <1>1 DEF ToSet
    <2> QED
        BY <1>1, <2>1, <2>2 DEF Pushes
<1>2. CASE v \notin ToSet(stack)
    <2>1. PushNew(stack, v) = Append(stack, v)
        BY <1>2, ContainsIs DEF PushNew
    <2>2. IsInjective(Append(stack, v)) /\ ToSet(Append(stack, v)) = ToSet(stack) \cup {v}
        BY <1>2, AppendNew
    <2>3. Len(stack) \in Nat /\ (stack = <<>> => Len(stack) + 1 = 1)
        OBVIOUS
    <2> QED
        BY <2>1, <2>2, <2>3, AppendFacts DEF Pushes
<1> QED
    BY <1>1, <1>2

\* The stack after k edges are scanned, of which R is the sequence.
BothEnds(e) == {e[1], e[2]}
MetBy(R, k, v) == \E j \in 1..k : v \in BothEnds(R[j])
Scanned(R, k, stack, V) ==
    /\ stack \in Seq(V) /\ IsInjective(stack)
    /\ \A v : v \in ToSet(stack) <=> MetBy(R, k, v)
    /\ \A b \in 1..Len(stack) : \A a \in 1..b : \A j \in 1..k :
        stack[b] \in BothEnds(R[j]) => MetBy(R, j, stack[a])
    /\ k > 0 => stack # <<>> /\ stack[1] = R[1][2]

LEMMA ScanStep ==
    ASSUME NEW V, NEW R, NEW n \in Nat, NEW k \in 0..(n - 1), NEW stack,
           R[k + 1][1] \in V, R[k + 1][2] \in V, Scanned(R, k, stack, V)
    PROVE  Scanned(R, k + 1, PushEnds(stack, R[k + 1]), V)
<1> DEFINE e == R[k + 1]
           mid == PushNew(stack, e[2])
           all == PushNew(mid, e[1])
<1>1. stack \in Seq(V) /\ IsInjective(stack)
    BY DEF Scanned
<1>2. Pushes(stack, e[2], mid, V)
    BY <1>1, PushNewIs
<1>3. mid \in Seq(V) /\ IsInjective(mid)
    BY <1>2 DEF Pushes
<1>4. Pushes(mid, e[1], all, V)
    BY <1>3, PushNewIs
<1>5. PushEnds(stack, e) = all
    BY DEF PushEnds
<1> HIDE DEF mid, all
<1>6. all \in Seq(V) /\ IsInjective(all) /\ all # <<>>
    BY <1>4 DEF Pushes
<1>7. ToSet(all) = ToSet(stack) \cup BothEnds(e)
    BY <1>2, <1>4 DEF Pushes, BothEnds
<1>8. Len(stack) <= Len(all) /\ Len(stack) \in Nat /\ Len(mid) \in Nat /\ Len(all) \in Nat
    BY <1>1, <1>2, <1>3, <1>4 DEF Pushes
<1>9. \A i \in 1..Len(stack) : all[i] = stack[i]
    <2> TAKE i \in 1..Len(stack)
    <2>1. i \in 1..Len(mid) /\ mid[i] = stack[i]
        BY <1>2, <1>8 DEF Pushes
    <2> QED
        BY <1>4, <2>1 DEF Pushes
<1>10. k \in Nat /\ k + 1 \in 1..(k + 1) /\ \A j \in 1..(k + 1) : j = k + 1 \/ j \in 1..k
    OBVIOUS
<1>11. \A v : MetBy(R, k + 1, v) <=> MetBy(R, k, v) \/ v \in BothEnds(e)
    <2>1. \A j \in 1..k : j \in 1..(k + 1)
        OBVIOUS
    <2> QED
        BY <1>10, <2>1 DEF MetBy
<1>12. \A v : v \in ToSet(all) <=> MetBy(R, k + 1, v)
    BY <1>7, <1>11 DEF Scanned
<1>13. ASSUME NEW b \in 1..Len(all), NEW a \in 1..b, NEW j \in 1..(k + 1),
              all[b] \in BothEnds(R[j])
       PROVE  MetBy(R, j, all[a])
    <2>1. a \in 1..Len(all) /\ DOMAIN all = 1..Len(all)
        BY <1>6, <1>8
    <2>2. CASE j = k + 1
        <3>1. all[a] \in ToSet(all)
            BY <2>1 DEF ToSet
        <3> QED
            BY <1>12, <2>2, <3>1
    <2>3. CASE j \in 1..k /\ b \in 1..Len(stack)
        <3>1. a \in 1..Len(stack)
            BY <1>8, <2>3
        <3>2. all[a] = stack[a] /\ all[b] = stack[b]
            BY <1>9, <2>3, <3>1
        <3> QED
            BY <1>13, <2>3, <3>2 DEF Scanned
    <2>4. CASE j \in 1..k /\ b \notin 1..Len(stack)
        <3>1. MetBy(R, k, all[b])
            BY <1>13, <2>4 DEF MetBy
        <3>2. all[b] \in ToSet(stack)
            BY <3>1 DEF Scanned
        <3>3. PICK i \in 1..Len(stack) : stack[i] = all[b]
            BY <1>1, <3>2 DEF ToSet
        <3>4. i \in DOMAIN all /\ b \in DOMAIN all /\ all[i] = all[b]
            BY <1>8, <1>9, <2>1, <3>3
        <3>5. i = b
            BY <1>6, <3>4 DEF IsInjective
        <3> QED
            BY <2>4, <3>3, <3>5
    <2> QED
        BY <1>10, <2>2, <2>3, <2>4
<1>14. all[1] = R[1][2]
    <2>1. CASE k = 0
        <3>1. \A v : ~MetBy(R, 0, v)
            BY DEF MetBy
        <3>2. stack = <<>>
            <4>1. ToSet(stack) = {}
                BY <2>1, <3>1 DEF Scanned
            <4>2. DOMAIN stack = 1..Len(stack)
                BY <1>1
            <4>3. Len(stack) = 0
                <5> SUFFICES ASSUME Len(stack) # 0 PROVE FALSE
                    OBVIOUS
                <5>1. 1 \in DOMAIN stack
                    BY <1>8, <4>2
                <5> QED
                    BY <4>1, <5>1 DEF ToSet
            <4> QED
                BY <1>1, <4>3
        <3>3. mid # <<>> /\ mid[1] = e[2]
            BY <1>2, <3>2 DEF Pushes
        <3>4. 1 \in 1..Len(mid)
            BY <1>3, <3>3
        <3> QED
            BY <1>4, <2>1, <3>3, <3>4 DEF Pushes
    <2>2. CASE k > 0
        <3>1. stack # <<>> /\ stack[1] = R[1][2]
            BY <2>2 DEF Scanned
        <3>2. 1 \in 1..Len(stack)
            BY <1>1, <3>1
        <3> QED
            BY <1>9, <3>1, <3>2
    <2> QED
        BY <1>10, <2>1, <2>2
<1> QED
    BY <1>5, <1>6, <1>12, <1>13, <1>14 DEF Scanned

\* The stack of all vertices.
PushTurn(R, V) ==
    [p \in Seq(V) \X (1..Len(R)) |-> PushEnds(p[1], R[p[2]])]

AreEdges(R, V) == \A i \in DOMAIN R : R[i][1] \in V /\ R[i][2] \in V

LEMMA PushEndsType ==
    ASSUME NEW V, NEW s \in Seq(V), NEW e, e[1] \in V, e[2] \in V
    PROVE  PushEnds(s, e) \in Seq(V)
<1>1. \A t \in Seq(V), v \in V : PushNew(t, v) \in Seq(V)
    BY AppendFacts DEF PushNew
<1> QED
    BY <1>1 DEF PushEnds

LEMMA PushRun ==
    ASSUME NEW X, NEW V, NEW R \in Seq(X), AreEdges(R, V)
    PROVE  \E r : /\ Run(r, <<>>, PushTurn(R, V), Len(R), Seq(V))
                  /\ FoldLeft(PushEnds, <<>>, R) = r[Len(R)]
<1> DEFINE n == Len(R)
           A == Seq(V)
           next == PushTurn(R, V)
           turn == CHOOSE h : h = [x \in SUBSET DOMAIN R |->
                        IF x = {} THEN <<>> ELSE PushEnds(h[x \ {Max(x)}], R[Max(x)])]
<1>1. n \in Nat /\ DOMAIN R = 1..n /\ <<>> \in A
    OBVIOUS
<1>2. \A a \in A, i \in 1..n : PushEnds(a, R[i]) \in A
    BY <1>1, PushEndsType DEF AreEdges
<1>3. \A a \in A, i \in 1..n : next[<<a, i>>] = PushEnds(a, R[i])
    BY DEF PushTurn
<1>4. IsTurn(next, n, A)
    BY <1>2 DEF IsTurn, PushTurn
<1>5. FoldLeft(PushEnds, <<>>, R) = turn[DOMAIN R]
    BY DEF FoldLeft, MapThenFoldSet
<1> HIDE DEF n, A, next, turn
<1>6. PICK h : FoldsAs(h, <<>>, next, n, A)
    BY <1>1, <1>4, FoldRuns
<1>7. \A x \in SUBSET (1..n) : x # {} => Max(x) \in 1..n /\ x \ {Max(x)} \in SUBSET (1..n)
    BY <1>1, LastOfSet
<1>8. h = [x \in SUBSET DOMAIN R |->
            IF x = {} THEN <<>> ELSE PushEnds(h[x \ {Max(x)}], R[Max(x)])]
    <2>1. /\ h \in [SUBSET (1..n) -> A]
          /\ \A x \in SUBSET (1..n) : h[x] = FoldTurn(<<>>, next, h, x)
        BY <1>6 DEF FoldsAs
    <2> QED
        BY <1>1, <1>3, <1>7, <2>1 DEF FoldTurn
<1>9. turn = [x \in SUBSET DOMAIN R |->
                IF x = {} THEN <<>> ELSE PushEnds(turn[x \ {Max(x)}], R[Max(x)])]
    BY <1>8, Zenon DEF turn
<1>10. Loops(turn, <<>>, next, n, A)
    BY <1>1, <1>3, <1>7, <1>9 DEF Loops
<1>11. \E r : Run(r, <<>>, next, n, A) /\ turn[1..n] = r[n]
    BY <1>1, <1>4, <1>10, LoopIsRun
<1> QED
    BY <1>1, <1>5, <1>11 DEF n, A, next

LEMMA StackIs ==
    ASSUME NEW X, NEW V, NEW R \in Seq(X), AreEdges(R, V)
    PROVE  Scanned(R, Len(R), FoldLeft(PushEnds, <<>>, R), V)
<1> DEFINE n == Len(R)
           A == Seq(V)
           next == PushTurn(R, V)
           Good == {p \in (0..n) \X A : Scanned(R, p[1], p[2], V)}
<1>1. PICK r : Run(r, <<>>, next, n, A) /\ FoldLeft(PushEnds, <<>>, R) = r[n]
    BY PushRun
<1>2. n \in Nat /\ DOMAIN R = 1..n
    OBVIOUS
<1>3. KeptBy(Good, <<>>, next, n, A)
    <2>1. Scanned(R, 0, <<>>, V)
        <3>1. <<>> \in Seq(V) /\ DOMAIN <<>> = {} /\ Len(<<>>) = 0 /\ 1..0 = {}
            OBVIOUS
        <3> QED
            BY <3>1 DEF Scanned, IsInjective, ToSet, MetBy
    <2>2. <<0, <<>>>> \in Good
        <3>1. 0 \in 0..n /\ <<>> \in A
            BY <1>2
        <3> QED
            BY <2>1, <3>1
    <2>3. ASSUME NEW k \in 0..(n - 1), NEW a \in A, <<k, a>> \in Good
          PROVE  <<k + 1, next[<<a, k + 1>>]>> \in Good
        <3>1. k + 1 \in 1..n /\ k + 1 \in 0..n
            BY <1>2
        <3>2. R[k + 1][1] \in V /\ R[k + 1][2] \in V
            BY <1>2, <3>1 DEF AreEdges
        <3>3. next[<<a, k + 1>>] = PushEnds(a, R[k + 1])
            BY <3>1 DEF PushTurn
        <3>4. Scanned(R, k, a, V)
            BY <2>3
        <3>5. Scanned(R, k + 1, PushEnds(a, R[k + 1]), V)
            BY <1>2, <3>2, <3>4, ScanStep
        <3>6. PushEnds(a, R[k + 1]) \in A
            BY <3>2, PushEndsType
        <3> QED
            BY <3>1, <3>3, <3>5, <3>6
    <2> HIDE DEF Good, next, A
    <2> QED
        BY <2>2, <2>3 DEF KeptBy
<1>4. n \in 0..n
    BY <1>2
<1> HIDE DEF Good, next, A, n
<1>5. <<n, r[n]>> \in Good
    BY <1>1, <1>2, <1>3, <1>4, RunKeeps
<1> QED
    BY <1>1, <1>5 DEF Good, n

\* Vertices lie on the stack in the order in which they leave, the last one at
\* the bottom.
Leaving(E, stack, V) ==
    /\ stack \in Seq(V) /\ IsInjective(stack)
    /\ \A v : v \in ToSet(stack) <=> \E x \in 1..Len(E) : v \in BothEnds(E[x])
    /\ \A b \in 1..Len(stack) : \A a \in 1..b : \A x \in 1..Len(E) :
        stack[b] \in BothEnds(E[x]) => \E y \in x..Len(E) : stack[a] \in BothEnds(E[y])
    /\ E # <<>> => stack # <<>> /\ stack[1] = E[Len(E)][2]

LEMMA ReverseIs ==
    ASSUME NEW X, NEW E \in Seq(X)
    PROVE  /\ Reverse(E) \in Seq(X) /\ Len(Reverse(E)) = Len(E)
           /\ \A j \in 1..Len(E) : /\ Reverse(E)[j] = E[(Len(E) - j) + 1]
                                   /\ (Len(E) - j) + 1 \in 1..Len(E)
<1>1. \A j \in 1..Len(E) : (Len(E) - j) + 1 \in 1..Len(E)
    OBVIOUS
<1>2. \A j \in 1..Len(E) : E[(Len(E) - j) + 1] \in X
    BY <1>1
<1> QED
    BY <1>1, <1>2 DEF Reverse

LEMMA LeavingStackIs ==
    ASSUME NEW X, NEW V, NEW E \in Seq(X), AreEdges(E, V)
    PROVE  Leaving(E, LeavingStack(E), V)
<1> DEFINE R == Reverse(E)
           n == Len(E)
           stack == LeavingStack(E)
<1>1. /\ R \in Seq(X) /\ Len(R) = n /\ n \in Nat /\ DOMAIN E = 1..n
      /\ \A j \in 1..n : R[j] = E[(n - j) + 1] /\ (n - j) + 1 \in 1..n
    BY ReverseIs
<1> HIDE DEF R, n
<1>2. \A x \in 1..n : (n - x) + 1 \in 1..n /\ R[(n - x) + 1] = E[x]
    <2> TAKE x \in 1..n
    <2>1. (n - x) + 1 \in 1..n /\ (n - ((n - x) + 1)) + 1 = x
        BY <1>1
    <2>2. R[(n - x) + 1] = E[(n - ((n - x) + 1)) + 1]
        BY <1>1, <2>1
    <2> QED
        BY <2>1, <2>2
<1>3. AreEdges(R, V)
    <2>1. DOMAIN R = 1..n
        BY <1>1
    <2> QED
        BY <1>1, <2>1 DEF AreEdges
<1>4. Scanned(R, n, stack, V)
    <2>1. stack = FoldLeft(PushEnds, <<>>, R)
        BY DEF LeavingStack, R
    <2> QED
        BY <1>1, <1>3, <2>1, StackIs
<1> HIDE DEF stack
<1>5. \A v : MetBy(R, n, v) <=> \E x \in 1..n : v \in BothEnds(E[x])
    <2> TAKE v
    <2>1. ASSUME MetBy(R, n, v) PROVE \E x \in 1..n : v \in BothEnds(E[x])
        BY <1>1, <2>1 DEF MetBy
    <2>2. ASSUME NEW x \in 1..n, v \in BothEnds(E[x]) PROVE MetBy(R, n, v)
        BY <1>2, <2>2 DEF MetBy
    <2> QED
        BY <2>1, <2>2
<1>6. ASSUME NEW b \in 1..Len(stack), NEW a \in 1..b, NEW x \in 1..n,
             stack[b] \in BothEnds(E[x])
      PROVE  \E y \in x..n : stack[a] \in BothEnds(E[y])
    <2>1. (n - x) + 1 \in 1..n /\ stack[b] \in BothEnds(R[(n - x) + 1])
        BY <1>2, <1>6
    <2>2. MetBy(R, (n - x) + 1, stack[a])
        BY <1>4, <2>1 DEF Scanned
    <2>3. PICK j \in 1..((n - x) + 1) : stack[a] \in BothEnds(R[j])
        BY <2>2 DEF MetBy
    <2>4. j \in 1..n /\ (n - j) + 1 \in x..n
        BY <1>1, <2>1
    <2> QED
        BY <1>1, <2>3, <2>4
<1>7. E # <<>> => stack # <<>> /\ stack[1] = E[n][2]
    <2> HAVE E # <<>>
    <2>1. n > 0 /\ 1 \in 1..n /\ (n - 1) + 1 = n
        BY <1>1 DEF n
    <2> QED
        BY <1>1, <1>4, <2>1 DEF Scanned
<1> QED
    BY <1>4, <1>5, <1>6, <1>7 DEF Leaving, Scanned, stack, n

\* The numbers count the places from the top.
LEMMA NumbersAre ==
    ASSUME NEW V, NEW stack \in Seq(V), IsInjective(stack)
    PROVE  /\ DOMAIN Name2Vertex(stack) = ToSet(stack)
           /\ \A k \in 1..Len(stack) : /\ stack[k] \in ToSet(stack)
                                       /\ Name2Vertex(stack)[stack[k]] = Len(stack) + 1 - k
<1>1. DOMAIN stack = 1..Len(stack) /\ Len(stack) \in Nat
    OBVIOUS
<1>2. ASSUME NEW k \in 1..Len(stack)
      PROVE  stack[k] \in ToSet(stack) /\ Name2Vertex(stack)[stack[k]] = Len(stack) + 1 - k
    <2>1. stack[k] \in ToSet(stack)
        BY <1>1 DEF ToSet
    <2>2. \A i \in DOMAIN stack : stack[i] = stack[k] <=> i = k
        BY <1>1 DEF IsInjective
    <2>3. (CHOOSE i \in DOMAIN stack : stack[i] = stack[k]) = k
        BY <1>1, <2>2
    <2> QED
        BY <2>1, <2>3 DEF Name2Vertex
<1> QED
    BY <1>2 DEF Name2Vertex

\* vMax, for heads up to N.
HeadTurn(edges, N) ==
    [p \in (0..N) \X (1..Len(edges)) |->
        IF p[1] < edges[p[2]][2] THEN edges[p[2]][2] ELSE p[1]]

LEMMA HeadRun ==
    ASSUME NEW X, NEW edges \in Seq(X), NEW N \in Nat, \A i \in DOMAIN edges : edges[i][2] \in 0..N
    PROVE  \E r : /\ Run(r, 0, HeadTurn(edges, N), Len(edges), 0..N)
                  /\ MaxHead(edges) = r[Len(edges)]
<1> DEFINE n == Len(edges)
           A == 0..N
           next == HeadTurn(edges, N)
           more(m, e) == IF m < e[2] THEN e[2] ELSE m
           turn == CHOOSE h : h = [x \in SUBSET DOMAIN edges |->
                        IF x = {} THEN 0 ELSE more(h[x \ {Max(x)}], edges[Max(x)])]
<1>1. n \in Nat /\ DOMAIN edges = 1..n /\ 0 \in A
    OBVIOUS
<1>2. \A a \in A, i \in 1..n : next[<<a, i>>] = more(a, edges[i])
    BY DEF HeadTurn
<1>3. IsTurn(next, n, A)
    BY <1>1 DEF IsTurn, HeadTurn
<1>4. MaxHead(edges) = turn[DOMAIN edges]
    BY DEF MaxHead, FoldLeft, MapThenFoldSet
<1> HIDE DEF n, A, next, turn, more
<1>5. PICK h : FoldsAs(h, 0, next, n, A)
    BY <1>1, <1>3, FoldRuns
<1>6. \A x \in SUBSET (1..n) : x # {} => Max(x) \in 1..n /\ x \ {Max(x)} \in SUBSET (1..n)
    BY <1>1, LastOfSet
<1>7. h = [x \in SUBSET DOMAIN edges |->
            IF x = {} THEN 0 ELSE more(h[x \ {Max(x)}], edges[Max(x)])]
    <2>1. /\ h \in [SUBSET (1..n) -> A]
          /\ \A x \in SUBSET (1..n) : h[x] = FoldTurn(0, next, h, x)
        BY <1>5 DEF FoldsAs
    <2> QED
        BY <1>1, <1>2, <1>6, <2>1 DEF FoldTurn
<1>8. turn = [x \in SUBSET DOMAIN edges |->
                IF x = {} THEN 0 ELSE more(turn[x \ {Max(x)}], edges[Max(x)])]
    BY <1>7, Zenon DEF turn
<1>9. Loops(turn, 0, next, n, A)
    BY <1>1, <1>2, <1>6, <1>8 DEF Loops
<1>10. \E r : Run(r, 0, next, n, A) /\ turn[1..n] = r[n]
    BY <1>1, <1>3, <1>9, LoopIsRun
<1> QED
    BY <1>1, <1>4, <1>10 DEF n, A, next

\* A bound that the last head reaches is the greatest head.
LEMMA MaxHeadIs ==
    ASSUME NEW X, NEW edges \in Seq(X), NEW N \in Nat, edges # <<>>,
           \A i \in DOMAIN edges : edges[i][2] \in 1..N, edges[Len(edges)][2] = N
    PROVE  MaxHead(edges) = N
<1> DEFINE n == Len(edges)
           next == HeadTurn(edges, N)
<1>1. \A i \in DOMAIN edges : edges[i][2] \in 0..N
    OBVIOUS
<1>2. PICK r : Run(r, 0, next, n, 0..N) /\ MaxHead(edges) = r[n]
    BY <1>1, HeadRun
<1>3. n \in Nat /\ n > 0 /\ n - 1 \in 0..(n - 1) /\ (n - 1) + 1 = n /\ n \in 1..n
    OBVIOUS
<1> HIDE DEF n
<1>4. r[n - 1] \in 0..N /\ r[n] \in 0..N
    BY <1>2, <1>3 DEF Run
<1>5. r[(n - 1) + 1] = next[<<r[n - 1], (n - 1) + 1>>]
    BY <1>2, <1>3 DEF Run
<1>6. next[<<r[n - 1], n>>] = IF r[n - 1] < edges[n][2] THEN edges[n][2] ELSE r[n - 1]
    BY <1>3, <1>4 DEF HeadTurn, n
<1>7. edges[n][2] = N
    BY DEF n
<1> DEFINE a == r[n - 1]
           b == r[n]
<1>8. a \in 0..N /\ b \in 0..N /\ (b = IF a < N THEN N ELSE a)
    BY <1>3, <1>4, <1>5, <1>6, <1>7
<1> HIDE DEF a, b
<1>9. b = N
    BY <1>8
<1> QED
    BY <1>2, <1>9 DEF b

\* What update() makes of the names of edges, repetitions dropped.
Numbered(E, g) ==
    /\ g.n \in Nat
    /\ g.edges \in Seq((1..g.n) \X (1..g.n)) /\ Len(g.edges) = Len(E)
    /\ \A v \in 1..g.n : \E x \in 1..Len(E) : v \in BothEnds(g.edges[x])
    /\ \A v \in 1..g.n : \A w \in v..g.n : \A x \in 1..Len(E) :
        v \in BothEnds(g.edges[x]) => \E y \in x..Len(E) : w \in BothEnds(g.edges[y])

LEMMA NumberedIs ==
    ASSUME NEW X, NEW E \in Seq(X)
    PROVE  LET number == Name2Vertex(LeavingStack(E))
               edges == [a \in DOMAIN E |-> <<number[E[a][1]], number[E[a][2]]>>]
           IN  Numbered(E, [n |-> MaxHead(edges), edges |-> edges])
<1> DEFINE V == UNION {BothEnds(e) : e \in X}
           stack == LeavingStack(E)
           number == Name2Vertex(stack)
           edges == [a \in DOMAIN E |-> <<number[E[a][1]], number[E[a][2]]>>]
           N == Len(stack)
<1>1. DOMAIN E = 1..Len(E) /\ Len(E) \in Nat
    OBVIOUS
<1>2. AreEdges(E, V)
    <2>1. ASSUME NEW i \in DOMAIN E PROVE E[i][1] \in V /\ E[i][2] \in V
        <3>1. E[i] \in X
            OBVIOUS
        <3> QED
            BY <3>1 DEF BothEnds
    <2> QED
        BY <2>1 DEF AreEdges
<1> HIDE DEF V
<1>3. Leaving(E, stack, V)
    BY <1>2, LeavingStackIs
<1> HIDE DEF stack
<1>4. stack \in Seq(V) /\ IsInjective(stack) /\ N \in Nat /\ DOMAIN stack = 1..N
    BY <1>3 DEF Leaving
<1>5. \A k \in 1..N : stack[k] \in ToSet(stack) /\ number[stack[k]] = N + 1 - k
    BY <1>4, NumbersAre
<1> HIDE DEF number
<1>6. ASSUME NEW s \in ToSet(stack)
      PROVE  \E k \in 1..N : s = stack[k] /\ number[s] = N + 1 - k /\ number[s] \in 1..N
    <2>1. PICK k \in 1..N : s = stack[k]
        BY <1>4 DEF ToSet
    <2>2. N + 1 - k \in 1..N
        BY <1>4
    <2> QED
        BY <1>5, <2>1, <2>2
<1>7. \A x \in 1..Len(E) : E[x][1] \in ToSet(stack) /\ E[x][2] \in ToSet(stack)
    BY <1>3 DEF Leaving, BothEnds
<1>8. \A x \in 1..Len(E) : edges[x] = <<number[E[x][1]], number[E[x][2]]>>
    BY <1>1
<1>9. edges \in Seq((1..N) \X (1..N)) /\ Len(edges) = Len(E) /\ DOMAIN edges = 1..Len(E)
    <2>1. ASSUME NEW x \in 1..Len(E) PROVE edges[x] \in (1..N) \X (1..N)
        BY <1>6, <1>7, <1>8
    <2>2. DOMAIN edges = 1..Len(E)
        BY <1>1
    <2> QED
        BY <1>1, <2>1, <2>2
<1> HIDE DEF edges
\* The vertex of number v is at the place N + 1 - v.
<1>10. ASSUME NEW v \in 1..N, NEW x \in 1..Len(E)
       PROVE  /\ N + 1 - v \in 1..N
              /\ v \in BothEnds(edges[x]) <=> stack[N + 1 - v] \in BothEnds(E[x])
    <2>1. N + 1 - v \in 1..N /\ N + 1 - (N + 1 - v) = v
        BY <1>4
    <2>2. number[stack[N + 1 - v]] = v
        BY <1>5, <2>1
    <2>3. ASSUME NEW s \in ToSet(stack), number[s] = v PROVE s = stack[N + 1 - v]
        <3>1. PICK k \in 1..N : s = stack[k] /\ number[s] = N + 1 - k
            BY <1>6
        <3>2. k = N + 1 - v
            BY <1>4, <2>3, <3>1
        <3> QED
            BY <3>1, <3>2
    <2>4. BothEnds(edges[x]) = {number[E[x][1]], number[E[x][2]]}
        BY <1>8 DEF BothEnds
    <2>5. v \in BothEnds(edges[x]) => stack[N + 1 - v] \in BothEnds(E[x])
        BY <1>7, <2>3, <2>4 DEF BothEnds
    <2>6. stack[N + 1 - v] \in BothEnds(E[x]) => v \in BothEnds(edges[x])
        BY <2>2, <2>4 DEF BothEnds
    <2> QED
        BY <2>1, <2>5, <2>6
<1>11. MaxHead(edges) = N
    <2>1. CASE E = <<>>
        <3>1. edges = <<>>
            BY <1>9, <2>1
        <3>2. N = 0
            <4> SUFFICES ASSUME N # 0 PROVE FALSE
                OBVIOUS
            <4>1. 1 \in 1..N
                BY <1>4
            <4>2. stack[1] \in ToSet(stack)
                BY <1>5, <4>1
            <4>3. 1..Len(E) = {}
                BY <2>1
            <4> QED
                BY <1>3, <4>2, <4>3 DEF Leaving
        <3>3. PICK r : Run(r, 0, HeadTurn(<<>>, 0), 0, 0..0) /\ MaxHead(<<>>) = r[0]
            <4>1. <<>> \in Seq({}) /\ Len(<<>>) = 0 /\ DOMAIN <<>> = {} /\ 0 \in Nat
                OBVIOUS
            <4> QED
                BY <4>1, HeadRun
        <3> QED
            BY <3>1, <3>2, <3>3 DEF Run
    <2>2. CASE E # <<>>
        <3>1. edges # <<>> /\ Len(E) \in 1..Len(E)
            BY <1>1, <1>9, <2>2
        <3>2. stack # <<>> /\ stack[1] = E[Len(E)][2]
            BY <1>3, <2>2 DEF Leaving
        <3>3. 1 \in 1..N /\ N + 1 - 1 = N
            BY <1>4, <3>2
        <3>4. edges[Len(E)][2] = N
            <4>1. number[stack[1]] = N
                BY <1>5, <3>3
            <4>2. edges[Len(E)] = <<number[E[Len(E)][1]], number[E[Len(E)][2]]>>
                BY <1>8, <3>1
            <4>3. edges[Len(E)][2] = number[E[Len(E)][2]]
                BY <4>2
            <4> QED
                BY <3>2, <4>1, <4>3
        <3>5. \A i \in DOMAIN edges : edges[i][2] \in 1..N
            BY <1>9
        <3> QED
            BY <1>4, <1>9, <3>1, <3>4, <3>5, MaxHeadIs
    <2> QED
        BY <2>1, <2>2
<1>12. ASSUME NEW v \in 1..N PROVE \E x \in 1..Len(E) : v \in BothEnds(edges[x])
    <2>1. N + 1 - v \in 1..N
        BY <1>4
    <2>2. stack[N + 1 - v] \in ToSet(stack)
        BY <1>5, <2>1
    <2>3. PICK x \in 1..Len(E) : stack[N + 1 - v] \in BothEnds(E[x])
        BY <1>3, <2>2 DEF Leaving
    <2> QED
        BY <1>10, <2>3
<1>13. ASSUME NEW v \in 1..N, NEW w \in v..N, NEW x \in 1..Len(E), v \in BothEnds(edges[x])
       PROVE  \E y \in x..Len(E) : w \in BothEnds(edges[y])
    <2>1. w \in 1..N /\ N + 1 - v \in 1..N /\ N + 1 - w \in 1..(N + 1 - v)
        BY <1>4
    <2>2. stack[N + 1 - v] \in BothEnds(E[x])
        BY <1>10, <1>13
    <2>3. PICK y \in x..Len(E) : stack[N + 1 - w] \in BothEnds(E[y])
        BY <1>3, <2>1, <2>2 DEF Leaving
    <2>4. y \in 1..Len(E)
        BY <1>1
    <2> QED
        BY <1>10, <2>1, <2>3, <2>4
<1>14. Numbered(E, [n |-> N, edges |-> edges])
    BY <1>4, <1>9, <1>12, <1>13 DEF Numbered
<1> QED
    BY <1>11, <1>14 DEF number, edges, stack

\* What every search is given of a universe is a graph as the frontier manager
\* wants it.
THEOREM UpdateGivesGraph ==
    ASSUME NEW X, NEW names \in Seq(X), names # <<>>
    PROVE  LET g == Update(names)
           IN  /\ g.n \in Nat
               /\ g.edges \in Seq((1..g.n) \X (1..g.n))
               /\ g.edges # <<>>
               /\ \A v \in 1..g.n : \E a \in 1..Len(g.edges) : v \in {g.edges[a][1], g.edges[a][2]}
<1> DEFINE E == UniqueEdges(names)
<1>1. E \in Seq(X) /\ E # <<>>
    BY UniqueEdgesIs
<1>2. Numbered(E, Update(names))
    BY <1>1, NumberedIs DEF Update
<1>3. Len(E) # 0
    BY <1>1
<1> QED
    BY <1>2, <1>3 DEF Numbered, BothEnds
-----------------------------------------------------------------------------
(***************************************************************************)
(* What the calls leave alone.                                             *)
(***************************************************************************)
LEMMA ConvArgKinds ==
    /\ \A x \in Arguments : ConvArg(x)[1] \in {"error", "graph", "edge", "vertex"}
    /\ \A x \in Selections : ConvArg(x)[1] \in {"error", "graph", "edge", "vertex", "DiGraphSet"}
<1>1. ASSUME NEW x \in Arguments PROVE ConvArg(x)[1] \in {"error", "graph", "edge", "vertex"}
    <2>1. x[1] \in {"graph", "edge", "vertex"}
        BY DiGraphSetsAssumption
    <2>2. CASE x[1] = "graph"
        BY <2>2 DEF ConvArg
    <2>3. CASE x[1] = "edge"
        BY <2>3 DEF ConvArg
    <2>4. CASE x[1] = "vertex"
        BY <2>4 DEF ConvArg
    <2> QED
        BY <2>1, <2>2, <2>3, <2>4
<1>2. ASSUME NEW o \in Objects PROVE ConvArg(<<"DiGraphSet", o>>)[1] = "DiGraphSet"
    BY DEF ConvArg
<1> QED
    BY <1>1, <1>2 DEF Selections

\* A call that only answers.
Quiet ==
    /\ UNCHANGED <<elems, numElems, vertices, weights, accepted, loop, walk>>
    /\ call'.op \notin {"set_universe", "none"} /\ call' # NoCall

LEMMA AnswersQuiet ==
    ASSUME NEW op, NEW on, NEW arg, NEW error, NEW result,
           op \notin {"set_universe", "none"}, Answers(op, on, arg, error, result)
    PROVE  Quiet
<1>1. call'.op = op
    BY DEF Answers, Returned
<1> QED
    BY <1>1 DEF Answers, universeVars, Quiet, NoCall

LEMMA LeavesQuiet ==
    ASSUME NEW op, NEW on, NEW arg, NEW out,
           op \notin {"set_universe", "none"}, Leaves(op, on, arg, out)
    PROVE  Quiet
<1>1. call'.op = op
    BY DEF Leaves, Returned
<1> QED
    BY <1>1 DEF Leaves, universeVars, Quiet, NoCall

LEMMA SearchQuiet ==
    ASSUME NEW kind, NEW arg, NEW on, Search(kind, arg, on)
    PROVE  Quiet
<1>1. ASSUME NEW k \in {"cycles", "hamiltonian", "paths", "forests", "trees", "indegree"},
             NEW named, NEW refusal, SearchFor(k, arg, on, named, refusal)
      PROVE  Quiet
    <2>1. k \notin {"set_universe", "none"}
        BY <1>1
    <2> QED
        BY <1>1, <2>1, AnswersQuiet DEF SearchFor
<1> QED
    BY <1>1 DEF Search, DirectedCycles, HamiltonianCycles, StPaths, RootedForests, RootedTrees,
                WithInDegree

LEMMA AskClassQuiet ==
    ASSUME AskClass
    PROVE  Quiet
<1>1. ASSUME Universe PROVE Quiet
    BY <1>1, AnswersQuiet DEF Universe
<1>2. ASSUME NEW g, NEW h, FromGraphs(g, h) PROVE Quiet
    BY <1>2, AnswersQuiet DEF FromGraphs
<1>3. ASSUME NEW g, NEW h, FromConstraints(g, h) PROVE Quiet
    BY <1>3, AnswersQuiet DEF FromConstraints
<1> QED
    BY <1>1, <1>2, <1>3 DEF AskClass

LEMMA AskQuiet ==
    ASSUME NEW o \in Objects, Ask(o)
    PROVE  Quiet
<1>1. ASSUME Choice(o) PROVE Quiet
    <2>1. PICK out \in Chosen(objects[o]) :
            IF Nameable(elems, out.result) THEN Answers("choice", o, 0, out.error, out.result)
            ELSE Answers("choice", o, 0, "IndexError", {})
        BY <1>1 DEF Choice
    <2> QED
        BY <2>1, AnswersQuiet
<1>2. ASSUME Length(o) PROVE Quiet
    BY <1>2, AnswersQuiet DEF Length
<1>3. ASSUME NEW x \in Arguments, IsIn(o, x) PROVE Quiet
    <2>1. \/ \E e : Answers("contains", o, x, e, {})
          \/ \E r : Answers("contains", o, x, "none", r)
        BY <1>3 DEF IsIn
    <2> QED
        BY <2>1, AnswersQuiet
<1>4. ASSUME NEW x \in Selections, Including(o, x) PROVE Quiet
    <2>1. \E e, r : Answers("including", o, x, e, r)
        BY <1>4, ConvArgKinds DEF Including
    <2> QED
        BY <2>1, AnswersQuiet
<1>5. ASSUME NEW x \in Selections, Excluding(o, x) PROVE Quiet
    <2>1. \E e, r : Answers("excluding", o, x, e, r)
        BY <1>5, ConvArgKinds DEF Excluding
    <2> QED
        BY <2>1, AnswersQuiet
<1>6. ASSUME NEW x \in Selections, Included(o, x) PROVE Quiet
    <2>1. \E e, r : Answers("included", o, x, e, r)
        BY <1>6 DEF Included
    <2> QED
        BY <2>1, AnswersQuiet
<1>7. ASSUME NEW op, NEW others, CombinedWith(o, op, others) PROVE Quiet
    BY <1>7, AnswersQuiet DEF CombinedWith
<1>8. ASSUME NEW op, NEW p, Quotients(o, op, p) PROVE Quiet
    <2>1. \/ Answers("quotients", o, p, "none", DivideBy(op, objects[o], objects[p]))
          \/ Answers("remainders", o, p, "none", DivideBy(op, objects[o], objects[p]))
        BY <1>8 DEF Quotients
    <2> QED
        BY <2>1, AnswersQuiet
<1>9. ASSUME NEW p,
             NEW op \in {"join", "meet", "subgraphs", "supergraphs", "non_subgraphs",
                         "non_supergraphs"},
             SelectedBy(o, op, p)
      PROVE  Quiet
    <2>1. op \notin {"set_universe", "none"}
        OBVIOUS
    <2> QED
        BY <1>9, <2>1, AnswersQuiet DEF SelectedBy
<1>10. ASSUME NEW p,
              NEW op \in {"isdisjoint", "issubset", "issuperset", "lt", "gt", "eq", "ne"},
              ComparedWith(o, op, p)
       PROVE  Quiet
    <2>1. op \notin {"set_universe", "none"}
        OBVIOUS
    <2> QED
        BY <1>10, <2>1, AnswersQuiet DEF ComparedWith
<1>11. ASSUME NEW op \in {"invert", "minimal", "maximal", "blocking", "complement"},
              TransformedBy(o, op)
       PROVE  Quiet
    <2>1. op \notin {"set_universe", "none"}
        OBVIOUS
    <2> QED
        BY <1>11, <2>1, AnswersQuiet DEF TransformedBy
<1>12. ASSUME NEW op \in {"smaller", "larger", "graph_size"}, NEW size, SizedBy(o, op, size)
       PROVE  Quiet
    <2>1. op \notin {"set_universe", "none"}
        OBVIOUS
    <2> QED
        BY <1>12, <2>1, AnswersQuiet DEF SizedBy
<1> QED
    BY <1>1, <1>2, <1>3, <1>4, <1>5, <1>6, <1>7, <1>8, <1>9, <1>10, <1>11, <1>12 DEF Ask

\* Of the calls that change an object, flip() may name an element that is new
\* and loads() may count more of them.
Grows(o, x) ==
    LET t == ConvElem(elems, numElems, x[2])
    IN  /\ ConvArg(x)[1] = "edge"
        /\ elems' = t.elems /\ numElems' = t.n
        /\ UNCHANGED <<vertices, weights, accepted, loop, walk>>
        /\ call'.op \notin {"set_universe", "none"} /\ call' # NoCall

Counts(dump) ==
    /\ numElems' = NewElems(numElems, dump)
    /\ UNCHANGED <<elems, vertices, weights, accepted, loop, walk>>
    /\ call'.op \notin {"set_universe", "none"} /\ call' # NoCall

LEMMA MutateLeaves ==
    ASSUME NEW o \in Objects, Mutate(o)
    PROVE  \/ Quiet
           \/ \E x \in Arguments : Grows(o, x)
           \/ \E dump \in Dumps : Counts(dump)
<1>1. ASSUME NEW x \in Arguments, Add(o, x) PROVE Quiet
    BY <1>1, LeavesQuiet DEF Add
<1>2. ASSUME NEW x \in Arguments, Removes(o, x) PROVE Quiet
    BY <1>2, LeavesQuiet DEF Removes
<1>3. ASSUME NEW x \in Arguments, Discard(o, x) PROVE Quiet
    <2>1. \E out : Leaves("discard", o, x, out)
        BY <1>3, Zenon DEF Discard
    <2> QED
        BY <2>1, LeavesQuiet
<1>4. ASSUME NEW x \in Arguments, Flip(o, x) PROVE Quiet \/ Grows(o, x)
    <2>1. CASE ConvArg(x)[1] = "edge"
        <3>1. /\ elems' = ConvElem(elems, numElems, x[2]).elems
              /\ numElems' = ConvElem(elems, numElems, x[2]).n
              /\ Returned("flip", o, x, ConvElem(elems, numElems, x[2]).error, {})
              /\ UNCHANGED <<vertices, weights, accepted, loop, walk>>
            BY <1>4, <2>1 DEF Flip
        <3>2. call'.op = "flip"
            BY <3>1 DEF Returned
        <3> QED
            BY <2>1, <3>1, <3>2 DEF Grows, NoCall
    <2>2. CASE ConvArg(x)[1] # "edge"
        <3>1. \E out : Leaves("flip", o, x, out)
            BY <1>4, <2>2, ConvArgKinds DEF Flip
        <3> QED
            BY <3>1, LeavesQuiet
    <2> QED
        BY <2>1, <2>2
<1>5. ASSUME Pop(o) PROVE Quiet
    <2>1. \E out : Leaves("pop", o, 0, out)
        BY <1>5 DEF Pop
    <2> QED
        BY <2>1, LeavesQuiet
<1>6. ASSUME Clear(o) PROVE Quiet
    BY <1>6, LeavesQuiet DEF Clear
<1>7. ASSUME NEW op, NEW others, UpdateWith(o, op, others) PROVE Quiet
    BY <1>7, LeavesQuiet DEF UpdateWith
<1>8. ASSUME NEW op \in {"quotient", "remainder"}, NEW p, DivideUpdate(o, op, p) PROVE Quiet
    <2>1. op \notin {"set_universe", "none"}
        OBVIOUS
    <2> QED
        BY <1>8, <2>1, LeavesQuiet DEF DivideUpdate
<1>9. ASSUME NEW p, Copy(o, p) PROVE Quiet
    BY <1>9, LeavesQuiet DEF Copy
<1>10. ASSUME NEW dump \in Dumps, Loads(o, dump) PROVE Counts(dump)
    <2>1. call'.op = "loads"
        BY <1>10 DEF Loads, Returned
    <2> QED
        BY <1>10, <2>1 DEF Loads, Counts, NoCall
<1> QED
    BY <1>1, <1>2, <1>3, <1>4, <1>5, <1>6, <1>7, <1>8, <1>9, <1>10 DEF Mutate

LEMMA CallObjectsLeaves ==
    ASSUME CallObjects
    PROVE  \/ Quiet
           \/ \E o \in Objects, x \in Arguments : Grows(o, x)
           \/ \E dump \in Dumps : Counts(dump)
<1>1. ASSUME Pop(Looped) \/ Clear(Looped) PROVE Quiet
    <2>1. (\E out : Leaves("pop", Looped, 0, out)) \/ (\E out : Leaves("clear", Looped, 0, out))
        BY <1>1 DEF Pop, Clear
    <2> QED
        BY <2>1, LeavesQuiet
<1>2. \/ Pop(Looped) \/ Clear(Looped)
      \/ \E o \in Objects : Mutate(o) \/ Ask(o)
      \/ AskClass
      \/ \E q \in Questions, on \in Objects \cup {"class"} : Search(q[1], q[2], on)
    BY DEF CallObjects
<1> QED
    BY <1>1, <1>2, MutateLeaves, AskQuiet, AskClassQuiet, SearchQuiet

LEMMA SetUniverseLeaves ==
    ASSUME CallUniverse \/ VisitVertex
    PROVE  UNCHANGED loop
<1>1. ASSUME NEW list \in Lists, SetUniverseAsIs(list) PROVE UNCHANGED loop
    BY <1>1 DEF SetUniverseAsIs, RefuseUniverse, GiveUniverse
<1>2. ASSUME NEW edges, NEW traversal, NEW start, SetUniverse(edges, traversal, start)
      PROVE  UNCHANGED loop
    BY <1>2 DEF SetUniverse, RefuseUniverse
<1>3. ASSUME VisitVertex PROVE UNCHANGED loop
    BY <1>3 DEF VisitVertex, RefuseUniverse, GiveUniverse
<1> QED
    BY <1>1, <1>2, <1>3 DEF CallUniverse
-----------------------------------------------------------------------------
(***************************************************************************)
(* The tables of setset.                                                   *)
(***************************************************************************)
LEMMA LargerOf ==
    ASSUME NEW m \in Nat, NEW n \in Nat
    PROVE  Max({m, n}) = IF m < n THEN n ELSE m
<1>1. {m, n} \in SUBSET (0..(m + n)) /\ {m, n} # {} /\ m + n \in Nat
    OBVIOUS
<1>2. Max({m, n}) \in {m, n} /\ Max({m, n}) >= m /\ Max({m, n}) >= n
    BY <1>1, MaxIs
<1> DEFINE x == Max({m, n})
<1>3. x \in {m, n} /\ x >= m /\ x >= n
    BY <1>2
<1> HIDE DEF x
<1>4. x = IF m < n THEN n ELSE m
    BY <1>3
<1> QED
    BY <1>4 DEF x

TableErrors == {"none", "AssertionError", "RuntimeError"}
TablesOver(X) == [elems : Seq(X), n : Nat, error : TableErrors]

LEMMA AddElemIs ==
    ASSUME NEW X, NEW s \in Seq(X), NEW n \in Nat, NEW e \in X
    PROVE  LET t == AddElem(s, n, e)
           IN  /\ t \in TablesOver(X)
               /\ e \in ToSet(s) => t.elems = s /\ t.n = n
               /\ e \notin ToSet(s) /\ Len(s) + 1 > ElemLimit =>
                    t.elems = s /\ t.n = n /\ t.error = "RuntimeError"
               /\ e \notin ToSet(s) /\ Len(s) + 1 <= ElemLimit =>
                    /\ t.elems = Append(s, e)
                    /\ n <= Len(s) + 1 => t.n = Len(s) + 1 /\ t.error = "none"
                    /\ n > Len(s) + 1 => t.n = n
<1>0. Len(s) + 1 \in Nat /\ ElemLimit \in Nat
    BY DiGraphSetsAssumption
<1>1. Known(s, e) <=> e \in ToSet(s)
    BY ContainsIs DEF Known
<1>2. CASE e \in ToSet(s)
    <2>1. AddElem(s, n, e) = [elems |-> s, n |-> n, error |-> "AssertionError"]
        BY <1>1, <1>2 DEF AddElem, Tables
    <2> QED
        BY <1>2, <2>1 DEF TablesOver, TableErrors
<1>3. CASE e \notin ToSet(s) /\ Len(s) + 1 > ElemLimit
    <2>1. AddElem(s, n, e) = [elems |-> s, n |-> n, error |-> "RuntimeError"]
        BY <1>1, <1>3 DEF AddElem, Tables
    <2> QED
        BY <1>0, <1>3, <2>1 DEF TablesOver, TableErrors
<1>4. CASE e \notin ToSet(s) /\ ~(Len(s) + 1 > ElemLimit)
    <2> DEFINE i == Len(s) + 1
               m == IF n < i THEN i ELSE n
    <2>1. Max({n, i}) = m
        BY <1>0, LargerOf
    <2>2. AddElem(s, n, e) =
            [elems |-> Append(s, e), n |-> m, error |-> IF m = i THEN "none" ELSE "AssertionError"]
        BY <1>1, <1>4, <2>1 DEF AddElem, Tables
    <2>3. Append(s, e) \in Seq(X)
        OBVIOUS
    <2>4. i \in Nat /\ m \in Nat /\ (n <= i => m = i) /\ (n > i => m = n)
        BY <1>0
    <2> HIDE DEF i, m
    <2> DEFINE t == AddElem(s, n, e)
    <2>5. t.elems = Append(s, e) /\ t.n = m /\ t.error = IF m = i THEN "none" ELSE "AssertionError"
        BY <2>2
    <2>6. t \in TablesOver(X)
        BY <2>2, <2>3, <2>4 DEF TablesOver, TableErrors
    <2> HIDE DEF t
    <2>7. n <= i => t.n = i /\ t.error = "none"
        BY <2>4, <2>5
    <2>8. n > i => t.n = n
        BY <2>4, <2>5
    <2> QED
        BY <1>4, <2>5, <2>6, <2>7, <2>8 DEF t, i
<1> QED
    BY <1>0, <1>2, <1>3, <1>4

\* The tables as they are filled.
TableTurn(U, X) ==
    [p \in TablesOver(X) \X (1..Len(U)) |->
        IF p[1].error = "none" THEN AddElem(p[1].elems, p[1].n, U[p[2]]) ELSE p[1]]

LEMMA TableTurnType ==
    ASSUME NEW X, NEW U \in Seq(X), NEW a \in TablesOver(X), NEW i \in 1..Len(U)
    PROVE  (IF a.error = "none" THEN AddElem(a.elems, a.n, U[i]) ELSE a) \in TablesOver(X)
<1>1. a.elems \in Seq(X) /\ a.n \in Nat /\ U[i] \in X
    BY DEF TablesOver
<1> QED
    BY <1>1, AddElemIs

LEMMA TablesRun ==
    ASSUME NEW X, NEW U \in Seq(X), IsInjective(U), NEW n
    PROVE  \E r : /\ Run(r, Tables(<<>>, 0, "none"), TableTurn(U, X), Len(U), TablesOver(X))
                  /\ SetTables(elems, n, U) = r[Len(U)]
<1> DEFINE k == Len(U)
           A == TablesOver(X)
           next == TableTurn(U, X)
           base == Tables(<<>>, 0, "none")
           put(t, e) == IF t.error = "none" THEN AddElem(t.elems, t.n, e) ELSE t
           turn == CHOOSE h : h = [x \in SUBSET DOMAIN U |->
                        IF x = {} THEN base ELSE put(h[x \ {Max(x)}], U[Max(x)])]
<1>1. k \in Nat /\ DOMAIN U = 1..k
    OBVIOUS
<1>2. base \in A
    <2>1. <<>> \in Seq(X)
        OBVIOUS
    <2> QED
        BY <2>1 DEF TablesOver, Tables, TableErrors
<1>3. \A a \in A, i \in 1..k : next[<<a, i>>] = put(a, U[i])
    BY DEF TableTurn
<1>4. IsTurn(next, k, A)
    BY TableTurnType DEF IsTurn, TableTurn
<1>5. SetTables(elems, n, U) = turn[DOMAIN U]
    BY DEF SetTables, Emptied, FoldLeft, MapThenFoldSet
<1> HIDE DEF k, A, next, turn, put, base
<1>6. PICK h : FoldsAs(h, base, next, k, A)
    BY <1>1, <1>2, <1>4, FoldRuns
<1>7. \A x \in SUBSET (1..k) : x # {} => Max(x) \in 1..k /\ x \ {Max(x)} \in SUBSET (1..k)
    BY <1>1, LastOfSet
<1>8. h = [x \in SUBSET DOMAIN U |->
            IF x = {} THEN base ELSE put(h[x \ {Max(x)}], U[Max(x)])]
    <2>1. /\ h \in [SUBSET (1..k) -> A]
          /\ \A x \in SUBSET (1..k) : h[x] = FoldTurn(base, next, h, x)
        BY <1>6 DEF FoldsAs
    <2> QED
        BY <1>1, <1>3, <1>7, <2>1 DEF FoldTurn
<1>9. turn = [x \in SUBSET DOMAIN U |->
                IF x = {} THEN base ELSE put(turn[x \ {Max(x)}], U[Max(x)])]
    BY <1>8, Zenon DEF turn
<1>10. Loops(turn, base, next, k, A)
    BY <1>1, <1>3, <1>7, <1>9 DEF Loops
<1>11. \E r : Run(r, base, next, k, A) /\ turn[1..k] = r[k]
    BY <1>1, <1>2, <1>4, <1>10, LoopIsRun
<1> QED
    BY <1>1, <1>5, <1>11 DEF k, A, next, base

\* The tables after k items, as many of them as there may be.
Filled(U, k, t) ==
    /\ t.n = Len(t.elems) /\ Len(t.elems) <= k
    /\ \A j \in 1..Len(t.elems) : t.elems[j] = U[j]
    /\ t.error = "none" => k <= ElemLimit /\ Len(t.elems) = k
    /\ t.error # "none" => k > ElemLimit /\ t.error = "RuntimeError"

LEMMA FilledStep ==
    ASSUME NEW X, NEW U \in Seq(X), IsInjective(U), NEW k \in 0..(Len(U) - 1),
           NEW t \in TablesOver(X), Filled(U, k, t)
    PROVE  Filled(U, k + 1, IF t.error = "none" THEN AddElem(t.elems, t.n, U[k + 1]) ELSE t)
<1>1. /\ t.elems \in Seq(X) /\ t.n \in Nat /\ k \in Nat /\ k + 1 \in 1..Len(U) /\ U[k + 1] \in X
      /\ ElemLimit \in Nat /\ Len(t.elems) \in Nat /\ DOMAIN U = 1..Len(U)
    BY DiGraphSetsAssumption DEF TablesOver
<1>2. CASE t.error # "none"
    BY <1>1, <1>2 DEF Filled
<1>3. CASE t.error = "none"
    <2> DEFINE s == t.elems
               e == U[k + 1]
               a == AddElem(s, t.n, e)
    <2>1. Len(s) = k /\ t.n = k /\ k <= ElemLimit /\ \A j \in 1..k : s[j] = U[j]
        BY <1>3 DEF Filled
    <2>2. e \notin ToSet(s)
        <3> SUFFICES ASSUME e \in ToSet(s) PROVE FALSE
            OBVIOUS
        <3>1. PICK j \in DOMAIN s : s[j] = e
            BY DEF ToSet
        <3>2. j \in 1..k
            BY <1>1, <2>1
        <3>3. U[j] = U[k + 1] /\ j \in DOMAIN U /\ k + 1 \in DOMAIN U /\ j # k + 1
            BY <1>1, <2>1, <3>1, <3>2
        <3> QED
            BY <3>3 DEF IsInjective
    <2>3. CASE Len(s) + 1 > ElemLimit
        <3>1. a.elems = s /\ a.n = t.n /\ a.error = "RuntimeError"
            BY <1>1, <2>2, <2>3, AddElemIs
        <3> HIDE DEF a, s, e
        <3>2. Len(s) <= k + 1 /\ k + 1 > ElemLimit
            BY <1>1, <2>1, <2>3
        <3>3. Filled(U, k + 1, a)
            BY <2>1, <3>1, <3>2 DEF Filled
        <3> QED
            BY <1>3, <3>3 DEF a, s, e
    <2>4. CASE ~(Len(s) + 1 > ElemLimit)
        <3>1. Len(s) + 1 <= ElemLimit /\ t.n <= Len(s) + 1
            BY <1>1, <2>1, <2>4
        <3>2. a.elems = Append(s, e) /\ a.n = Len(s) + 1 /\ a.error = "none"
            BY <1>1, <2>2, <3>1, AddElemIs
        <3>3. /\ Len(Append(s, e)) = k + 1 /\ Append(s, e)[k + 1] = e
              /\ \A j \in 1..k : Append(s, e)[j] = s[j]
            BY <1>1, <2>1, AppendFacts
        <3> HIDE DEF a, s
        <3>4. \A j \in 1..(k + 1) : j = k + 1 \/ j \in 1..k
            BY <1>1
        <3>5. \A j \in 1..(k + 1) : Append(s, e)[j] = U[j]
            BY <2>1, <3>3, <3>4
        <3>6. k + 1 <= ElemLimit /\ k + 1 <= k + 1
            BY <1>1, <2>1, <3>1
        <3>7. Filled(U, k + 1, a)
            BY <2>1, <3>2, <3>3, <3>5, <3>6 DEF Filled
        <3> QED
            BY <1>3, <3>7 DEF a, s
    <2> QED
        BY <2>3, <2>4
<1> QED
    BY <1>2, <1>3

LEMMA SetTablesIs ==
    ASSUME NEW X, NEW U \in Seq(X), IsInjective(U), NEW n
    PROVE  /\ SetTables(elems, n, U) \in TablesOver(X)
           /\ Filled(U, Len(U), SetTables(elems, n, U))
<1> DEFINE k == Len(U)
           A == TablesOver(X)
           next == TableTurn(U, X)
           base == Tables(<<>>, 0, "none")
           Good == {p \in (0..k) \X A : Filled(U, p[1], p[2])}
<1>1. PICK r : Run(r, base, next, k, A) /\ SetTables(elems, n, U) = r[k]
    BY TablesRun
<1>2. k \in Nat /\ DOMAIN U = 1..k /\ k \in 0..k
    OBVIOUS
<1>3. KeptBy(Good, base, next, k, A)
    <2>1. <<0, base>> \in Good
        <3>1. base.elems = <<>> /\ base.n = 0 /\ base.error = "none" /\ Len(<<>>) = 0
            BY DEF Tables
        <3>2. 0 <= ElemLimit
            BY DiGraphSetsAssumption
        <3>3. base \in A
            BY <1>1, <1>2 DEF Run
        <3> QED
            BY <1>2, <3>1, <3>2, <3>3 DEF Filled
    <2>2. ASSUME NEW i \in 0..(k - 1), NEW a \in A, <<i, a>> \in Good
          PROVE  <<i + 1, next[<<a, i + 1>>]>> \in Good
        <3>1. i + 1 \in 1..k /\ i + 1 \in 0..k
            BY <1>2
        <3> DEFINE b == IF a.error = "none" THEN AddElem(a.elems, a.n, U[i + 1]) ELSE a
        <3>2. next[<<a, i + 1>>] = b
            BY <3>1 DEF TableTurn
        <3>3. b \in A
            BY <3>1, TableTurnType
        <3>4. Filled(U, i, a)
            BY <2>2
        <3>5. Filled(U, i + 1, b)
            BY <3>4, FilledStep
        <3> HIDE DEF b
        <3> QED
            BY <3>1, <3>2, <3>3, <3>5
    <2> HIDE DEF Good, next, A, base
    <2> QED
        BY <2>1, <2>2 DEF KeptBy
<1> HIDE DEF Good, next, A, base, k
<1>4. r[k] \in A /\ <<k, r[k]>> \in Good
    BY <1>1, <1>2, <1>3, RunKeeps
<1> QED
    BY <1>1, <1>4 DEF Good, A, k
-----------------------------------------------------------------------------
(***************************************************************************)
(* Finite sets and the sequences of their members.                         *)
(***************************************************************************)
LEMMA LeastIs ==
    ASSUME NEW S \in SUBSET Nat, S # {}
    PROVE  Min(S) \in S /\ \A y \in S : Min(S) <= y
<1>1. \E x \in S : \A y \in S : x <= y
    BY LeastElement
<1> QED
    BY <1>1 DEF Min

LEMMA FiniteBound ==
    ASSUME NEW S \in SUBSET Nat, IsFiniteSet(S)
    PROVE  \E n \in Nat : S \in SUBSET (0..n)
<1> DEFINE Good == {T \in SUBSET S : \E n \in Nat : T \in SUBSET (0..n)}
<1>1. ASSUME NEW T \in SUBSET S, \A t \in T : T \ {t} \in Good PROVE T \in Good
    <2>1. CASE T = {}
        <3>1. 0 \in Nat /\ T \in SUBSET (0..0)
            BY <2>1
        <3> QED
            BY <3>1
    <2>2. CASE T # {}
        <3>1. PICK t \in T : TRUE
            BY <2>2
        <3>2. PICK n \in Nat : T \ {t} \in SUBSET (0..n)
            BY <1>1, <3>1
        <3>3. t \in Nat /\ n + t \in Nat /\ \A x \in 0..n : x \in 0..(n + t)
            BY <3>1
        <3>4. T \in SUBSET (0..(n + t))
            BY <3>2, <3>3
        <3> QED
            BY <3>3, <3>4
    <2> QED
        BY <2>1, <2>2
<1> HIDE DEF Good
<1>2. S \in Good
    BY <1>1, SetInduction
<1> QED
    BY <1>2 DEF Good

LEMMA EndpointsAre ==
    ASSUME NEW E, IsFiniteSet(E), E \subseteq Vertex \X Vertex
    PROVE  IsFiniteSet(Endpoints(E)) /\ Endpoints(E) \subseteq Vertex
<1> DEFINE T == {{e[1], e[2]} : e \in E}
           pair == [e \in E |-> {e[1], e[2]}]
<1>1. pair \in Surjection(E, T)
    BY DEF Surjection
<1>2. IsFiniteSet(T)
    BY <1>1, FS_Surjection
<1>3. ASSUME NEW t \in T PROVE IsFiniteSet(t)
    <2>1. PICK e \in E : t = {e[1], e[2]}
        OBVIOUS
    <2>2. IsFiniteSet({e[1]}) /\ IsFiniteSet({e[2]}) /\ t = {e[1]} \cup {e[2]}
        BY <2>1, FS_Singleton
    <2> QED
        BY <2>2, FS_Union
<1>4. IsFiniteSet(UNION T)
    BY <1>2, <1>3, FS_UNION
<1>5. \A e \in E : e[1] \in Vertex /\ e[2] \in Vertex
    OBVIOUS
<1> QED
    BY <1>4, <1>5 DEF Endpoints

LEMMA EndpointsHave ==
    ASSUME NEW E, NEW v
    PROVE  v \in Endpoints(E) <=> \E e \in E : v = e[1] \/ v = e[2]
    BY DEF Endpoints

\* The members below one another are fewer.
LEMMA RankIs ==
    ASSUME NEW S \in SUBSET Nat, IsFiniteSet(S)
    PROVE  \A k \in 1..Cardinality(S) : \E x \in S :
                \A y \in S : Cardinality({z \in S : z < y}) = k - 1 <=> y = x
<1> DEFINE below(x) == {z \in S : z < x}
           c == Cardinality(S)
           rank == [x \in S |-> Cardinality(below(x))]
<1>1. c \in Nat
    BY FS_CardinalityType
<1>2. ASSUME NEW x \in S
      PROVE  /\ IsFiniteSet(below(x)) /\ Cardinality(below(x)) \in 0..(c - 1)
    <2>1. below(x) \in SUBSET S /\ x \notin below(x)
        OBVIOUS
    <2>2. IsFiniteSet(below(x)) /\ Cardinality(below(x)) <= c
        BY <2>1, FS_Subset
    <2>3. Cardinality(below(x)) # c
        BY <2>1, FS_Subset
    <2>4. Cardinality(below(x)) \in Nat
        BY <2>2, FS_CardinalityType
    <2> QED
        BY <1>1, <2>2, <2>3, <2>4
<1>3. ASSUME NEW x \in S, NEW y \in S, x < y PROVE rank[x] # rank[y]
    <2>0. x \in Nat /\ y \in Nat /\ ~(x < x)
          /\ \A z \in Nat : z < x => z < y
        BY <1>3
    <2>1. below(x) \in SUBSET below(y) /\ x \in below(y) /\ x \notin below(x)
        BY <1>3, <2>0
    <2>2. IsFiniteSet(below(y))
        BY <1>2
    <2>3. below(x) # below(y)
        BY <2>1
    <2>4. Cardinality(below(x)) # Cardinality(below(y))
        BY <2>1, <2>2, <2>3, FS_Subset
    <2> QED
        BY <2>4
<1>4. rank \in Injection(S, 0..(c - 1))
    <2>1. rank \in [S -> 0..(c - 1)]
        BY <1>2
    <2>2. \A x, y \in S : rank[x] = rank[y] => x = y
        <3> TAKE x, y \in S
        <3>1. x < y \/ y < x \/ x = y
            OBVIOUS
        <3> QED
            BY <1>3, <3>1
    <2> QED
        BY <2>1, <2>2 DEF Injection, IsInjective
<1>5. IsFiniteSet(0..(c - 1)) /\ Cardinality(0..(c - 1)) = c
    <2>1. 0 \in Int /\ c - 1 \in Int /\ (0 > c - 1 => c = 0) /\ (c - 1) - 0 + 1 = c
        BY <1>1
    <2> QED
        BY <2>1, FS_Interval
<1>6. rank \in Surjection(S, 0..(c - 1))
    BY <1>4, <1>5, FS_Injection
<1>7. ASSUME NEW k \in 1..c PROVE \E x \in S : \A y \in S : rank[y] = k - 1 <=> y = x
    <2>1. k - 1 \in 0..(c - 1)
        BY <1>1
    <2>2. PICK x \in S : rank[x] = k - 1
        BY <1>6, <2>1 DEF Surjection
    <2> QED
        BY <1>4, <2>2 DEF Injection, IsInjective
<1> QED
    BY <1>7

LEMMA AscendingIs ==
    ASSUME NEW S \in SUBSET Nat, IsFiniteSet(S)
    PROVE  /\ Ascending(S) \in Seq(S) /\ IsInjective(Ascending(S))
           /\ ToSet(Ascending(S)) = S /\ Len(Ascending(S)) = Cardinality(S)
<1> DEFINE rank(x) == Cardinality({y \in S : y < x})
           c == Cardinality(S)
           s == Ascending(S)
<1>1. c \in Nat
    BY FS_CardinalityType
<1>2. \A k \in 1..c : s[k] = CHOOSE x \in S : rank(x) = k - 1
    BY DEF Ascending
<1>3. \A k \in 1..c : s[k] \in S /\ rank(s[k]) = k - 1
    <2> TAKE k \in 1..c
    <2>1. PICK x \in S : \A y \in S : rank(y) = k - 1 <=> y = x
        BY RankIs
    <2>2. \E y \in S : rank(y) = k - 1
        BY <2>1
    <2> QED
        BY <1>2, <2>2
<1>4. DOMAIN s = 1..c
    BY DEF Ascending
<1>5. s \in Seq(S) /\ Len(s) = c
    <2>1. s = [k \in 1..c |-> s[k]]
        BY DEF Ascending
    <2>2. \A k \in 1..c : s[k] \in S
        BY <1>3
    <2> HIDE DEF s, c, rank
    <2>3. s \in [1..c -> S]
        BY <2>1, <2>2
    <2> QED
        BY <1>1, <2>3
<1>6. IsInjective(s)
    <2>1. ASSUME NEW a \in 1..c, NEW b \in 1..c, s[a] = s[b] PROVE a = b
        <3>1. a - 1 = b - 1
            BY <1>3, <2>1
        <3> QED
            BY <3>1
    <2> QED
        BY <1>4, <2>1 DEF IsInjective
<1>7. s \in Injection(1..c, S)
    <2>1. s \in [1..c -> S]
        BY <1>3 DEF Ascending
    <2> QED
        BY <1>6, <2>1 DEF Injection
<1>8. Cardinality(1..c) = Cardinality(S)
    BY <1>1, FS_Interval
<1>9. s \in Surjection(1..c, S)
    BY <1>7, <1>8, FS_Injection
<1>10. \A x : x \in ToSet(s) <=> x \in S
    BY <1>3, <1>4, <1>9 DEF ToSet, Surjection
<1> QED
    BY <1>5, <1>6, <1>10

\* What heapq pops first.
LEMMA HeapHasFirst ==
    ASSUME NEW H \in SUBSET (Int \X Int \X Int), IsFiniteSet(H), H # {}
    PROVE  \E x \in H : \A y \in H : x = y \/ Before(x, y)
<1> DEFINE first(T) == \E x \in T : \A y \in T : x = y \/ Before(x, y)
           Good == {T \in SUBSET H : T = {} \/ first(T)}
<1>1. ASSUME NEW T \in SUBSET H, \A t \in T : T \ {t} \in Good PROVE T \in Good
    <2>1. CASE T = {}
        BY <2>1
    <2>2. CASE T # {}
        <3>1. PICK t \in T : TRUE
            BY <2>2
        <3>2. CASE T \ {t} = {}
            <4>1. \A y \in T : t = y
                BY <3>2
            <4> QED
                BY <3>1, <4>1
        <3>3. CASE T \ {t} # {}
            <4>1. PICK x \in T \ {t} : \A y \in T \ {t} : x = y \/ Before(x, y)
                BY <1>1, <3>1, <3>3
            <4>2. x \in Int \X Int \X Int /\ t \in Int \X Int \X Int /\ x # t
                BY <3>1, <4>1
            <4>3. Before(x, t) \/ Before(t, x)
                BY <4>2 DEF Before
            <4>4. CASE Before(x, t)
                BY <4>1, <4>4
            <4>5. CASE Before(t, x)
                <5>1. ASSUME NEW y \in T PROVE t = y \/ Before(t, y)
                    <6>1. y \in Int \X Int \X Int
                        OBVIOUS
                    <6>2. t = y \/ x = y \/ Before(x, y)
                        BY <4>1
                    <6> QED
                        BY <4>2, <4>5, <6>1, <6>2 DEF Before
                <5> QED
                    BY <3>1, <5>1
            <4> QED
                BY <4>3, <4>4, <4>5
        <3> QED
            BY <3>2, <3>3
    <2> QED
        BY <2>1, <2>2
<1> HIDE DEF Good
<1>2. H \in Good
    BY <1>1, SetInduction
<1> QED
    BY <1>2 DEF Good

LEMMA JoinedSequences ==
    ASSUME NEW X, NEW s \in Seq(X), NEW t \in Seq(X)
    PROVE  /\ s \o t \in Seq(X) /\ ToSet(s \o t) = ToSet(s) \cup ToSet(t)
           /\ IsInjective(s) /\ IsInjective(t) /\ ToSet(s) \cap ToSet(t) = {} => IsInjective(s \o t)
<1> DEFINE p == s \o t
<1>1. /\ p \in Seq(X) /\ Len(p) = Len(s) + Len(t) /\ DOMAIN p = 1..Len(p)
      /\ DOMAIN s = 1..Len(s) /\ DOMAIN t = 1..Len(t) /\ Len(s) \in Nat /\ Len(t) \in Nat
    OBVIOUS
<1>2. /\ \A i \in 1..Len(s) : i \in DOMAIN p /\ p[i] = s[i]
      /\ \A i \in 1..Len(t) : Len(s) + i \in DOMAIN p /\ p[Len(s) + i] = t[i]
    OBVIOUS
<1>3. \A i \in DOMAIN p : i \in 1..Len(s) \/ (i - Len(s) \in 1..Len(t) /\ i = Len(s) + (i - Len(s)))
    BY <1>1
<1> HIDE DEF p
<1>4. \A x : x \in ToSet(p) <=> x \in ToSet(s) \/ x \in ToSet(t)
    <2> TAKE x
    <2>1. ASSUME x \in ToSet(p) PROVE x \in ToSet(s) \/ x \in ToSet(t)
        <3>1. PICK i \in DOMAIN p : x = p[i]
            BY <2>1 DEF ToSet
        <3>2. CASE i \in 1..Len(s)
            BY <1>1, <1>2, <3>1, <3>2 DEF ToSet
        <3>3. CASE i - Len(s) \in 1..Len(t) /\ i = Len(s) + (i - Len(s))
            <4> DEFINE j == i - Len(s)
            <4>1. j \in DOMAIN t /\ x = t[j]
                BY <1>1, <1>2, <3>1, <3>3
            <4> HIDE DEF j
            <4> QED
                BY <4>1 DEF ToSet
        <3> QED
            BY <1>3, <3>2, <3>3
    <2>2. ASSUME x \in ToSet(s) PROVE x \in ToSet(p)
        BY <1>1, <1>2, <2>2 DEF ToSet
    <2>3. ASSUME x \in ToSet(t) PROVE x \in ToSet(p)
        BY <1>1, <1>2, <2>3 DEF ToSet
    <2> QED
        BY <2>1, <2>2, <2>3
<1>5. ASSUME IsInjective(s), IsInjective(t), ToSet(s) \cap ToSet(t) = {} PROVE IsInjective(p)
    <2>1. \A i \in 1..Len(s), j \in 1..Len(t) : s[i] # t[j]
        BY <1>1, <1>5 DEF ToSet
    <2>2. ASSUME NEW a \in DOMAIN p, NEW b \in DOMAIN p, p[a] = p[b] PROVE a = b
        <3>1. CASE a \in 1..Len(s) /\ b \in 1..Len(s)
            BY <1>1, <1>2, <1>5, <2>2, <3>1 DEF IsInjective
        <3>2. CASE a \notin 1..Len(s) /\ b \notin 1..Len(s)
            <4> DEFINE i == a - Len(s)
                       j == b - Len(s)
            <4>1. i \in 1..Len(t) /\ a = Len(s) + i /\ j \in 1..Len(t) /\ b = Len(s) + j
                BY <1>3, <3>2
            <4> HIDE DEF i, j
            <4>2. t[i] = t[j]
                BY <1>2, <2>2, <4>1
            <4>3. i = j
                BY <1>1, <1>5, <4>1, <4>2 DEF IsInjective
            <4> QED
                BY <4>1, <4>3
        <3>3. CASE a \in 1..Len(s) /\ b \notin 1..Len(s)
            <4> DEFINE j == b - Len(s)
            <4>1. j \in 1..Len(t) /\ b = Len(s) + j
                BY <1>3, <3>3
            <4> HIDE DEF j
            <4> QED
                BY <1>2, <2>1, <2>2, <3>3, <4>1
        <3>4. CASE a \notin 1..Len(s) /\ b \in 1..Len(s)
            <4> DEFINE i == a - Len(s)
            <4>1. i \in 1..Len(t) /\ a = Len(s) + i
                BY <1>3, <3>4
            <4> HIDE DEF i
            <4> QED
                BY <1>2, <2>1, <2>2, <3>4, <4>1
        <3> QED
            BY <3>1, <3>2, <3>3, <3>4
    <2> QED
        BY <2>2 DEF IsInjective
<1> QED
    BY <1>1, <1>4, <1>5 DEF p

LEMMA SequencesWithin ==
    ASSUME NEW X, NEW Y, X \subseteq Y, NEW s \in Seq(X)
    PROVE  s \in Seq(Y) /\ s \in Seq(ToSet(s))
<1>1. /\ DOMAIN s = 1..Len(s) /\ Len(s) \in Nat /\ s = [k \in 1..Len(s) |-> s[k]]
      /\ \A k \in 1..Len(s) : s[k] \in Y /\ s[k] \in ToSet(s)
    BY DEF ToSet
<1>2. ASSUME NEW Z, \A k \in 1..Len(s) : s[k] \in Z PROVE s \in Seq(Z)
    <2> DEFINE n == Len(s)
    <2>1. n \in Nat /\ \A k \in 1..n : s[k] \in Z
        BY <1>1, <1>2
    <2> HIDE DEF n
    <2>2. [k \in 1..n |-> s[k]] \in Seq(Z)
        BY <2>1
    <2> QED
        BY <1>1, <2>2 DEF n
<1> QED
    BY <1>1, <1>2

\* A sequence without repetitions is as long as the set it lists.
LEMMA LengthIs ==
    ASSUME NEW X, NEW s \in Seq(X), IsInjective(s)
    PROVE  IsFiniteSet(ToSet(s)) /\ Cardinality(ToSet(s)) = Len(s)
<1>1. DOMAIN s = 1..Len(s) /\ Len(s) \in Nat
    OBVIOUS
<1>2. s \in Surjection(1..Len(s), ToSet(s))
    BY <1>1 DEF Surjection, ToSet
<1>3. s \in Injection(1..Len(s), ToSet(s))
    BY <1>2 DEF Surjection, Injection
<1>4. IsFiniteSet(1..Len(s)) /\ Cardinality(1..Len(s)) = Len(s)
    BY <1>1, FS_Interval
<1> QED
    BY <1>2, <1>3, <1>4, FS_Surjection
-----------------------------------------------------------------------------
(***************************************************************************)
(* Walks over a universe.                                                  *)
(***************************************************************************)
IsUniverse(E) == IsFiniteSet(E) /\ E \subseteq Vertex \X Vertex

WalkOver(E) ==
    [edges : {E}, kind : {"greedy", "bfs", "dfs"}, u : Endpoints(E),
     visited : SUBSET Endpoints(E), sorted : Seq(E), degree : [Endpoints(E) -> Int],
     heap : SUBSET (Int \X Int \X Endpoints(E)), queue : Seq(Endpoints(E)),
     error : {"walking", "none", "AssertionError"}]

Among(E, S) == {e \in E : e[1] \in S /\ e[2] \in S}
Between(E, u, M) == {e \in E : \E x \in M : e = <<u, x>> \/ e = <<x, u>>}

Twice(s, e) == \E i, j \in DOMAIN s : i # j /\ s[i] = e /\ s[j] = e

\* The greedy walk lists the edges it has met once each, self-loops twice.
ListsAll(E, D, s) ==
    /\ s \in Seq(E) /\ ToSet(s) = D
    /\ (\A e \in E : e[1] # e[2]) => IsInjective(s)
    /\ \A e \in D : e[1] = e[2] => Twice(s, e)

LEMMA UniverseFacts ==
    ASSUME NEW E, IsUniverse(E)
    PROVE  /\ IsFiniteSet(Endpoints(E)) /\ Endpoints(E) \subseteq Nat
           /\ \A v \in Endpoints(E) : v # 0
           /\ \A e \in E : /\ e = <<e[1], e[2]>>
                           /\ e[1] \in Endpoints(E) /\ e[2] \in Endpoints(E)
<1>1. IsFiniteSet(Endpoints(E)) /\ Endpoints(E) \subseteq Vertex
    BY EndpointsAre DEF IsUniverse
<1>2. \A e \in E : e = <<e[1], e[2]>>
    BY DEF IsUniverse
<1>3. \A e \in E : e[1] \in Endpoints(E) /\ e[2] \in Endpoints(E)
    BY EndpointsHave
<1> QED
    BY <1>1, <1>2, <1>3 DEF Vertex

LEMMA NeighborsAre ==
    ASSUME NEW E, IsUniverse(E), NEW u
    PROVE  /\ Neighbors(E, u) \subseteq Endpoints(E) /\ IsFiniteSet(Neighbors(E, u))
           /\ Neighbors(E, u) \subseteq Nat
           /\ \A v : v \in Neighbors(E, u) <=> <<u, v>> \in E \/ <<v, u>> \in E
<1>1. IsFiniteSet(Endpoints(E)) /\ Endpoints(E) \subseteq Nat
    BY UniverseFacts
<1>2. Neighbors(E, u) \in SUBSET Endpoints(E)
    BY DEF Neighbors
<1>3. \A v : <<u, v>> \in E \/ <<v, u>> \in E => v \in Endpoints(E)
    BY EndpointsHave
<1> QED
    BY <1>1, <1>2, <1>3, FS_Subset DEF Neighbors

LEMMA TwiceStays ==
    ASSUME NEW X, NEW s \in Seq(X), NEW t \in Seq(X), NEW e, Twice(s, e)
    PROVE  Twice(s \o t, e)
<1>1. \A i \in DOMAIN s : i \in DOMAIN (s \o t) /\ (s \o t)[i] = s[i]
    OBVIOUS
<1> QED
    BY <1>1 DEF Twice

\* The edges between a vertex that is visited and one of its neighbours.
LEMMA MeetLists ==
    ASSUME NEW E, IsUniverse(E), NEW D \in SUBSET E, NEW u, NEW v,
           <<u, v>> \in E \/ <<v, u>> \in E, <<u, v>> \notin D, <<v, u>> \notin D,
           NEW s, ListsAll(E, D, s)
    PROVE  LET e == IF <<u, v>> \in E THEN <<u, v>> ELSE <<v, u>>
           IN  ListsAll(E, D \cup Between(E, u, {v}),
                        s \o <<e>> \o (IF Backward(e) \in E THEN <<Backward(e)>> ELSE <<>>))
<1> DEFINE e == IF <<u, v>> \in E THEN <<u, v>> ELSE <<v, u>>
           b == IF <<u, v>> \in E THEN <<v, u>> ELSE <<u, v>>
           t == IF b \in E THEN <<b>> ELSE <<>>
           p == s \o <<e>>
           q == p \o t
<1>1. e \in E /\ Backward(e) = b /\ e \notin D /\ b \notin D
    BY DEF Backward
<1>2. Between(E, u, {v}) = {e} \cup (IF b \in E THEN {b} ELSE {})
    BY DEF Between
<1>3. /\ s \in Seq(E) /\ ToSet(s) = D /\ ((\A x \in E : x[1] # x[2]) => IsInjective(s))
      /\ \A x \in D : x[1] = x[2] => Twice(s, x)
    BY DEF ListsAll
<1>4. <<e>> \in Seq(E) /\ ToSet(<<e>>) = {e} /\ IsInjective(<<e>>)
    <2>1. DOMAIN <<e>> = {1} /\ <<e>>[1] = e
        OBVIOUS
    <2> QED
        BY <1>1, <2>1 DEF ToSet, IsInjective
<1>5. t \in Seq(E) /\ ToSet(t) = (IF b \in E THEN {b} ELSE {}) /\ IsInjective(t)
    <2>1. DOMAIN <<b>> = {1} /\ <<b>>[1] = b /\ DOMAIN <<>> = {}
        OBVIOUS
    <2>2. ToSet(<<b>>) = {b} /\ IsInjective(<<b>>) /\ ToSet(<<>>) = {} /\ IsInjective(<<>>)
        BY <2>1 DEF ToSet, IsInjective
    <2>3. (b \in E => <<b>> \in Seq(E)) /\ <<>> \in Seq(E)
        OBVIOUS
    <2> QED
        BY <2>2, <2>3
<1>6. e[1] = e[2] => b = e
    OBVIOUS
<1>7. (\A x \in E : x[1] # x[2]) => b # e
    <2>1. b = e => e[1] = e[2]
        OBVIOUS
    <2> QED
        BY <1>1, <2>1
<1> HIDE DEF e, b, t
<1>8. /\ p \in Seq(E) /\ ToSet(p) = D \cup {e}
      /\ (\A x \in E : x[1] # x[2]) => IsInjective(p)
    <2> DEFINE o == <<e>>
    <2>1. o \in Seq(E) /\ ToSet(o) = {e} /\ IsInjective(o)
        BY <1>4
    <2>2. p = s \o o
        OBVIOUS
    <2> HIDE DEF o, p
    <2>3. p \in Seq(E) /\ ToSet(p) = ToSet(s) \cup ToSet(o)
        BY <1>3, <2>1, <2>2, JoinedSequences
    <2>4. IsInjective(s) /\ ToSet(s) \cap ToSet(o) = {} => IsInjective(p)
        BY <1>3, <2>1, <2>2, JoinedSequences
    <2>5. ToSet(s) \cap ToSet(o) = {}
        BY <1>1, <1>3, <2>1
    <2> QED
        BY <1>3, <2>1, <2>3, <2>4, <2>5
<1>9. \A x \in D : x[1] = x[2] => Twice(p, x)
    BY <1>3, <1>4, TwiceStays
<1>10. Len(p) = Len(s) + 1 /\ p[Len(p)] = e /\ Len(p) \in Nat /\ Len(p) > 0
    BY <1>3, <1>4
<1> HIDE DEF p
<1>11. q \in Seq(E) /\ ToSet(q) = D \cup Between(E, u, {v})
    <2>1. q \in Seq(E) /\ ToSet(q) = ToSet(p) \cup ToSet(t)
        BY <1>5, <1>8, JoinedSequences
    <2> QED
        BY <1>2, <1>5, <1>8, <2>1
<1>12. (\A x \in E : x[1] # x[2]) => IsInjective(q)
    <2> HAVE \A x \in E : x[1] # x[2]
    <2>1. IsInjective(p) /\ b # e
        BY <1>7, <1>8
    <2>2. ToSet(p) \cap ToSet(t) = {}
        BY <1>1, <1>5, <1>8, <2>1
    <2> QED
        BY <1>5, <1>8, <2>1, <2>2, JoinedSequences
<1>13. ASSUME NEW x \in D \cup Between(E, u, {v}), x[1] = x[2] PROVE Twice(q, x)
    <2>1. CASE x \in D
        BY <1>5, <1>8, <1>9, <1>13, <2>1, TwiceStays
    <2>2. CASE x \notin D
        <3>1. x = e \/ x = b
            BY <1>2, <2>2
        <3>2. b[1] = b[2] => b = e
            BY DEF b, e
        <3>3. x = e /\ b = e
            BY <1>6, <1>13, <3>1, <3>2
        <3>4. t = <<e>>
            BY <1>1, <3>3 DEF t
        <3>5. q = p \o <<e>>
            BY <3>4
        <3> HIDE DEF q
        <3>6. /\ Len(q) = Len(p) + 1 /\ DOMAIN q = 1..Len(q)
              /\ q[Len(p) + 1] = e /\ q[Len(p)] = e
            BY <1>8, <1>10, <3>5
        <3>7. Len(p) \in DOMAIN q /\ Len(p) + 1 \in DOMAIN q /\ Len(p) # Len(p) + 1
            BY <1>10, <3>6
        <3> QED
            BY <3>3, <3>6, <3>7 DEF Twice
    <2> QED
        BY <2>1, <2>2
<1>14. ListsAll(E, D \cup Between(E, u, {v}), q)
    BY <1>11, <1>12, <1>13 DEF ListsAll
<1> QED
    BY <1>1, <1>14 DEF q, p, t, e

WalksAt(E, u) == {w \in WalkOver(E) : w.u = u}

\* The greedy walk after it has met the vertices M while it visits u.
GreedyAt(E, S, u, M, w) ==
    /\ w \in WalksAt(E, u) /\ w.kind = "greedy" /\ w.error = "walking"
    /\ w.visited = S \cup {u} /\ IsFiniteSet(w.heap)
    /\ ListsAll(E, Among(E, S) \cup Between(E, u, M), w.sorted)

LEMMA WalkFields ==
    ASSUME NEW E, NEW w \in WalkOver(E)
    PROVE  /\ w.edges = E /\ w.kind \in {"greedy", "bfs", "dfs"} /\ w.u \in Endpoints(E)
           /\ w.visited \in SUBSET Endpoints(E) /\ w.sorted \in Seq(E)
           /\ w.degree \in [Endpoints(E) -> Int]
           /\ w.heap \in SUBSET (Int \X Int \X Endpoints(E)) /\ w.queue \in Seq(Endpoints(E))
           /\ w.error \in {"walking", "none", "AssertionError"}
    BY DEF WalkOver

Entries(a, d, N) == {<<a, d[x], x>> : x \in N}

LEMMA EntriesFinite ==
    ASSUME NEW N, IsFiniteSet(N), NEW a, NEW d
    PROVE  IsFiniteSet(Entries(a, d, N))
<1> DEFINE T == Entries(a, d, N)
           f == [x \in N |-> <<a, d[x], x>>]
<1>1. f \in Surjection(N, T)
    BY DEF Surjection, Entries
<1> HIDE DEF T, f
<1>2. IsFiniteSet(T)
    BY <1>1, FS_Surjection
<1> QED
    BY <1>2 DEF T

\* What the meeting with a vertex changes.
Meets(E, u, v, w, m) ==
    LET e == IF <<u, v>> \in E THEN <<u, v>> ELSE <<v, u>>
    IN  /\ m \in WalksAt(E, u) /\ m.kind = w.kind /\ m.error = w.error
        /\ m.visited = w.visited /\ (IsFiniteSet(w.heap) => IsFiniteSet(m.heap))
        /\ w.heap \subseteq m.heap
        /\ \A y \in m.heap \ w.heap : v \in w.visited /\ y[3] \in Neighbors(E, v)
        /\ v \notin w.visited => m.sorted = w.sorted
        /\ v \in w.visited =>
            m.sorted = w.sorted \o <<e>> \o (IF Backward(e) \in E THEN <<Backward(e)>> ELSE <<>>)

LEMMA MeetIsOf ==
    ASSUME NEW E, IsUniverse(E), NEW u, NEW v \in Neighbors(E, u), NEW w \in WalksAt(E, u)
    PROVE  Meets(E, u, v, w, GreedyMeet(w, v))
<1> DEFINE d1 == [w.degree EXCEPT ![v] = @ - 1]
           d2 == [d1 EXCEPT ![u] = @ - 1]
           e == IF <<u, v>> \in E THEN <<u, v>> ELSE <<v, u>>
           near == Neighbors(E, v) \ w.visited
           pushed == IF d2[v] = 0 THEN {} ELSE Entries(d2[v], d2, near)
           listed == w.sorted \o <<e>> \o (IF Backward(e) \in E THEN <<Backward(e)>> ELSE <<>>)
           heap == w.heap \cup pushed
<1>1. w \in WalkOver(E) /\ w.u = u /\ w.edges = E
    BY WalkFields DEF WalksAt
<1>2. /\ Neighbors(E, u) \subseteq Endpoints(E) /\ IsFiniteSet(Neighbors(E, u))
      /\ \A x : x \in Neighbors(E, u) <=> <<u, x>> \in E \/ <<x, u>> \in E
      /\ Neighbors(E, v) \subseteq Endpoints(E) /\ IsFiniteSet(Neighbors(E, v))
    BY NeighborsAre
<1>3. v \in Endpoints(E) /\ u \in Endpoints(E)
    BY <1>1, <1>2, WalkFields
<1>4. d1 \in [Endpoints(E) -> Int]
    BY <1>1, <1>3, WalkFields
<1>5. d2 \in [Endpoints(E) -> Int]
    BY <1>3, <1>4
<1> HIDE DEF d1, d2
<1>6. IsFiniteSet(near)
    BY <1>2, FS_Difference
<1>7. near \subseteq Endpoints(E)
    BY <1>2
<1> HIDE DEF near
<1>8. /\ pushed \in SUBSET (Int \X Int \X Endpoints(E)) /\ IsFiniteSet(pushed)
      /\ \A y \in pushed : y[3] \in Neighbors(E, v)
    <2>1. d2[v] \in Int /\ \A x \in near : d2[x] \in Int
        BY <1>3, <1>5, <1>7
    <2>2. IsFiniteSet(Entries(d2[v], d2, near))
        BY <1>6, EntriesFinite
    <2>3. Entries(d2[v], d2, near) \in SUBSET (Int \X Int \X Endpoints(E))
        BY <1>7, <2>1 DEF Entries
    <2>4. \A y \in Entries(d2[v], d2, near) : y[3] \in near
        BY DEF Entries
    <2>5. near \subseteq Neighbors(E, v)
        BY DEF near
    <2> QED
        BY <2>2, <2>3, <2>4, <2>5, FS_EmptySet
<1> HIDE DEF pushed
<1>9. /\ heap \in SUBSET (Int \X Int \X Endpoints(E)) /\ (IsFiniteSet(w.heap) => IsFiniteSet(heap))
      /\ w.heap \subseteq heap /\ \A y \in heap \ w.heap : y[3] \in Neighbors(E, v)
    BY <1>1, <1>8, WalkFields, FS_Union
<1>10. e \in E /\ listed \in Seq(E)
    <2>1. e \in E
        BY <1>2
    <2> DEFINE t == IF Backward(e) \in E THEN <<Backward(e)>> ELSE <<>>
               o == <<e>>
    <2>2. o \in Seq(E) /\ t \in Seq(E)
        BY <2>1
    <2>3. listed = w.sorted \o o \o t /\ w.sorted \in Seq(E)
        BY <1>1, WalkFields
    <2> HIDE DEF o, t, listed, e
    <2>4. w.sorted \o o \o t \in Seq(E)
        BY <2>2, <2>3
    <2> QED
        BY <2>1, <2>3, <2>4
<1>11. GreedyMeet(w, v) =
            IF v \notin w.visited THEN [w EXCEPT !.degree = d1]
            ELSE [w EXCEPT !.degree = d2, !.sorted = listed, !.heap = heap]
    <2>1. EdgeOf(w, v) = e
        BY <1>1 DEF EdgeOf
    <2>2. w.u = u /\ w.edges = E
        BY <1>1
    <2>3. [[w.degree EXCEPT ![v] = @ - 1] EXCEPT ![w.u] = @ - 1] = d2
        BY <2>2 DEF d1, d2
    <2>4. (IF d2[v] = 0 THEN {}
           ELSE {<<d2[v], d2[x], x>> : x \in Neighbors(w.edges, v) \ w.visited}) = pushed
        BY <2>2 DEF pushed, near, Entries
    <2>5. w.sorted \o <<EdgeOf(w, v)>> \o
            (IF Backward(EdgeOf(w, v)) \in w.edges THEN <<Backward(EdgeOf(w, v))>> ELSE <<>>) = listed
        BY <2>1, <2>2
    <2> HIDE DEF listed
    <2> QED
        BY <2>3, <2>4, <2>5 DEF GreedyMeet, d1
<1> HIDE DEF listed, heap
<1>12. CASE v \notin w.visited
    <2>1. GreedyMeet(w, v) = [w EXCEPT !.degree = d1]
        BY <1>11, <1>12
    <2>2. [w EXCEPT !.degree = d1] \in WalkOver(E)
        BY <1>1, <1>4 DEF WalkOver
    <2>3. LET m == [w EXCEPT !.degree = d1]
          IN  /\ m.u = w.u /\ m.kind = w.kind /\ m.error = w.error /\ m.visited = w.visited
              /\ m.heap = w.heap /\ m.sorted = w.sorted
        BY <1>1 DEF WalkOver
    <2> QED
        BY <1>1, <1>12, <2>1, <2>2, <2>3 DEF WalksAt, Meets
<1>13. CASE v \in w.visited
    <2> DEFINE m == [w EXCEPT !.degree = d2, !.sorted = listed, !.heap = heap]
    <2>1. GreedyMeet(w, v) = m
        BY <1>11, <1>13
    <2>2. m \in WalkOver(E)
        BY <1>1, <1>5, <1>9, <1>10 DEF WalkOver
    <2>3. /\ m.u = w.u /\ m.kind = w.kind /\ m.error = w.error /\ m.visited = w.visited
          /\ m.heap = heap /\ m.sorted = listed
        BY <1>1 DEF WalkOver
    <2> HIDE DEF m
    <2> QED
        BY <1>1, <1>9, <1>13, <2>1, <2>2, <2>3 DEF WalksAt, listed, e, Meets
<1> QED
    BY <1>12, <1>13

LEMMA GreedyMeetKeeps ==
    ASSUME NEW E, IsUniverse(E), NEW S, NEW u, u \notin S, NEW M, M \subseteq S \cup {u},
           NEW v \in Neighbors(E, u), v \notin M, NEW w, GreedyAt(E, S, u, M, w)
    PROVE  GreedyAt(E, S, u, M \cup ({v} \cap (S \cup {u})), GreedyMeet(w, v))
<1> DEFINE m == GreedyMeet(w, v)
           e == IF <<u, v>> \in E THEN <<u, v>> ELSE <<v, u>>
           listed == w.sorted \o <<e>> \o (IF Backward(e) \in E THEN <<Backward(e)>> ELSE <<>>)
           D == Among(E, S) \cup Between(E, u, M)
<1>1. /\ w \in WalksAt(E, u) /\ w.kind = "greedy" /\ w.error = "walking"
      /\ w.visited = S \cup {u} /\ IsFiniteSet(w.heap) /\ ListsAll(E, D, w.sorted)
    BY DEF GreedyAt
<1>2. /\ m \in WalksAt(E, u) /\ m.kind = "greedy" /\ m.error = "walking"
      /\ m.visited = w.visited /\ IsFiniteSet(m.heap)
      /\ v \notin w.visited => m.sorted = w.sorted
      /\ v \in w.visited => m.sorted = listed
    <2>1. Meets(E, u, v, w, m)
        BY <1>1, MeetIsOf
    <2> QED
        BY <1>1, <2>1 DEF Meets
<1> HIDE DEF m
<1>3. CASE v \notin S \cup {u}
    <2>1. M \cup ({v} \cap (S \cup {u})) = M
        BY <1>3
    <2> QED
        BY <1>1, <1>2, <1>3, <2>1 DEF GreedyAt, m
<1>4. CASE v \in S \cup {u}
    <2>1. M \cup ({v} \cap (S \cup {u})) = M \cup {v}
        BY <1>4
    <2>2. Between(E, u, M \cup {v}) = Between(E, u, M) \cup Between(E, u, {v})
        BY DEF Between
    <2>3. <<u, v>> \in E \/ <<v, u>> \in E
        BY NeighborsAre
    <2>4. <<u, v>> \notin D /\ <<v, u>> \notin D
        <3>1. <<u, v>> \notin Among(E, S) /\ <<v, u>> \notin Among(E, S)
            BY DEF Among
        <3>2. \A x \in M : x # v
            OBVIOUS
        <3>3. <<u, v>> \notin Between(E, u, M) /\ <<v, u>> \notin Between(E, u, M)
            BY <3>2 DEF Between
        <3> QED
            BY <3>1, <3>3
    <2>5. D \in SUBSET E
        BY DEF Among, Between
    <2> HIDE DEF D
    <2>6. ListsAll(E, D \cup Between(E, u, {v}), listed)
        BY <1>1, <2>3, <2>4, <2>5, MeetLists
    <2>7. D \cup Between(E, u, {v}) = Among(E, S) \cup Between(E, u, M \cup {v})
        BY <2>2 DEF D
    <2> QED
        BY <1>1, <1>2, <1>4, <2>1, <2>6, <2>7 DEF GreedyAt, m
<1> QED
    BY <1>3, <1>4

\* The greedy walk as it meets the neighbours of a vertex.
MeetTurn(E, u, near) ==
    [p \in WalksAt(E, u) \X (1..Len(near)) |-> GreedyMeet(p[1], near[p[2]])]

LEMMA MeetRun ==
    ASSUME NEW E, IsUniverse(E), NEW u, NEW near \in Seq(Neighbors(E, u)), NEW w \in WalksAt(E, u)
    PROVE  \E r : /\ Run(r, w, MeetTurn(E, u, near), Len(near), WalksAt(E, u))
                  /\ FoldLeft(GreedyMeet, w, near) = r[Len(near)]
<1> DEFINE n == Len(near)
           A == WalksAt(E, u)
           next == MeetTurn(E, u, near)
           turn == CHOOSE h : h = [x \in SUBSET DOMAIN near |->
                        IF x = {} THEN w ELSE GreedyMeet(h[x \ {Max(x)}], near[Max(x)])]
<1>1. n \in Nat /\ DOMAIN near = 1..n /\ w \in A
    OBVIOUS
<1>2. \A a \in A, i \in 1..n : GreedyMeet(a, near[i]) \in A
    <2> TAKE a \in A, i \in 1..n
    <2>1. near[i] \in Neighbors(E, u)
        OBVIOUS
    <2>2. Meets(E, u, near[i], a, GreedyMeet(a, near[i]))
        BY <2>1, MeetIsOf
    <2> QED
        BY <2>2 DEF Meets
<1>3. \A a \in A, i \in 1..n : next[<<a, i>>] = GreedyMeet(a, near[i])
    BY DEF MeetTurn
<1>4. IsTurn(next, n, A)
    BY <1>2 DEF IsTurn, MeetTurn
<1>5. FoldLeft(GreedyMeet, w, near) = turn[DOMAIN near]
    BY DEF FoldLeft, MapThenFoldSet
<1> HIDE DEF n, A, next, turn
<1>6. PICK h : FoldsAs(h, w, next, n, A)
    BY <1>1, <1>4, FoldRuns
<1>7. \A x \in SUBSET (1..n) : x # {} => Max(x) \in 1..n /\ x \ {Max(x)} \in SUBSET (1..n)
    BY <1>1, LastOfSet
<1>8. h = [x \in SUBSET DOMAIN near |->
            IF x = {} THEN w ELSE GreedyMeet(h[x \ {Max(x)}], near[Max(x)])]
    <2>1. /\ h \in [SUBSET (1..n) -> A]
          /\ \A x \in SUBSET (1..n) : h[x] = FoldTurn(w, next, h, x)
        BY <1>6 DEF FoldsAs
    <2> QED
        BY <1>1, <1>3, <1>7, <2>1 DEF FoldTurn
<1>9. turn = [x \in SUBSET DOMAIN near |->
                IF x = {} THEN w ELSE GreedyMeet(turn[x \ {Max(x)}], near[Max(x)])]
    BY <1>8, Zenon DEF turn
<1>10. Loops(turn, w, next, n, A)
    BY <1>1, <1>3, <1>7, <1>9 DEF Loops
<1>11. \E r : Run(r, w, next, n, A) /\ turn[1..n] = r[n]
    BY <1>1, <1>4, <1>10, LoopIsRun
<1> QED
    BY <1>1, <1>5, <1>11 DEF n, A, next

FirstOf(near, k) == {near[j] : j \in 1..k}

LEMMA FirstOfSteps ==
    ASSUME NEW X, NEW s \in Seq(X), IsInjective(s)
    PROVE  /\ FirstOf(s, 0) = {} /\ FirstOf(s, Len(s)) = ToSet(s)
           /\ \A k \in 0..(Len(s) - 1) :
                FirstOf(s, k + 1) = FirstOf(s, k) \cup {s[k + 1]} /\ s[k + 1] \notin FirstOf(s, k)
<1>1. DOMAIN s = 1..Len(s) /\ Len(s) \in Nat
    OBVIOUS
<1>2. FirstOf(s, 0) = {}
    BY DEF FirstOf
<1>3. FirstOf(s, Len(s)) = ToSet(s)
    BY <1>1 DEF FirstOf, ToSet
<1>4. ASSUME NEW k \in 0..(Len(s) - 1)
      PROVE  FirstOf(s, k + 1) = FirstOf(s, k) \cup {s[k + 1]} /\ s[k + 1] \notin FirstOf(s, k)
    <2>1. \A j : j \in 1..(k + 1) <=> j \in 1..k \/ j = k + 1
        BY <1>1
    <2>2. k + 1 \in DOMAIN s /\ \A j \in 1..k : j \in DOMAIN s /\ j # k + 1
        BY <1>1
    <2>3. \A j \in 1..k : s[j] # s[k + 1]
        BY <2>2 DEF IsInjective
    <2> QED
        BY <2>1, <2>3 DEF FirstOf
<1> QED
    BY <1>2, <1>3, <1>4

\* The greedy walk when it has met all the neighbours of the vertex it visits.
LEMMA MeetsAll ==
    ASSUME NEW E, IsUniverse(E), NEW S, NEW u, u \notin S, NEW w, GreedyAt(E, S, u, {}, w)
    PROVE  GreedyAt(E, S, u, Neighbors(E, u) \cap (S \cup {u}),
                    FoldLeft(GreedyMeet, w, Ascending(Neighbors(E, u))))
<1> DEFINE N == Neighbors(E, u)
           near == Ascending(N)
           n == Len(near)
           A == WalksAt(E, u)
           next == MeetTurn(E, u, near)
           V == S \cup {u}
           Good == {p \in (0..n) \X A : GreedyAt(E, S, u, FirstOf(near, p[1]) \cap V, p[2])}
<1>1. /\ near \in Seq(N) /\ IsInjective(near) /\ ToSet(near) = N
    BY NeighborsAre, AscendingIs
<1>2. n \in Nat /\ DOMAIN near = 1..n /\ 0 \in 0..n /\ n \in 0..n
    BY <1>1
<1>3. /\ FirstOf(near, 0) = {} /\ FirstOf(near, n) = N
      /\ \A k \in 0..(n - 1) : /\ FirstOf(near, k + 1) = FirstOf(near, k) \cup {near[k + 1]}
                               /\ near[k + 1] \notin FirstOf(near, k)
    BY <1>1, FirstOfSteps
<1>4. w \in A
    BY DEF GreedyAt
<1>5. PICK r : Run(r, w, next, n, A) /\ FoldLeft(GreedyMeet, w, near) = r[n]
    BY <1>1, <1>4, MeetRun
<1>6. \A a \in A, i \in 1..n : next[<<a, i>>] = GreedyMeet(a, near[i]) /\ near[i] \in N
    BY <1>1 DEF MeetTurn
<1>7. ASSUME NEW k \in 0..(n - 1), NEW a \in A, GreedyAt(E, S, u, FirstOf(near, k) \cap V, a)
      PROVE  /\ next[<<a, k + 1>>] \in A
             /\ GreedyAt(E, S, u, FirstOf(near, k + 1) \cap V, next[<<a, k + 1>>])
    <2> DEFINE v == near[k + 1]
               M == FirstOf(near, k) \cap V
               m == GreedyMeet(a, v)
    <2>1. k + 1 \in 1..n
        BY <1>2
    <2>2. v \in N /\ next[<<a, k + 1>>] = m
        BY <1>6, <2>1
    <2>3. M \subseteq V /\ v \notin M
        BY <1>3
    <2>4. GreedyAt(E, S, u, M \cup ({v} \cap V), m)
        BY <1>7, <2>2, <2>3, GreedyMeetKeeps
    <2>5. M \cup ({v} \cap V) = FirstOf(near, k + 1) \cap V
        BY <1>3
    <2> HIDE DEF m, M, v
    <2> QED
        BY <2>2, <2>4, <2>5 DEF GreedyAt
<1>8. GreedyAt(E, S, u, FirstOf(near, 0) \cap V, w)
    <2>1. FirstOf(near, 0) \cap V = {}
        BY <1>3
    <2> QED
        BY <2>1
<1> HIDE DEF n, A, next, near, N
<1>9. KeptBy(Good, w, next, n, A)
    <2>1. <<0, w>> \in Good
        BY <1>2, <1>4, <1>8
    <2>2. ASSUME NEW k \in 0..(n - 1), NEW a \in A, <<k, a>> \in Good
          PROVE  <<k + 1, next[<<a, k + 1>>]>> \in Good
        <3>1. GreedyAt(E, S, u, FirstOf(near, k) \cap V, a)
            BY <2>2
        <3>2. k + 1 \in 0..n
            BY <1>2
        <3> QED
            BY <1>7, <3>1, <3>2
    <2> HIDE DEF Good
    <2> QED
        BY <2>1, <2>2 DEF KeptBy
<1> HIDE DEF Good
<1>10. r[n] \in A /\ <<n, r[n]>> \in Good
    BY <1>2, <1>5, <1>9, RunKeeps
<1>11. GreedyAt(E, S, u, FirstOf(near, n) \cap V, r[n])
    BY <1>10 DEF Good
<1> QED
    BY <1>3, <1>5, <1>11 DEF near, N

GathersEdges(E, S, u) ==
    Among(E, S) \cup Between(E, u, Neighbors(E, u) \cap (S \cup {u})) = Among(E, S \cup {u})

LEMMA AmongMore ==
    ASSUME NEW E, IsUniverse(E), NEW S, NEW u
    PROVE  /\ GathersEdges(E, S, u)
           /\ Endpoints(E) \subseteq S => Among(E, S) = E
<1>1. \A e \in E : e = <<e[1], e[2]>> /\ e[1] \in Endpoints(E) /\ e[2] \in Endpoints(E)
    BY UniverseFacts
<1>2. \A v : v \in Neighbors(E, u) <=> <<u, v>> \in E \/ <<v, u>> \in E
    BY NeighborsAre
<1> DEFINE M == Neighbors(E, u) \cap (S \cup {u})
<1>3. ASSUME NEW e \in E PROVE e \in Among(E, S \cup {u}) <=> e \in Among(E, S) \/ e \in Between(E, u, M)
    <2>1. e = <<e[1], e[2]>>
        BY <1>1
    <2>2. e \in Between(E, u, M) <=> (e[1] = u /\ e[2] \in M) \/ (e[2] = u /\ e[1] \in M)
        <3> HIDE DEF M
        <3> QED
            BY <2>1 DEF Between
    <2>3. e[1] = u => e[2] \in Neighbors(E, u)
        BY <1>2, <2>1
    <2>4. e[2] = u => e[1] \in Neighbors(E, u)
        BY <1>2, <2>1
    <2> QED
        BY <2>2, <2>3, <2>4 DEF Among
<1>4. Among(E, S \cup {u}) \subseteq E /\ Among(E, S) \subseteq E /\ Between(E, u, M) \subseteq E
    BY DEF Among, Between
<1>5. Among(E, S) \cup Between(E, u, M) = Among(E, S \cup {u})
    <2> HIDE DEF M
    <2> QED
        BY <1>3, <1>4
<1>6. Endpoints(E) \subseteq S => Among(E, S) = E
    BY <1>1 DEF Among
<1> QED
    BY <1>5, <1>6 DEF GathersEdges

\* A greedy walk that goes on, one that has ended.
GreedyOn(E, w) ==
    /\ w \in WalkOver(E) /\ w.kind = "greedy" /\ w.error = "walking" /\ w.u \notin w.visited
    /\ IsFiniteSet(w.heap) /\ ListsAll(E, Among(E, w.visited), w.sorted)

GreedyOver(E, w) == w.kind = "greedy" /\ w.error = "none" /\ ListsAll(E, E, w.sorted)

LEMMA UnvisitedIs ==
    ASSUME NEW E, IsUniverse(E), NEW w \in WalkOver(E), Unvisited(w) # {}
    PROVE  Min(Unvisited(w)) \in Unvisited(w) /\ Min(Unvisited(w)) \in Endpoints(E)
<1>1. Unvisited(w) = Endpoints(E) \ w.visited /\ Endpoints(E) \subseteq Nat
    BY WalkFields, UniverseFacts DEF Unvisited
<1>2. Unvisited(w) \in SUBSET Nat
    BY <1>1
<1>3. Min(Unvisited(w)) \in Unvisited(w)
    BY <1>2, LeastIs
<1> QED
    BY <1>1, <1>3

\* The next vertex has not been visited, whether the heap has one or not.
LEMMA NextIsNew ==
    ASSUME NEW E, IsUniverse(E), NEW w \in WalkOver(E), w.kind = "greedy", w.error = "walking",
           IsFiniteSet(w.heap), ListsAll(E, Among(E, w.visited), w.sorted), Unvisited(w) # {}
    PROVE  GreedyOn(E, NextFromHeap(w, w.heap))
<1> DEFINE new == {x \in w.heap : x[3] \notin w.visited}
           first == CHOOSE x \in new : \A y \in new : x = y \/ Before(x, y)
           later == {y \in w.heap : Before(first, y)}
           least == Min(Unvisited(w))
<1>1. Unvisited(w) = Endpoints(E) \ w.visited /\ Endpoints(E) \subseteq Nat
    BY WalkFields, UniverseFacts DEF Unvisited
<1>2. least \in Endpoints(E) /\ least \notin w.visited
    BY <1>1, UnvisitedIs
<1>3. w.heap \in SUBSET (Int \X Int \X Endpoints(E))
    BY WalkFields
<1>4. new \in SUBSET w.heap /\ IsFiniteSet(new)
    BY FS_Subset
<1>5. ASSUME new # {} PROVE first \in new
    <2>1. new \in SUBSET (Int \X Int \X Int)
        BY <1>1, <1>3
    <2>2. \E x \in new : \A y \in new : x = y \/ Before(x, y)
        BY <1>4, <1>5, <2>1, HeapHasFirst
    <2> QED
        BY <2>2
<1>6. later \in SUBSET w.heap /\ IsFiniteSet(later)
    BY FS_Subset
<1>7. NextFromHeap(w, w.heap) =
        IF new = {} THEN [w EXCEPT !.heap = {}, !.u = least]
        ELSE [w EXCEPT !.heap = later, !.u = first[3]]
    BY DEF NextFromHeap
<1>8. new # {} => first[3] \in Endpoints(E) /\ first[3] \notin w.visited
    <2> SUFFICES ASSUME new # {} PROVE first[3] \in Endpoints(E) /\ first[3] \notin w.visited
        OBVIOUS
    <2>1. first \in w.heap /\ first[3] \notin w.visited
        BY <1>5
    <2> HIDE DEF first
    <2>2. first \in Int \X Int \X Endpoints(E)
        BY <1>3, <2>1
    <2> QED
        BY <2>1, <2>2
<1> HIDE DEF later, first, least, new
<1>9. ASSUME NEW H \in SUBSET w.heap, IsFiniteSet(H), NEW v \in Endpoints(E), v \notin w.visited
      PROVE  GreedyOn(E, [w EXCEPT !.heap = H, !.u = v])
    <2> DEFINE t == [w EXCEPT !.heap = H, !.u = v]
    <2>1. H \in SUBSET (Int \X Int \X Endpoints(E))
        BY <1>3
    <2>2. t \in WalkOver(E)
        BY <2>1, <1>9 DEF WalkOver
    <2>3. /\ t.kind = w.kind /\ t.error = w.error /\ t.visited = w.visited /\ t.sorted = w.sorted
          /\ t.heap = H /\ t.u = v
        BY DEF WalkOver
    <2> HIDE DEF t
    <2> QED
        BY <1>9, <2>2, <2>3 DEF GreedyOn, t
<1>10. {} \in SUBSET w.heap /\ IsFiniteSet({})
    BY FS_EmptySet
<1> QED
    BY <1>2, <1>6, <1>7, <1>8, <1>9, <1>10

\* What is left of a visit when the neighbours have been met.
PushedThen(w, met, near) ==
    {<<met.degree[w.u], met.degree[v], v>> : v \in Range(near) \ met.visited}
AfterMeeting(met, pushed) ==
    LET left == [met EXCEPT !.heap = @ \cup pushed]
    IN  IF Unvisited(left) = {} THEN Ended(left) ELSE NextFromHeap(left, left.heap)

LEMMA GreedyVisits ==
    ASSUME NEW E, IsUniverse(E), NEW w, GreedyOn(E, w)
    PROVE  GreedyOn(E, VisitGreedy(w)) \/ GreedyOver(E, VisitGreedy(w))
<1> DEFINE u == w.u
           S == w.visited
           V == S \cup {u}
           b == [w EXCEPT !.visited = @ \cup {w.u}]
           N == Neighbors(E, u)
           near == Ascending(N)
           met == FoldLeft(GreedyMeet, b, near)
           far == N \ met.visited
           pushed == Entries(met.degree[u], met.degree, far)
           left == [met EXCEPT !.heap = @ \cup pushed]
<1>1. /\ w \in WalkOver(E) /\ w.kind = "greedy" /\ w.error = "walking" /\ u \notin S
      /\ IsFiniteSet(w.heap) /\ ListsAll(E, Among(E, S), w.sorted)
    BY DEF GreedyOn
<1>2. w.edges = E /\ u \in Endpoints(E) /\ S \in SUBSET Endpoints(E)
    BY <1>1, WalkFields
<1>3. V \in SUBSET Endpoints(E)
    BY <1>2
<1>4. /\ b \in WalkOver(E) /\ b.u = u /\ b.kind = "greedy" /\ b.error = "walking" /\ b.visited = V
      /\ b.heap = w.heap /\ b.sorted = w.sorted
    <2>1. b = [w EXCEPT !.visited = V]
        BY <1>1 DEF WalkOver
    <2>2. [w EXCEPT !.visited = V] \in WalkOver(E)
        BY <1>1, <1>3 DEF WalkOver
    <2>3. LET t == [w EXCEPT !.visited = V]
          IN  /\ t.u = w.u /\ t.kind = w.kind /\ t.error = w.error /\ t.visited = V
              /\ t.heap = w.heap /\ t.sorted = w.sorted
        BY <1>1 DEF WalkOver
    <2> QED
        BY <1>1, <2>1, <2>2, <2>3
<1>5. /\ N \subseteq Endpoints(E) /\ IsFiniteSet(N) /\ N \subseteq Nat
    BY NeighborsAre
<1>6. Range(near) = N
    <2>1. ToSet(near) = N
        BY <1>5, AscendingIs
    <2> QED
        BY <2>1 DEF ToSet, Range
<1> HIDE DEF b, near
<1>7. GreedyAt(E, S, u, {}, b)
    <2>1. Between(E, u, {}) = {}
        BY DEF Between
    <2>2. Among(E, S) \cup Between(E, u, {}) = Among(E, S)
        BY <2>1
    <2> QED
        BY <1>1, <1>4, <2>2 DEF GreedyAt, WalksAt
<1>8. GreedyAt(E, S, u, N \cap V, met)
    BY <1>1, <1>7, MeetsAll DEF near
<1> HIDE DEF met
<1>9. /\ met \in WalkOver(E) /\ met.u = u /\ met.kind = "greedy" /\ met.error = "walking"
      /\ met.visited = V /\ IsFiniteSet(met.heap) /\ ListsAll(E, Among(E, V), met.sorted)
    <2>1. Among(E, S) \cup Between(E, u, N \cap V) = Among(E, V)
        <3>1. GathersEdges(E, S, u)
            BY AmongMore
        <3> QED
            BY <3>1 DEF GathersEdges
    <2> QED
        BY <1>8, <2>1 DEF GreedyAt, WalksAt
<1>10. met.degree \in [Endpoints(E) -> Int] /\ met.heap \in SUBSET (Int \X Int \X Endpoints(E))
    BY <1>9, WalkFields
<1>11. pushed \in SUBSET (Int \X Int \X Endpoints(E)) /\ IsFiniteSet(pushed)
    <2>1. met.degree[u] \in Int /\ \A v \in far : met.degree[v] \in Int
        BY <1>2, <1>5, <1>10
    <2>2. IsFiniteSet(far) /\ far \subseteq Endpoints(E)
        BY <1>5, FS_Difference
    <2> HIDE DEF far
    <2>3. pushed \in SUBSET (Int \X Int \X Endpoints(E))
        BY <2>1, <2>2 DEF Entries
    <2> QED
        BY <2>2, <2>3, EntriesFinite
<1> DEFINE heap == met.heap \cup pushed
<1>12. heap \in SUBSET (Int \X Int \X Endpoints(E)) /\ IsFiniteSet(heap)
    BY <1>9, <1>10, <1>11, FS_Union
<1>13. VisitGreedy(w) = IF Unvisited(left) = {} THEN Ended(left) ELSE NextFromHeap(left, left.heap)
    <2>1. PushedThen(w, met, near) = pushed
        BY <1>6 DEF Entries, PushedThen
    <2>2. Ascending(Neighbors(w.edges, w.u)) = near
        BY <1>2 DEF near
    <2>3. VisitGreedy(w) =
            AfterMeeting(FoldLeft(GreedyMeet, b, Ascending(Neighbors(w.edges, w.u))),
                         PushedThen(w, FoldLeft(GreedyMeet, b, Ascending(Neighbors(w.edges, w.u))),
                                    Ascending(Neighbors(w.edges, w.u))))
        BY DEF VisitGreedy, AfterMeeting, PushedThen, b
    <2> HIDE DEF pushed
    <2>4. VisitGreedy(w) = AfterMeeting(met, pushed)
        BY <2>1, <2>2, <2>3 DEF met
    <2> QED
        BY <2>4 DEF AfterMeeting
<1>14. left = [met EXCEPT !.heap = heap]
    BY <1>9 DEF WalkOver
<1> HIDE DEF heap, left, pushed, far, V, S, u, N
<1>15. /\ left \in WalkOver(E) /\ left.kind = "greedy" /\ left.error = "walking"
       /\ left.visited = V /\ IsFiniteSet(left.heap) /\ ListsAll(E, Among(E, V), left.sorted)
    <2>1. [met EXCEPT !.heap = heap] \in WalkOver(E)
        BY <1>9, <1>12 DEF WalkOver
    <2>2. LET t == [met EXCEPT !.heap = heap]
          IN  /\ t.kind = met.kind /\ t.error = met.error /\ t.visited = met.visited
              /\ t.heap = heap /\ t.sorted = met.sorted
        BY <1>9 DEF WalkOver
    <2> QED
        BY <1>9, <1>12, <1>14, <2>1, <2>2
<1>16. CASE Unvisited(left) # {}
    <2>1. GreedyOn(E, NextFromHeap(left, left.heap))
        BY <1>15, <1>16, NextIsNew
    <2> QED
        BY <1>13, <1>16, <2>1
<1>17. CASE Unvisited(left) = {}
    <2>1. left.edges = E /\ left.sorted \in Seq(E)
        BY <1>15, WalkFields
    <2>2. Endpoints(E) \subseteq V
        BY <1>15, <1>17, <2>1 DEF Unvisited
    <2>3. Among(E, V) = E
        BY <2>2, AmongMore
    <2>4. ToSet(left.sorted) = left.edges
        BY <1>15, <2>1, <2>3 DEF ListsAll
    <2>5. Ended(left) = [left EXCEPT !.error = "none"]
        BY <2>4 DEF Ended
    <2>6. LET t == [left EXCEPT !.error = "none"]
          IN  t.kind = left.kind /\ t.error = "none" /\ t.sorted = left.sorted
        BY <1>15 DEF WalkOver
    <2>7. GreedyOver(E, Ended(left))
        BY <1>15, <2>3, <2>5, <2>6 DEF GreedyOver
    <2> QED
        BY <1>13, <1>17, <2>7
<1> QED
    BY <1>16, <1>17

\* The walks with a queue or a stack list one edge between any two vertices that
\* are visited.
ListsOnce(E, S, s) ==
    /\ s \in Seq(E) /\ IsInjective(s) /\ ToSet(s) \subseteq Among(E, S)
    /\ \A e \in Among(E, S) : e \in ToSet(s) \/ Backward(e) \in ToSet(s)
    /\ \A e \in ToSet(s) : Backward(e) \in ToSet(s) => Backward(e) = e

EdgeBetween(E, u, v) == IF <<u, v>> \in E THEN <<u, v>> ELSE <<v, u>>
EdgesMet(E, u, met) == [k \in DOMAIN met |-> EdgeBetween(E, u, met[k])]

\* They are in t, each once.
ListEdgesTo(E, u, M, t) ==
    /\ t \in Seq(E) /\ IsInjective(t)
    /\ \A e : e \in ToSet(t) <=> \E v \in M : e = EdgeBetween(E, u, v)

LEMMA EdgesMetAre ==
    ASSUME NEW E, IsUniverse(E), NEW u, NEW M, M \subseteq Neighbors(E, u),
           NEW met \in Seq(M), IsInjective(met), ToSet(met) = M
    PROVE  ListEdgesTo(E, u, M, EdgesMet(E, u, met))
<1> DEFINE t == EdgesMet(E, u, met)
<1>1. DOMAIN met = 1..Len(met) /\ Len(met) \in Nat /\ \A k \in 1..Len(met) : met[k] \in M
    OBVIOUS
<1>2. \A v \in M : <<u, v>> \in E \/ <<v, u>> \in E
    BY NeighborsAre
<1>3. \A v \in M : EdgeBetween(E, u, v) \in E
    BY <1>2 DEF EdgeBetween
<1>4. t \in Seq(E) /\ DOMAIN t = 1..Len(met) /\ \A k \in 1..Len(met) : t[k] = EdgeBetween(E, u, met[k])
    BY <1>1, <1>3 DEF EdgesMet
<1> HIDE DEF t
<1>5. IsInjective(t)
    <2>1. \A v, x : EdgeBetween(E, u, v) = EdgeBetween(E, u, x) => v = x
        BY DEF EdgeBetween
    <2>2. ASSUME NEW a \in DOMAIN t, NEW b \in DOMAIN t, t[a] = t[b] PROVE a = b
        <3>1. met[a] = met[b] /\ a \in DOMAIN met /\ b \in DOMAIN met
            BY <1>1, <1>4, <2>1, <2>2
        <3> QED
            BY <3>1 DEF IsInjective
    <2> QED
        BY <2>2 DEF IsInjective
<1>6. \A e : e \in ToSet(t) <=> \E v \in M : e = EdgeBetween(E, u, v)
    <2> TAKE e
    <2>1. ASSUME e \in ToSet(t) PROVE \E v \in M : e = EdgeBetween(E, u, v)
        <3>1. PICK k \in DOMAIN t : e = t[k]
            BY <2>1 DEF ToSet
        <3> QED
            BY <1>1, <1>4, <3>1
    <2>2. ASSUME NEW v \in M, e = EdgeBetween(E, u, v) PROVE e \in ToSet(t)
        <3>1. PICK k \in DOMAIN met : v = met[k]
            BY <2>2 DEF ToSet
        <3> QED
            BY <1>1, <1>4, <2>2, <3>1 DEF ToSet
    <2> QED
        BY <2>1, <2>2
<1> QED
    BY <1>4, <1>5, <1>6 DEF t, ListEdgesTo

LEMMA VisitLists ==
    ASSUME NEW E, IsUniverse(E), NEW S, NEW u, u \notin S, NEW s, ListsOnce(E, S, s),
           NEW met \in Seq(Neighbors(E, u) \cap (S \cup {u})), IsInjective(met),
           ToSet(met) = Neighbors(E, u) \cap (S \cup {u})
    PROVE  ListsOnce(E, S \cup {u}, s \o EdgesMet(E, u, met))
<1> DEFINE V == S \cup {u}
           M == Neighbors(E, u) \cap V
           t == EdgesMet(E, u, met)
           p == s \o t
           edge(v) == EdgeBetween(E, u, v)
<1>1. /\ t \in Seq(E) /\ IsInjective(t) /\ \A e : e \in ToSet(t) <=> \E v \in M : e = edge(v)
    <2>1. /\ M \subseteq Neighbors(E, u) /\ met \in Seq(M) /\ IsInjective(met) /\ ToSet(met) = M
        OBVIOUS
    <2> HIDE DEF M
    <2>2. ListEdgesTo(E, u, M, t)
        BY <2>1, EdgesMetAre
    <2> QED
        BY <2>2 DEF ListEdgesTo
<1>2. /\ s \in Seq(E) /\ IsInjective(s) /\ ToSet(s) \subseteq Among(E, S)
      /\ \A e \in Among(E, S) : e \in ToSet(s) \/ Backward(e) \in ToSet(s)
      /\ \A e \in ToSet(s) : Backward(e) \in ToSet(s) => Backward(e) = e
    BY DEF ListsOnce
<1>3. \A e \in E : e = <<e[1], e[2]>>
    BY UniverseFacts
<1>4. \A v : v \in M <=> v \in V /\ (<<u, v>> \in E \/ <<v, u>> \in E)
    BY NeighborsAre
<1> HIDE DEF M, t
<1>5. ASSUME NEW v \in M
      PROVE  /\ edge(v) \in E /\ edge(v)[1] \in V /\ edge(v)[2] \in V
             /\ edge(v)[1] = u \/ edge(v)[2] = u
             /\ edge(v) = <<u, v>> \/ edge(v) = <<v, u>>
    BY <1>4 DEF EdgeBetween
<1>6. \A e \in Among(E, S) : e \in E /\ e[1] \in S /\ e[2] \in S /\ e[1] # u /\ e[2] # u
    BY DEF Among
<1>7. ToSet(s) \cap ToSet(t) = {}
    BY <1>1, <1>2, <1>5, <1>6
<1>8. p \in Seq(E) /\ ToSet(p) = ToSet(s) \cup ToSet(t) /\ IsInjective(p)
    BY <1>1, <1>2, <1>7, JoinedSequences
<1> HIDE DEF p, edge
<1>9. ToSet(p) \subseteq Among(E, V)
    <2>1. \A e \in ToSet(t) : e \in E /\ e[1] \in V /\ e[2] \in V
        BY <1>1, <1>5
    <2>2. \A e \in ToSet(s) : e \in E /\ e[1] \in V /\ e[2] \in V
        BY <1>2, <1>6
    <2> QED
        BY <1>8, <2>1, <2>2 DEF Among
<1>10. ASSUME NEW e \in Among(E, V) PROVE e \in ToSet(p) \/ Backward(e) \in ToSet(p)
    <2>1. e \in E /\ e = <<e[1], e[2]>> /\ e[1] \in V /\ e[2] \in V
        BY <1>3 DEF Among
    <2>2. CASE e[1] \in S /\ e[2] \in S
        BY <1>2, <1>8, <2>1, <2>2 DEF Among
    <2>3. CASE e[1] = u
        <3>1. e[2] \in M /\ edge(e[2]) = e
            BY <1>4, <2>1, <2>3 DEF edge, EdgeBetween
        <3> QED
            BY <1>1, <1>8, <3>1
    <2>4. CASE e[2] = u
        <3>1. e[1] \in M
            BY <1>4, <2>1, <2>4
        <3>2. edge(e[1]) = e \/ edge(e[1]) = Backward(e)
            BY <2>1, <2>4 DEF edge, EdgeBetween, Backward
        <3> QED
            BY <1>1, <1>8, <3>1, <3>2
    <2> QED
        BY <2>1, <2>2, <2>3, <2>4
<1>11. ASSUME NEW e \in ToSet(p), Backward(e) \in ToSet(p) PROVE Backward(e) = e
    <2>1. Backward(e)[1] = e[2] /\ Backward(e)[2] = e[1]
        BY DEF Backward
    <2>2. CASE e \in ToSet(s)
        <3>1. Backward(e) \notin ToSet(t)
            BY <1>1, <1>2, <1>5, <1>6, <2>1, <2>2
        <3> QED
            BY <1>2, <1>8, <1>11, <2>2, <3>1
    <2>3. CASE e \in ToSet(t)
        <3>1. PICK v \in M : e = edge(v)
            BY <1>1, <2>3
        <3>2. Backward(e) \notin ToSet(s)
            <4>1. e[1] = u \/ e[2] = u
                BY <1>5, <3>1
            <4> QED
                BY <1>2, <1>6, <2>1, <4>1
        <3>3. PICK x \in M : Backward(e) = edge(x)
            BY <1>1, <1>8, <1>11, <3>2
        <3>4. (e = <<u, v>> \/ e = <<v, u>>) /\ (Backward(e) = <<u, x>> \/ Backward(e) = <<x, u>>)
            BY <1>5, <3>1, <3>3
        <3>5. v = x
            BY <2>1, <3>4
        <3> QED
            BY <3>1, <3>3, <3>5
    <2> QED
        BY <1>8, <2>2, <2>3
<1> QED
    BY <1>8, <1>9, <1>10, <1>11 DEF ListsOnce, p, t

\* The vertices that wait lose the one that is taken.
LEMMA HeadGoes ==
    ASSUME NEW X, NEW s \in Seq(X), s # <<>>, IsInjective(s)
    PROVE  /\ Head(s) \in ToSet(s) /\ Tail(s) \in Seq(X) /\ IsInjective(Tail(s))
           /\ ToSet(Tail(s)) \subseteq ToSet(s) \ {Head(s)}
<1>1. /\ DOMAIN s = 1..Len(s) /\ Len(s) \in Nat /\ 1 \in DOMAIN s /\ Head(s) = s[1]
      /\ Tail(s) \in Seq(X) /\ DOMAIN Tail(s) = 1..(Len(s) - 1)
      /\ \A k \in 1..(Len(s) - 1) : Tail(s)[k] = s[k + 1]
    OBVIOUS
<1>2. \A k \in 1..(Len(s) - 1) : k + 1 \in DOMAIN s /\ k + 1 # 1
    BY <1>1
<1>3. ToSet(Tail(s)) \subseteq ToSet(s) \ {Head(s)}
    BY <1>1, <1>2 DEF ToSet, IsInjective
<1>4. ASSUME NEW a \in DOMAIN Tail(s), NEW b \in DOMAIN Tail(s), Tail(s)[a] = Tail(s)[b]
      PROVE  a = b
    <2>1. a \in Int /\ b \in Int /\ s[a + 1] = s[b + 1]
        BY <1>1, <1>4
    <2>2. a + 1 = b + 1
        BY <1>1, <1>2, <2>1 DEF IsInjective
    <2> QED
        BY <2>1, <2>2
<1>5. Head(s) \in ToSet(s)
    BY <1>1 DEF ToSet
<1> QED
    BY <1>1, <1>3, <1>4, <1>5 DEF IsInjective

LEMMA LastGoes ==
    ASSUME NEW X, NEW s \in Seq(X), s # <<>>, IsInjective(s)
    PROVE  /\ Last(s) \in ToSet(s) /\ Front(s) \in Seq(X) /\ IsInjective(Front(s))
           /\ ToSet(Front(s)) \subseteq ToSet(s) \ {Last(s)}
<1> DEFINE n == Len(s)
           f == Front(s)
<1>1. /\ DOMAIN s = 1..n /\ n \in Nat /\ n \in DOMAIN s /\ n - 1 \in 0..n
    OBVIOUS
<1>2. Last(s) = s[n]
    BY DEF Last
<1>3. /\ f \in Seq(X) /\ DOMAIN f = 1..(n - 1) /\ \A k \in 1..(n - 1) : f[k] = s[k]
    <2>1. f = SubSeq(s, 1, n - 1)
        BY DEF Front
    <2>2. f \in Seq(X) /\ Len(f) = n - 1 /\ \A k \in 1..(n - 1) : f[k] = s[k]
        BY <1>1, <2>1
    <2> QED
        BY <1>1, <2>2
<1> HIDE DEF f
<1> HIDE DEF n
<1>4. \A k \in 1..(n - 1) : k \in DOMAIN s /\ k # n
    BY <1>1
<1>5. ToSet(f) \subseteq ToSet(s) \ {s[n]}
    BY <1>1, <1>3, <1>4 DEF ToSet, IsInjective
<1>6. IsInjective(f)
    BY <1>3, <1>4 DEF IsInjective
<1>7. s[n] \in ToSet(s)
    BY <1>1 DEF ToSet
<1> QED
    BY <1>2, <1>3, <1>5, <1>6, <1>7 DEF f, n

HasPair(E) == \E e \in E : e[1] # e[2] /\ Backward(e) \in E

\* A walk with a queue or a stack that goes on, one that has ended.
QueueOn(E, w) ==
    /\ w \in WalkOver(E) /\ w.kind # "greedy" /\ w.error = "walking" /\ w.u \notin w.visited
    /\ ListsOnce(E, w.visited, w.sorted)
    /\ IsInjective(w.queue) /\ ToSet(w.queue) \cap (w.visited \cup {w.u}) = {}

QueueOver(E, w) ==
    /\ w.kind # "greedy"
    /\ HasPair(E) => w.error = "AssertionError"
    /\ ~HasPair(E) => /\ w.error = "none" /\ w.sorted \in Seq(E) /\ IsInjective(w.sorted)
                      /\ ToSet(w.sorted) = E

LEMMA QueueEnds ==
    ASSUME NEW E, IsUniverse(E), NEW w \in WalkOver(E), w.kind # "greedy", w.error = "walking",
           ListsOnce(E, w.visited, w.sorted), Unvisited(w) = {}
    PROVE  QueueOver(E, Ended(w))
<1> DEFINE s == w.sorted
           t == Ended(w)
<1>1. w.edges = E /\ w.visited \in SUBSET Endpoints(E)
    BY WalkFields
<1>2. Among(E, w.visited) = E
    <2>1. Endpoints(E) \subseteq w.visited
        BY <1>1 DEF Unvisited
    <2> QED
        BY <2>1, AmongMore
<1>3. /\ s \in Seq(E) /\ IsInjective(s) /\ ToSet(s) \subseteq E
      /\ \A e \in E : e \in ToSet(s) \/ Backward(e) \in ToSet(s)
      /\ \A e \in ToSet(s) : Backward(e) \in ToSet(s) => Backward(e) = e
    BY <1>2 DEF ListsOnce
<1>4. \A e \in E : e = <<e[1], e[2]>>
    BY UniverseFacts
<1>5. \A e : Backward(e)[1] = e[2] /\ Backward(e)[2] = e[1]
    BY DEF Backward
<1>6. ASSUME HasPair(E) PROVE ToSet(s) # E
    <2>1. PICK e \in E : e[1] # e[2] /\ Backward(e) \in E
        BY <1>6 DEF HasPair
    <2>2. Backward(e) # e
        BY <1>5, <2>1
    <2> QED
        BY <1>3, <2>1, <2>2
<1>7. ASSUME ~HasPair(E) PROVE ToSet(s) = E
    <2>1. ASSUME NEW e \in E, e \notin ToSet(s) PROVE FALSE
        <3>1. Backward(e) \in ToSet(s) /\ Backward(e) \in E
            BY <1>3, <2>1
        <3>2. e[1] = e[2]
            BY <1>7, <3>1 DEF HasPair
        <3>3. Backward(e) = e
            BY <1>4, <3>2 DEF Backward
        <3> QED
            BY <2>1, <3>1, <3>3
    <2> QED
        BY <1>3, <2>1
<1>8. t.kind = w.kind /\ t.sorted = s /\ t.error = IF ToSet(s) = E THEN "none" ELSE "AssertionError"
    <2> DEFINE err == IF ToSet(s) = E THEN "none" ELSE "AssertionError"
    <2>1. t = [w EXCEPT !.error = err]
        BY <1>1 DEF Ended
    <2> HIDE DEF err, t
    <2>2. LET m == [w EXCEPT !.error = err] IN m.kind = w.kind /\ m.sorted = s /\ m.error = err
        BY DEF WalkOver
    <2> QED
        BY <2>1, <2>2 DEF err
<1> HIDE DEF s, t
<1>9. QueueOver(E, t)
    BY <1>3, <1>6, <1>7, <1>8 DEF QueueOver
<1> QED
    BY <1>9 DEF t

\* The next vertex comes from the queue or the stack.
LEMMA GoesOn ==
    ASSUME NEW E, IsUniverse(E), NEW w \in WalkOver(E), w.kind # "greedy", w.error = "walking",
           ListsOnce(E, w.visited, w.sorted), NEW u \in Endpoints(E), u \notin w.visited,
           NEW q \in Seq(Endpoints(E)), IsInjective(q), ToSet(q) \cap (w.visited \cup {u}) = {}
    PROVE  QueueOn(E, GoOn(w, u, q))
<1> DEFINE t == [w EXCEPT !.u = u, !.queue = q]
<1>1. GoOn(w, u, q) = t
    <2>1. GoOn(w, u, q) = [w EXCEPT !.u = u, !.queue = q, !.error = w.error]
        BY DEF GoOn
    <2>2. [w EXCEPT !.u = u, !.queue = q, !.error = w.error] = t
        BY DEF WalkOver
    <2> QED
        BY <2>1, <2>2
<1>2. t \in WalkOver(E)
    BY DEF WalkOver
<1>3. /\ t.kind = w.kind /\ t.error = w.error /\ t.visited = w.visited /\ t.sorted = w.sorted
      /\ t.queue = q /\ t.u = u
    BY DEF WalkOver
<1> HIDE DEF t
<1> QED
    BY <1>1, <1>2, <1>3 DEF QueueOn

\* What is left of a visit when the edges to the vertices visited are listed.
AfterListing(w, left, rest) ==
    LET queue == IF rest = <<>> /\ Unvisited(left) # {} THEN <<Min(Unvisited(left))>> ELSE rest
    IN  CASE queue = <<>> -> Ended(left)
          [] queue # <<>> /\ IsQueue(w) -> GoOn(left, Head(queue), Tail(queue))
          [] queue # <<>> /\ ~IsQueue(w) -> GoOn(left, Last(queue), Front(queue))

LEMMA AfterListingIs ==
    ASSUME NEW E, IsUniverse(E), NEW w, NEW left \in WalkOver(E), left.kind # "greedy",
           left.error = "walking", ListsOnce(E, left.visited, left.sorted),
           NEW rest \in Seq(Endpoints(E)), IsInjective(rest), ToSet(rest) \cap left.visited = {}
    PROVE  LET t == AfterListing(w, left, rest) IN QueueOn(E, t) \/ QueueOver(E, t)
<1> DEFINE least == Min(Unvisited(left))
           one == <<least>>
           q == IF rest = <<>> /\ Unvisited(left) # {} THEN one ELSE rest
<1>1. /\ q \in Seq(Endpoints(E)) /\ IsInjective(q) /\ ToSet(q) \cap left.visited = {}
      /\ q = <<>> => Unvisited(left) = {}
    <2>1. CASE rest = <<>> /\ Unvisited(left) # {}
        <3>1. least \in Endpoints(E) /\ least \notin left.visited
            BY <2>1, UnvisitedIs DEF Unvisited
        <3>2. one \in Seq(Endpoints(E)) /\ DOMAIN one = {1} /\ one[1] = least /\ one # <<>>
            BY <3>1
        <3> HIDE DEF one
        <3>3. IsInjective(one) /\ ToSet(one) = {least}
            BY <3>2 DEF IsInjective, ToSet
        <3>4. q = one
            BY <2>1
        <3> QED
            BY <3>1, <3>2, <3>3, <3>4
    <2>2. CASE ~(rest = <<>> /\ Unvisited(left) # {})
        BY <2>2
    <2> QED
        BY <2>1, <2>2
<1>2. AfterListing(w, left, rest) =
        CASE q = <<>> -> Ended(left)
          [] q # <<>> /\ IsQueue(w) -> GoOn(left, Head(q), Tail(q))
          [] q # <<>> /\ ~IsQueue(w) -> GoOn(left, Last(q), Front(q))
    BY DEF AfterListing
<1> HIDE DEF q
<1>3. CASE q = <<>>
    <2>1. AfterListing(w, left, rest) = Ended(left)
        BY <1>2, <1>3
    <2>2. QueueOver(E, Ended(left))
        BY <1>1, <1>3, QueueEnds
    <2> QED
        BY <2>1, <2>2
<1>4. ASSUME NEW x \in ToSet(q), NEW r \in Seq(Endpoints(E)), IsInjective(r),
             ToSet(r) \subseteq ToSet(q) \ {x}
      PROVE  QueueOn(E, GoOn(left, x, r))
    <2>1. x \in Endpoints(E) /\ x \notin left.visited
        BY <1>1, <1>4 DEF ToSet
    <2>2. ToSet(r) \cap (left.visited \cup {x}) = {}
        BY <1>1, <1>4
    <2> QED
        BY <1>4, <2>1, <2>2, GoesOn
<1>5. CASE q # <<>> /\ IsQueue(w)
    <2>1. AfterListing(w, left, rest) = GoOn(left, Head(q), Tail(q))
        BY <1>2, <1>5
    <2>2. /\ Head(q) \in ToSet(q) /\ Tail(q) \in Seq(Endpoints(E)) /\ IsInjective(Tail(q))
          /\ ToSet(Tail(q)) \subseteq ToSet(q) \ {Head(q)}
        BY <1>1, <1>5, HeadGoes
    <2>3. QueueOn(E, GoOn(left, Head(q), Tail(q)))
        BY <1>4, <2>2
    <2> QED
        BY <2>1, <2>3
<1>6. CASE q # <<>> /\ ~IsQueue(w)
    <2>1. AfterListing(w, left, rest) = GoOn(left, Last(q), Front(q))
        BY <1>2, <1>6
    <2>2. /\ Last(q) \in ToSet(q) /\ Front(q) \in Seq(Endpoints(E)) /\ IsInjective(Front(q))
          /\ ToSet(Front(q)) \subseteq ToSet(q) \ {Last(q)}
        BY <1>1, <1>6, LastGoes
    <2>3. QueueOn(E, GoOn(left, Last(q), Front(q)))
        BY <1>4, <2>2
    <2> QED
        BY <2>1, <2>3
<1> QED
    BY <1>3, <1>5, <1>6

\* A visit lists the edges to the vertices visited, once each, and puts the
\* others, fresh, in the queue.
VisitLeaves(E, w, left, fresh) ==
    LET V == w.visited \cup {w.u}
        N == Neighbors(E, w.u)
    IN  /\ left \in WalkOver(E) /\ left.kind = w.kind /\ left.error = "walking"
        /\ left.visited = V /\ ListsOnce(E, V, left.sorted)
        /\ \E t : ListEdgesTo(E, w.u, N \cap V, t) /\ left.sorted = w.sorted \o t
        /\ fresh \in Seq(Endpoints(E)) /\ ToSet(fresh) = N \ (V \cup ToSet(w.queue))
        /\ w.queue \o fresh \in Seq(Endpoints(E)) /\ IsInjective(w.queue \o fresh)
        /\ ToSet(w.queue \o fresh) = ToSet(w.queue) \cup ToSet(fresh)
        /\ ToSet(w.queue \o fresh) \cap V = {}

LEMMA VisitIsOf ==
    ASSUME NEW E, IsUniverse(E), NEW w, QueueOn(E, w)
    PROVE  \E left, fresh : /\ VisitLeaves(E, w, left, fresh)
                            /\ Visit(w) = AfterListing(w, left, w.queue \o fresh)
<1> DEFINE u == w.u
           S == w.visited
           V == S \cup {u}
           N == Neighbors(E, u)
           met == Ascending(N \cap V)
           fresh == Ascending(N \ (V \cup ToSet(w.queue)))
           t == EdgesMet(E, u, met)
           sorted == w.sorted \o t
           rest == w.queue \o fresh
           left == [w EXCEPT !.visited = V, !.sorted = sorted]
<1>1. /\ w \in WalkOver(E) /\ w.kind # "greedy" /\ w.error = "walking" /\ u \notin S
      /\ ListsOnce(E, S, w.sorted) /\ IsInjective(w.queue) /\ ToSet(w.queue) \cap V = {}
    BY DEF QueueOn
<1>2. /\ w.edges = E /\ u \in Endpoints(E) /\ S \in SUBSET Endpoints(E)
      /\ w.queue \in Seq(Endpoints(E))
    BY <1>1, WalkFields
<1>3. V \in SUBSET Endpoints(E)
    BY <1>2
<1>4. N \subseteq Endpoints(E) /\ IsFiniteSet(N) /\ N \subseteq Nat
    BY NeighborsAre
<1>5. /\ met \in Seq(N \cap V) /\ IsInjective(met) /\ ToSet(met) = N \cap V
    <2>1. N \cap V \in SUBSET Nat /\ IsFiniteSet(N \cap V)
        BY <1>4, FS_Subset
    <2> QED
        BY <2>1, AscendingIs
<1>6. /\ fresh \in Seq(Endpoints(E)) /\ IsInjective(fresh)
      /\ ToSet(fresh) = N \ (V \cup ToSet(w.queue))
    <2> DEFINE F == N \ (V \cup ToSet(w.queue))
    <2>1. F \in SUBSET Nat /\ IsFiniteSet(F) /\ F \subseteq Endpoints(E)
        BY <1>4, FS_Subset
    <2> HIDE DEF F
    <2>2. Ascending(F) \in Seq(F) /\ IsInjective(Ascending(F)) /\ ToSet(Ascending(F)) = F
        BY <2>1, AscendingIs
    <2>3. Ascending(F) \in Seq(Endpoints(E))
        BY <2>1, <2>2, SequencesWithin
    <2> QED
        BY <2>2, <2>3 DEF F
<1>7. ListsOnce(E, V, sorted) /\ ListEdgesTo(E, u, N \cap V, t)
    <2> DEFINE M == N \cap V
    <2>1. M \subseteq Neighbors(E, u) /\ met \in Seq(M) /\ IsInjective(met) /\ ToSet(met) = M
        BY <1>5
    <2> HIDE DEF M, met
    <2>2. ListEdgesTo(E, u, M, EdgesMet(E, u, met))
        BY <2>1, EdgesMetAre
    <2> QED
        BY <1>1, <1>5, <2>2, VisitLists DEF M
<1>8. /\ rest \in Seq(Endpoints(E)) /\ IsInjective(rest) /\ ToSet(rest) \cap V = {}
      /\ ToSet(rest) = ToSet(w.queue) \cup ToSet(fresh)
    <2>1. ToSet(w.queue) \cap ToSet(fresh) = {}
        BY <1>6
    <2>2. ToSet(fresh) \cap V = {}
        BY <1>6
    <2> HIDE DEF fresh, V
    <2>3. /\ rest \in Seq(Endpoints(E)) /\ IsInjective(rest)
          /\ ToSet(rest) = ToSet(w.queue) \cup ToSet(fresh)
        BY <1>1, <1>2, <1>6, <2>1, JoinedSequences
    <2> QED
        BY <1>1, <2>2, <2>3
<1>9. sorted \in Seq(E)
    BY <1>7 DEF ListsOnce
<1>10. Visit(w) = AfterListing(w, left, rest)
    <2>1. NewVertices(w, V) = fresh
        BY <1>2 DEF NewVertices
    <2>2. Ascending(Neighbors(w.edges, w.u) \cap V) = met
        BY <1>2
    <2>3. [k \in DOMAIN met |-> EdgeOf(w, met[k])] = t
        <3> HIDE DEF met
        <3> QED
            BY <1>2 DEF EdgesMet, EdgeBetween, EdgeOf
    <2>4. Visit(w) = AfterListing(w, [w EXCEPT !.visited = V,
                                        !.sorted = @ \o [k \in DOMAIN Ascending(Neighbors(w.edges, w.u) \cap V) |->
                                            EdgeOf(w, Ascending(Neighbors(w.edges, w.u) \cap V)[k])]],
                                  w.queue \o NewVertices(w, V))
        BY DEF Visit, AfterListing
    <2> HIDE DEF met, t, fresh, V
    <2>5. [w EXCEPT !.visited = V, !.sorted = @ \o [k \in DOMAIN met |-> EdgeOf(w, met[k])]] = left
        BY <2>3
    <2> QED
        BY <2>1, <2>2, <2>4, <2>5
<1> HIDE DEF V, sorted, rest
<1>11. left \in WalkOver(E)
    BY <1>1, <1>3, <1>9 DEF WalkOver
<1>12. /\ left.kind = w.kind /\ left.error = w.error /\ left.visited = V /\ left.sorted = sorted
    BY <1>1 DEF WalkOver
<1> HIDE DEF left, fresh, t, N
<1>13. VisitLeaves(E, w, left, fresh)
    BY <1>1, <1>6, <1>7, <1>8, <1>11, <1>12 DEF VisitLeaves, V, N, sorted, rest
<1> QED
    BY <1>10, <1>13 DEF rest

LEMMA QueueVisits ==
    ASSUME NEW E, IsUniverse(E), NEW w, QueueOn(E, w)
    PROVE  QueueOn(E, Visit(w)) \/ QueueOver(E, Visit(w))
<1>1. PICK left, fresh : /\ VisitLeaves(E, w, left, fresh)
                         /\ Visit(w) = AfterListing(w, left, w.queue \o fresh)
    BY VisitIsOf
<1> DEFINE rest == w.queue \o fresh
<1>2. /\ left \in WalkOver(E) /\ left.kind # "greedy" /\ left.error = "walking"
      /\ ListsOnce(E, left.visited, left.sorted)
      /\ rest \in Seq(Endpoints(E)) /\ IsInjective(rest) /\ ToSet(rest) \cap left.visited = {}
    BY <1>1 DEF VisitLeaves, QueueOn
<1> HIDE DEF rest
<1>3. LET r == AfterListing(w, left, rest) IN QueueOn(E, r) \/ QueueOver(E, r)
    BY <1>2, AfterListingIs
<1> QED
    BY <1>1, <1>3 DEF rest

\* A traversal that goes on, one that has ended.
WalkOn(E, w) == GreedyOn(E, w) \/ QueueOn(E, w)
WalkDone(E, w) == GreedyOver(E, w) \/ QueueOver(E, w)

LEMMA StartIsOn ==
    ASSUME NEW E, IsUniverse(E), NEW kind \in {"greedy", "bfs", "dfs"}, NEW source
    PROVE  LET w == StartWalk(E, kind, source)
           IN  /\ w.kind = kind /\ w.edges = E
               /\ source \in Endpoints(E) => WalkOn(E, w) /\ w.error = "walking"
               /\ source \notin Endpoints(E) => w.error = "AssertionError"
<1> DEFINE degree == [v \in Endpoints(E) |-> Cardinality(Neighbors(E, v))]
           w == StartWalk(E, kind, source)
<1>1. degree \in [Endpoints(E) -> Int]
    <2>1. \A v \in Endpoints(E) : Cardinality(Neighbors(E, v)) \in Nat
        BY NeighborsAre, FS_CardinalityType
    <2> QED
        BY <2>1
<1> HIDE DEF degree
<1>2. w = [edges |-> E, kind |-> kind, u |-> source, visited |-> {}, sorted |-> <<>>,
           degree |-> degree, heap |-> {}, queue |-> <<>>,
           error |-> IF source \notin Endpoints(E) THEN "AssertionError" ELSE "walking"]
    BY DEF StartWalk, degree
<1> HIDE DEF w
<1>3. /\ w.kind = kind /\ w.edges = E /\ w.u = source /\ w.visited = {} /\ w.sorted = <<>>
      /\ w.heap = {} /\ w.queue = <<>>
      /\ w.error = IF source \notin Endpoints(E) THEN "AssertionError" ELSE "walking"
    BY <1>2
<1>4. /\ <<>> \in Seq(E) /\ <<>> \in Seq(Endpoints(E)) /\ ToSet(<<>>) = {} /\ IsInjective(<<>>)
    <2>1. DOMAIN <<>> = {}
        OBVIOUS
    <2> QED
        BY <2>1 DEF ToSet, IsInjective
<1>5. Among(E, {}) = {}
    BY DEF Among
<1>6. ASSUME source \in Endpoints(E) PROVE WalkOn(E, w)
    <2>1. w \in WalkOver(E)
        BY <1>1, <1>2, <1>4, <1>6 DEF WalkOver
    <2>2. ListsAll(E, Among(E, {}), <<>>)
        BY <1>4, <1>5 DEF ListsAll
    <2>3. ListsOnce(E, {}, <<>>)
        BY <1>4, <1>5 DEF ListsOnce
    <2> QED
        BY <1>3, <1>4, <1>6, <2>1, <2>2, <2>3, FS_EmptySet DEF WalkOn, GreedyOn, QueueOn
<1> QED
    BY <1>3, <1>6 DEF w

LEMMA TurnIs ==
    ASSUME NEW E, IsUniverse(E), NEW w, WalkOn(E, w)
    PROVE  /\ WalkOn(E, Turn(w)) \/ WalkDone(E, Turn(w))
           /\ Turn(w).kind = "greedy" <=> w.kind = "greedy"
<1>1. CASE GreedyOn(E, w)
    <2>1. Turn(w) = VisitGreedy(w) /\ w.kind = "greedy"
        BY <1>1 DEF GreedyOn, Turn
    <2>2. GreedyOn(E, VisitGreedy(w)) \/ GreedyOver(E, VisitGreedy(w))
        BY <1>1, GreedyVisits
    <2> QED
        BY <2>1, <2>2 DEF WalkOn, WalkDone, GreedyOn, GreedyOver
<1>2. CASE QueueOn(E, w)
    <2>1. Turn(w) = Visit(w) /\ w.kind # "greedy"
        BY <1>2 DEF QueueOn, Turn
    <2>2. QueueOn(E, Visit(w)) \/ QueueOver(E, Visit(w))
        BY <1>2, QueueVisits
    <2> QED
        BY <2>1, <2>2 DEF WalkOn, WalkDone, QueueOn, QueueOver
<1> QED
    BY <1>1, <1>2 DEF WalkOn
-----------------------------------------------------------------------------
(***************************************************************************)
(* The universe.                                                           *)
(***************************************************************************)
TablesType == elems \in Seq(ToSet(elems)) /\ numElems \in Nat
UniverseInv == TablesType /\ UniverseAgrees

\* The tables of setset that an injective list gives, or the refusal of one that
\* is not.
LEMMA GivenTables ==
    ASSUME NEW X, NEW U \in Seq(X)
    PROVE  LET t == SetTables(elems, numElems, U)
           IN  /\ ~IsInjective(U) => t.elems = elems /\ t.n = numElems /\ t.error = "ValueError"
               /\ IsInjective(U) =>
                    /\ t.elems \in Seq(X) /\ IsInjective(t.elems) /\ t.n = Len(t.elems)
                    /\ t.error = IF Len(U) > ElemLimit THEN "RuntimeError" ELSE "none"
                    /\ t.error = "none" => t.elems = U
<1> DEFINE t == SetTables(elems, numElems, U)
<1>1. ASSUME ~IsInjective(U) PROVE t.elems = elems /\ t.n = numElems /\ t.error = "ValueError"
    BY <1>1 DEF SetTables, Tables
<1>2. ASSUME IsInjective(U)
      PROVE  /\ t.elems \in Seq(X) /\ IsInjective(t.elems) /\ t.n = Len(t.elems)
             /\ t.error = IF Len(U) > ElemLimit THEN "RuntimeError" ELSE "none"
             /\ t.error = "none" => t.elems = U
    <2>1. t \in TablesOver(X) /\ Filled(U, Len(U), t)
        BY <1>2, SetTablesIs
    <2> HIDE DEF t
    <2>2. /\ t.elems \in Seq(X) /\ t.n = Len(t.elems) /\ Len(t.elems) <= Len(U)
          /\ \A j \in 1..Len(t.elems) : t.elems[j] = U[j]
          /\ t.error = "none" => Len(U) <= ElemLimit /\ Len(t.elems) = Len(U)
          /\ t.error # "none" => Len(U) > ElemLimit /\ t.error = "RuntimeError"
        BY <2>1 DEF TablesOver, Filled
    <2>3. ElemLimit \in Nat /\ Len(U) \in Nat /\ Len(t.elems) \in Nat
        BY <2>2, DiGraphSetsAssumption
    <2>4. IsInjective(t.elems)
        <3>1. DOMAIN t.elems = 1..Len(t.elems) /\ DOMAIN U = 1..Len(U)
            BY <2>2
        <3>2. \A j \in DOMAIN t.elems : j \in DOMAIN U /\ t.elems[j] = U[j]
            BY <2>2, <2>3, <3>1
        <3> QED
            BY <1>2, <3>2 DEF IsInjective
    <2>5. t.error = IF Len(U) > ElemLimit THEN "RuntimeError" ELSE "none"
        BY <2>2, <2>3
    <2>6. ASSUME t.error = "none" PROVE t.elems = U
        <3> DEFINE s == t.elems
        <3>1. s \in Seq(X) /\ Len(s) = Len(U) /\ \A j \in 1..Len(s) : s[j] = U[j]
            BY <2>2, <2>6
        <3> HIDE DEF s
        <3>2. s = U
            BY <3>1
        <3> QED
            BY <3>2 DEF s
    <2> QED
        BY <2>2, <2>4, <2>5, <2>6
<1> HIDE DEF t
<1> QED
    BY <1>1, <1>2 DEF t

\* How a call of set_universe() that gives setset the list U ends.
Accepts(arg, U) ==
    /\ call'.op = "set_universe" /\ call'.arg = arg
    /\ ~IsInjective(U) => call'.error = "ValueError"
    /\ IsInjective(U) => call'.error = IF Len(U) > ElemLimit THEN "RuntimeError" ELSE "none"
    /\ call'.error = "none" => elems' = U

LEMMA GivingUniverse ==
    ASSUME UniverseInv, NEW X, NEW U \in Seq(X), NEW arg, NEW heavy,
           DOMAIN heavy \subseteq ToSet(U), GiveUniverse(arg, U, heavy)
    PROVE  UniverseInv' /\ Accepts(arg, U)
<1> DEFINE t == SetTables(elems, numElems, U)
<1>1. /\ elems' = t.elems /\ numElems' = t.n /\ vertices' = Endpoints(ToSet(U))
      /\ weights' = heavy /\ accepted' = (t.error = "none")
      /\ call' = [op |-> "set_universe", on |-> "class", arg |-> arg, error |-> t.error,
                  result |-> {}]
    BY DEF GiveUniverse, Returned
<1>2. /\ ~IsInjective(U) => t.elems = elems /\ t.n = numElems /\ t.error = "ValueError"
      /\ IsInjective(U) =>
            /\ t.elems \in Seq(X) /\ IsInjective(t.elems) /\ t.n = Len(t.elems)
            /\ t.error = IF Len(U) > ElemLimit THEN "RuntimeError" ELSE "none"
            /\ t.error = "none" => t.elems = U
    BY GivenTables
<1> HIDE DEF t
<1>3. Accepts(arg, U)
    BY <1>1, <1>2 DEF Accepts
<1>4. VerticesAgree'
    BY <1>1, <1>2 DEF VerticesAgree
<1>5. CASE ~IsInjective(U)
    BY <1>1, <1>2, <1>3, <1>4, <1>5 DEF UniverseInv, TablesType, UniverseAgrees, NumbersAgree
<1>6. CASE IsInjective(U)
    <2>1. elems' \in Seq(X) /\ IsInjective(elems') /\ numElems' = Len(elems')
        BY <1>1, <1>2, <1>6
    <2>2. elems' \in Seq(ToSet(elems')) /\ numElems' \in Nat
        BY <2>1, SequencesWithin
    <2> QED
        BY <1>3, <1>4, <2>1, <2>2 DEF UniverseInv, TablesType, UniverseAgrees, NumbersAgree
<1> QED
    BY <1>5, <1>6

LEMMA RefusingUniverse ==
    ASSUME UniverseInv, NEW arg, NEW heavy, NEW error, RefuseUniverse(arg, heavy, error)
    PROVE  UniverseInv' /\ call'.op = "set_universe" /\ call'.arg = arg /\ call'.error = error
<1>1. /\ elems' = elems /\ numElems' = numElems /\ accepted' = FALSE
      /\ call' = [op |-> "set_universe", on |-> "class", arg |-> arg, error |-> error,
                  result |-> {}]
    BY DEF RefuseUniverse, Returned
<1> QED
    BY <1>1 DEF UniverseInv, TablesType, UniverseAgrees, NumbersAgree, VerticesAgree

\* What a list that is given as it is comes to.
EdgesListed(list) == [k \in DOMAIN list |-> Short(list[k])]
Repeated(list) ==
    {k \in DOMAIN EdgesListed(list) :
        \E j \in 1..(k - 1) : EdgesListed(list)[j] = EdgesListed(list)[k]}

LEMMA RepeatedIs ==
    ASSUME NEW list \in Lists
    PROVE  /\ EdgesListed(list) \in Seq(ToSet(EdgesListed(list)))
           /\ Repeated(list) = {} <=> IsInjective(EdgesListed(list))
<1> DEFINE U == EdgesListed(list)
           n == Len(list)
<1>1. n \in Nat /\ DOMAIN list = 1..n
    BY DiGraphSetsAssumption
<1>2. DOMAIN U = 1..n /\ U = [k \in 1..n |-> U[k]] /\ \A k \in 1..n : U[k] \in ToSet(U)
    BY <1>1 DEF EdgesListed, ToSet
<1>3. Repeated(list) = {k \in DOMAIN U : \E j \in 1..(k - 1) : U[j] = U[k]}
    BY DEF Repeated
<1> HIDE DEF U, n
<1>4. U \in Seq(ToSet(U))
    <2>1. [k \in 1..n |-> U[k]] \in Seq(ToSet(U))
        BY <1>1, <1>2
    <2> QED
        BY <1>2, <2>1
<1>5. ASSUME Repeated(list) = {} PROVE IsInjective(U)
    <2>1. ASSUME NEW a \in 1..n, NEW b \in 1..n, U[a] = U[b] PROVE a = b
        <3>1. ~(a \in 1..(b - 1)) /\ ~(b \in 1..(a - 1))
            BY <1>2, <1>3, <1>5, <2>1
        <3> QED
            BY <1>1, <3>1
    <2> QED
        BY <1>2, <2>1 DEF IsInjective
<1>6. ASSUME IsInjective(U) PROVE Repeated(list) = {}
    <2>1. ASSUME NEW k \in 1..n, NEW j \in 1..(k - 1), U[j] = U[k] PROVE FALSE
        <3>1. j \in 1..n /\ j # k
            BY <1>1
        <3> QED
            BY <1>2, <1>6, <2>1, <3>1 DEF IsInjective
    <2> QED
        BY <1>2, <1>3, <2>1
<1> QED
    BY <1>4, <1>5, <1>6 DEF U

(***************************************************************************)
(* How set_universe() ends, the failures of its walks included: bfs and    *)
(* dfs on edges both ways, greedy on self-loops.                           *)
(***************************************************************************)
OutcomeOf(arg) ==
    LET edges == arg.edges
        selfLoop == \E e \in edges : e[1] = e[2]
        antiparallel == \E e \in edges : e[1] # e[2] /\ Backward(e) \in edges
        tooMany == Cardinality(edges) > ElemLimit
        walked ==
            IF edges = {} /\ arg.source = NoSource THEN "IndexError"
            ELSE IF arg.source # NoSource /\ arg.source \notin Endpoints(edges) THEN "AssertionError"
            ELSE IF arg.traversal = "greedy" /\ selfLoop THEN "ValueError"
            ELSE IF arg.traversal \in {"bfs", "dfs"} /\ antiparallel THEN "AssertionError"
            ELSE IF tooMany THEN "RuntimeError" ELSE "none"
    IN  IF arg.repeated THEN "KeyError"
        ELSE IF arg.traversal # "as-is" THEN walked
        ELSE IF tooMany THEN "RuntimeError" ELSE "none"

OutcomeInv ==
    call.op = "set_universe" =>
        /\ call.error = OutcomeOf(call.arg)
        /\ call.error = "none" =>
                ToSet(elems) = call.arg.edges /\ Len(elems) = Cardinality(call.arg.edges)

\* The refusals that do not depend on a walk.
LEMMA RefusedByLimit ==
    ASSUME NEW arg, NEW X, NEW U \in Seq(X), Accepts(arg, U), IsInjective(U), ToSet(U) = arg.edges,
           OutcomeOf(arg) = IF Cardinality(arg.edges) > ElemLimit THEN "RuntimeError" ELSE "none"
    PROVE  OutcomeInv'
<1>1. Cardinality(arg.edges) = Len(U)
    BY LengthIs
<1>2. /\ call'.op = "set_universe" /\ call'.arg = arg
      /\ call'.error = IF Len(U) > ElemLimit THEN "RuntimeError" ELSE "none"
      /\ call'.error = "none" => elems' = U
    BY DEF Accepts
<1>3. call'.error = OutcomeOf(arg)
    BY <1>1, <1>2
<1>4. call'.error = "none" => ToSet(elems') = arg.edges /\ Len(elems') = Cardinality(arg.edges)
    BY <1>1, <1>2
<1> QED
    BY <1>2, <1>3, <1>4 DEF OutcomeInv

LEMMA AsIsCalls ==
    ASSUME UniverseInv, NEW list \in Lists, SetUniverseAsIs(list)
    PROVE  UniverseInv' /\ OutcomeInv' /\ call' # NoCall
<1> DEFINE U == EdgesListed(list)
           X == ToSet(U)
           arg == [edges |-> ToSet(U), repeated |-> Repeated(list) # {},
                   traversal |-> "as-is", source |-> NoSource]
<1>1. U \in Seq(X) /\ (Repeated(list) = {} <=> IsInjective(U))
    BY RepeatedIs
<1>2. IF Repeated(list) # {}
      THEN \E heavy : RefuseUniverse(arg, heavy, "KeyError")
      ELSE GiveUniverse(arg, U, WeightsOf(list))
    BY DEF SetUniverseAsIs, EdgesListed, Repeated
<1>3. /\ arg.edges = ToSet(U) /\ arg.repeated = (Repeated(list) # {}) /\ arg.traversal = "as-is"
    OBVIOUS
<1> HIDE DEF arg
<1>4. OutcomeOf(arg) = IF Repeated(list) # {} THEN "KeyError"
                       ELSE IF Cardinality(arg.edges) > ElemLimit THEN "RuntimeError" ELSE "none"
    BY <1>3 DEF OutcomeOf
<1>5. CASE Repeated(list) # {}
    <2>1. PICK heavy : RefuseUniverse(arg, heavy, "KeyError")
        BY <1>2, <1>5
    <2>2. UniverseInv' /\ call'.op = "set_universe" /\ call'.arg = arg /\ call'.error = "KeyError"
        BY <2>1, RefusingUniverse
    <2>3. OutcomeInv'
        BY <1>4, <1>5, <2>2 DEF OutcomeInv
    <2> QED
        BY <2>2, <2>3 DEF NoCall
<1>6. CASE Repeated(list) = {}
    <2>1. DOMAIN WeightsOf(list) \subseteq X
        <3>1. \A k \in DOMAIN list : k \in DOMAIN U /\ Short(list[k]) = U[k]
            BY DEF EdgesListed
        <3>2. \A k \in DOMAIN list : Short(list[k]) \in X
            <4> HIDE DEF U
            <4> QED
                BY <3>1 DEF ToSet
        <3>3. DOMAIN WeightsOf(list) = {Short(list[k]) : k \in {j \in DOMAIN list : Len(list[j]) > 2}}
            BY DEF WeightsOf
        <3> HIDE DEF X
        <3> QED
            BY <3>2, <3>3
    <2>2. GiveUniverse(arg, U, WeightsOf(list))
        BY <1>2, <1>6
    <2>3. UniverseInv' /\ Accepts(arg, U)
        BY <1>1, <2>1, <2>2, GivingUniverse
    <2>4. IsInjective(U)
        BY <1>1, <1>6
    <2>5. OutcomeInv'
        BY <1>1, <1>3, <1>4, <1>6, <2>3, <2>4, RefusedByLimit
    <2> QED
        BY <2>3, <2>5 DEF Accepts, NoCall
<1> QED
    BY <1>5, <1>6

\* A traversal that goes on is one of the edges it was given, from a vertex.
Traverses(w, arg) ==
    /\ IsUniverse(arg.edges) /\ WalkOn(arg.edges, w)
    /\ arg.repeated = FALSE /\ arg.traversal \in {"greedy", "bfs", "dfs"}
    /\ arg.traversal = "greedy" <=> w.kind = "greedy"
    /\ arg.source # NoSource => arg.source \in Endpoints(arg.edges)

WalkInv ==
    walk # NoWalk =>
        /\ call = NoCall
        /\ walk = [w |-> walk.w, arg |-> walk.arg, error |-> "walking"]
        /\ Traverses(walk.w, walk.arg)

LEMMA StartCalls ==
    ASSUME UniverseInv, OutcomeInv, call = NoCall, walk = NoWalk,
           NEW edges \in Walks, NEW traversal \in Traversals, NEW source \in Starts,
           SetUniverse(edges, traversal, source)
    PROVE  UniverseInv' /\ OutcomeInv' /\ WalkInv'
<1> DEFINE arg == [edges |-> edges, repeated |-> FALSE, traversal |-> traversal, source |-> source]
           start == IF source = NoSource THEN Min(Endpoints(edges)) ELSE source
           w == StartWalk(edges, traversal, start)
<1>1. /\ IsUniverse(edges) /\ traversal \in {"greedy", "bfs", "dfs"}
    BY DiGraphSetsAssumption DEF IsUniverse
<1>2. IF edges = {} /\ source = NoSource
      THEN RefuseUniverse(arg, <<>>, "IndexError") /\ UNCHANGED walk
      ELSE IF w.error = "walking"
      THEN /\ walk' = [w |-> w, arg |-> arg, error |-> "walking"]
           /\ vertices' = {} /\ weights' = <<>> /\ accepted' = FALSE
           /\ UNCHANGED <<elems, numElems, objects, loop, call>>
      ELSE RefuseUniverse(arg, <<>>, w.error) /\ UNCHANGED walk
    BY DEF SetUniverse
<1>3. /\ w.kind = traversal /\ w.edges = edges
      /\ start \in Endpoints(edges) => WalkOn(edges, w) /\ w.error = "walking"
      /\ start \notin Endpoints(edges) => w.error = "AssertionError"
    BY <1>1, StartIsOn
<1>4. ASSUME edges # {}, source = NoSource PROVE start \in Endpoints(edges)
    <2>1. PICK e \in edges : TRUE
        BY <1>4
    <2>2. Endpoints(edges) \in SUBSET Nat /\ e[1] \in Endpoints(edges)
        BY <1>1, <2>1, UniverseFacts
    <2>3. Min(Endpoints(edges)) \in Endpoints(edges)
        BY <2>2, LeastIs
    <2> QED
        BY <1>4, <2>3
<1>5. source # NoSource => start = source
    OBVIOUS
<1>6. /\ arg.edges = edges /\ arg.repeated = FALSE /\ arg.traversal = traversal
      /\ arg.source = source
    OBVIOUS
<1> HIDE DEF arg, start, w
<1>7. ASSUME NEW error, RefuseUniverse(arg, <<>>, error), UNCHANGED walk, OutcomeOf(arg) = error,
             error # "none"
      PROVE  UniverseInv' /\ OutcomeInv' /\ WalkInv'
    <2>1. UniverseInv' /\ call'.op = "set_universe" /\ call'.arg = arg /\ call'.error = error
        BY <1>7, RefusingUniverse
    <2>2. OutcomeInv'
        BY <1>7, <2>1 DEF OutcomeInv
    <2>3. walk' = NoWalk
        BY <1>7
    <2> QED
        BY <2>1, <2>2, <2>3 DEF WalkInv
<1>8. CASE edges = {} /\ source = NoSource
    <2>1. OutcomeOf(arg) = "IndexError"
        BY <1>1, <1>6, <1>8 DEF OutcomeOf
    <2> QED
        BY <1>2, <1>7, <1>8, <2>1
<1>9. CASE ~(edges = {} /\ source = NoSource) /\ w.error = "walking"
    <2>1. /\ walk' = [w |-> w, arg |-> arg, error |-> "walking"]
          /\ vertices' = {} /\ weights' = <<>> /\ accepted' = FALSE
          /\ UNCHANGED <<elems, numElems, objects, loop, call>>
        BY <1>2, <1>9
    <2>2. start \in Endpoints(edges) /\ WalkOn(edges, w)
        BY <1>3, <1>9
    <2>3. Traverses(w, arg)
        BY <1>1, <1>3, <1>5, <1>6, <2>2 DEF Traverses
    <2>4. walk'.w = w /\ walk'.arg = arg
        BY <2>1
    <2>5. WalkInv'
        BY <2>1, <2>3, <2>4 DEF WalkInv
    <2>6. UniverseInv'
        BY <2>1 DEF UniverseInv, TablesType, UniverseAgrees, NumbersAgree, VerticesAgree
    <2>7. OutcomeInv'
        BY <2>1 DEF OutcomeInv, NoCall
    <2> QED
        BY <2>5, <2>6, <2>7
<1>10. CASE ~(edges = {} /\ source = NoSource) /\ w.error # "walking"
    <2>1. start \notin Endpoints(edges) /\ w.error = "AssertionError"
        BY <1>3, <1>10
    <2>2. source # NoSource /\ source \notin Endpoints(edges)
        BY <1>4, <1>5, <1>10, <2>1
    <2>3. OutcomeOf(arg) = "AssertionError"
        BY <1>1, <1>6, <2>2 DEF OutcomeOf
    <2> QED
        BY <1>2, <1>7, <1>10, <2>1, <2>3
<1> QED
    BY <1>8, <1>9, <1>10

\* The refusals of a walk that has visited every vertex.
LEMMA WalkRefusal ==
    ASSUME NEW arg, IsUniverse(arg.edges), arg.repeated = FALSE,
           arg.traversal \in {"greedy", "bfs", "dfs"},
           arg.source # NoSource => arg.source \in Endpoints(arg.edges), arg.edges # {}
    PROVE  OutcomeOf(arg) =
                IF arg.traversal = "greedy" /\ (\E e \in arg.edges : e[1] = e[2]) THEN "ValueError"
                ELSE IF arg.traversal # "greedy" /\ HasPair(arg.edges) THEN "AssertionError"
                ELSE IF Cardinality(arg.edges) > ElemLimit THEN "RuntimeError" ELSE "none"
    BY DEF OutcomeOf, HasPair

LEMMA VisitCalls ==
    ASSUME UniverseInv, OutcomeInv, WalkInv, VisitVertex
    PROVE  UniverseInv' /\ OutcomeInv' /\ WalkInv'
<1> DEFINE E == walk.arg.edges
           arg == walk.arg
           w == Turn(walk.w)
           s == w.sorted
<1>1. /\ call = NoCall /\ walk = [w |-> walk.w, arg |-> walk.arg, error |-> "walking"]
      /\ Traverses(walk.w, arg)
    BY DEF WalkInv, VisitVertex
<1>2. /\ IsUniverse(E) /\ WalkOn(E, walk.w) /\ arg.repeated = FALSE
      /\ arg.traversal \in {"greedy", "bfs", "dfs"}
      /\ arg.traversal = "greedy" <=> walk.w.kind = "greedy"
      /\ arg.source # NoSource => arg.source \in Endpoints(E)
    BY <1>1 DEF Traverses
<1>3. /\ WalkOn(E, w) \/ WalkDone(E, w)
      /\ w.kind = "greedy" <=> walk.w.kind = "greedy"
    BY <1>2, TurnIs
<1>4. /\ w.error = "walking" =>
            walk' = [walk EXCEPT !.w = w] /\ UNCHANGED <<universeVars, objects, loop, call>>
      /\ w.error = "none" => GiveUniverse(arg, s, <<>>) /\ walk' = NoWalk
      /\ w.error \notin {"walking", "none"} =>
            RefuseUniverse(arg, <<>>, w.error) /\ walk' = NoWalk
    BY DEF VisitVertex
<1>5. E # {}
    <2>1. walk.w \in WalkOver(E)
        BY <1>2 DEF WalkOn, GreedyOn, QueueOn
    <2>2. walk.w.u \in Endpoints(E)
        BY <2>1, WalkFields
    <2> QED
        BY <2>2, EndpointsHave
<1>6. OutcomeOf(arg) =
            IF arg.traversal = "greedy" /\ (\E e \in E : e[1] = e[2]) THEN "ValueError"
            ELSE IF arg.traversal # "greedy" /\ HasPair(E) THEN "AssertionError"
            ELSE IF Cardinality(E) > ElemLimit THEN "RuntimeError" ELSE "none"
    BY <1>2, <1>5, WalkRefusal
<1> HIDE DEF w
<1>7. CASE WalkOn(E, w)
    <2>1. w.error = "walking"
        BY <1>7 DEF WalkOn, GreedyOn, QueueOn
    <2>2. walk' = [w |-> w, arg |-> arg, error |-> "walking"]
        BY <1>1, <1>4, <2>1
    <2>3. UNCHANGED <<elems, numElems, vertices, weights, accepted, call>>
        BY <1>4, <2>1 DEF universeVars
    <2>4. Traverses(w, arg)
        BY <1>2, <1>3, <1>7 DEF Traverses
    <2>5. walk'.w = w /\ walk'.arg = arg
        BY <2>2
    <2> HIDE DEF arg
    <2>6. WalkInv'
        BY <1>1, <2>2, <2>3, <2>4, <2>5 DEF WalkInv
    <2> QED
        BY <2>3, <2>6 DEF UniverseInv, TablesType, UniverseAgrees, NumbersAgree, VerticesAgree,
                          OutcomeInv
<1>8. ASSUME w.error # "walking", walk' = NoWalk PROVE WalkInv'
    BY <1>8 DEF WalkInv
<1>9. ASSUME w.error = "none", s \in Seq(E), IsInjective(s), ToSet(s) = E,
             OutcomeOf(arg) = IF Cardinality(E) > ElemLimit THEN "RuntimeError" ELSE "none"
      PROVE  UniverseInv' /\ OutcomeInv' /\ WalkInv'
    <2>1. GiveUniverse(arg, s, <<>>) /\ walk' = NoWalk
        BY <1>4, <1>9
    <2>2. DOMAIN <<>> \subseteq ToSet(s)
        OBVIOUS
    <2> HIDE DEF s, arg
    <2>3. UniverseInv' /\ Accepts(arg, s)
        BY <1>9, <2>1, <2>2, GivingUniverse
    <2>4. OutcomeInv'
        BY <1>9, <2>3, RefusedByLimit DEF arg
    <2> QED
        BY <1>8, <1>9, <2>1, <2>3, <2>4
<1>10. CASE GreedyOver(E, w)
    <2>1. w.kind = "greedy" /\ w.error = "none" /\ ListsAll(E, E, s)
        BY <1>10 DEF GreedyOver
    <2>2. /\ s \in Seq(E) /\ ToSet(s) = E
          /\ (\A e \in E : e[1] # e[2]) => IsInjective(s)
          /\ \A e \in E : e[1] = e[2] => Twice(s, e)
        BY <2>1 DEF ListsAll
    <2>3. arg.traversal = "greedy"
        BY <1>2, <1>3, <2>1
    <2>4. CASE \A e \in E : e[1] # e[2]
        <3>1. OutcomeOf(arg) = IF Cardinality(E) > ElemLimit THEN "RuntimeError" ELSE "none"
            BY <1>6, <2>3, <2>4
        <3> QED
            BY <1>9, <2>1, <2>2, <2>4, <3>1
    <2>5. CASE \E e \in E : e[1] = e[2]
        <3>1. OutcomeOf(arg) = "ValueError"
            BY <1>6, <2>3, <2>5
        <3>2. ~IsInjective(s)
            BY <2>2, <2>5 DEF Twice, IsInjective
        <3>3. GiveUniverse(arg, s, <<>>) /\ walk' = NoWalk
            BY <1>4, <2>1
        <3>4. DOMAIN <<>> \subseteq ToSet(s)
            OBVIOUS
        <3> HIDE DEF s, arg
        <3>5. UniverseInv' /\ Accepts(arg, s)
            BY <2>2, <3>3, <3>4, GivingUniverse
        <3>6. call'.arg = arg /\ call'.error = "ValueError"
            BY <3>2, <3>5 DEF Accepts
        <3>7. OutcomeInv'
            BY <3>1, <3>6 DEF OutcomeInv
        <3> QED
            BY <1>8, <2>1, <3>3, <3>5, <3>7
    <2> QED
        BY <2>4, <2>5
<1>11. CASE QueueOver(E, w)
    <2>1. w.kind # "greedy" /\ arg.traversal # "greedy"
        BY <1>2, <1>3, <1>11 DEF QueueOver
    <2>2. CASE HasPair(E)
        <3>1. w.error = "AssertionError" /\ OutcomeOf(arg) = "AssertionError"
            BY <1>6, <1>11, <2>1, <2>2 DEF QueueOver
        <3>2. RefuseUniverse(arg, <<>>, "AssertionError") /\ walk' = NoWalk
            BY <1>4, <3>1
        <3> HIDE DEF arg
        <3>3. /\ UniverseInv' /\ call'.op = "set_universe" /\ call'.arg = arg
              /\ call'.error = "AssertionError"
            BY <3>2, RefusingUniverse
        <3>4. OutcomeInv'
            BY <3>1, <3>3 DEF OutcomeInv
        <3> QED
            BY <1>8, <3>1, <3>2, <3>3, <3>4
    <2>3. CASE ~HasPair(E)
        <3>1. w.error = "none" /\ s \in Seq(E) /\ IsInjective(s) /\ ToSet(s) = E
            BY <1>11, <2>3 DEF QueueOver
        <3>2. OutcomeOf(arg) = IF Cardinality(E) > ElemLimit THEN "RuntimeError" ELSE "none"
            BY <1>6, <2>1, <2>3
        <3> QED
            BY <1>9, <3>1, <3>2
    <2> QED
        BY <2>2, <2>3
<1> QED
    BY <1>3, <1>7, <1>10, <1>11 DEF WalkDone

\* An edge that flip() names is one of the universe or its reverse: it joins
\* vertices that are there.
LEMMA GrowsIs ==
    ASSUME NEW o, NEW x \in Arguments, Grows(o, x), TablesType
    PROVE  /\ elems' = ConvElem(elems, numElems, x[2]).elems
           /\ numElems' = ConvElem(elems, numElems, x[2]).n
           /\ Endpoints(ToSet(elems) \cup {x[2]}) = Endpoints(ToSet(elems))
<1> DEFINE e == x[2]
           P == Endpoints(ToSet(elems))
<1>1. x[1] = "edge"
    <2>1. x[1] \in {"graph", "edge", "vertex"} /\ ConvArg(x)[1] = "edge"
        BY DiGraphSetsAssumption DEF Grows
    <2> QED
        BY <2>1 DEF ConvArg
<1>2. IsEdge(e)
    BY <1>1, DiGraphSetsAssumption
<1>3. Known(elems, Short(e)) \/ Known(elems, Backward(e))
    <2>1. ConvArg(x)[1] = "edge"
        BY DEF Grows
    <2>2. ConvEdge(e) # 0
        BY <1>1, <2>1 DEF ConvArg
    <2> QED
        BY <2>2 DEF ConvEdge
<1>4. Short(e)[1] = e[1] /\ Short(e)[2] = e[2] /\ Backward(e)[1] = e[2] /\ Backward(e)[2] = e[1]
    <2>1. e \in Seq(Int) /\ Len(e) \in 2..3
        BY <1>2 DEF IsEdge
    <2> HIDE DEF e
    <2> QED
        BY <2>1 DEF Short, Backward
<1>5. elems \in Seq(ToSet(elems))
    BY DEF TablesType
<1>6. Short(e) \in ToSet(elems) \/ Backward(e) \in ToSet(elems)
    BY <1>3, <1>5, ContainsIs DEF Known
<1>7. e[1] \in P /\ e[2] \in P
    BY <1>4, <1>6, EndpointsHave
<1>8. \A v : v \in Endpoints(ToSet(elems) \cup {e}) <=> v \in P
    <2> TAKE v
    <2> HIDE DEF e, P
    <2>1. v \in Endpoints(ToSet(elems) \cup {e}) <=>
            \E y \in ToSet(elems) \cup {e} : v = y[1] \/ v = y[2]
        BY EndpointsHave
    <2>2. v \in P <=> \E y \in ToSet(elems) : v = y[1] \/ v = y[2]
        BY EndpointsHave DEF P
    <2> QED
        BY <1>7, <2>1, <2>2
<1> QED
    BY <1>8 DEF Grows

LEMMA GrowsKeeps ==
    ASSUME UniverseInv, NEW o, NEW x \in Arguments, Grows(o, x)
    PROVE  UniverseInv'
<1> DEFINE e == x[2]
           t == ConvElem(elems, numElems, e)
           s == elems
           n == numElems
           X == ToSet(elems) \cup {e}
<1>1. /\ s \in Seq(ToSet(s)) /\ n \in Nat /\ IsInjective(s) /\ n >= Len(s)
      /\ n > Len(s) => \E d \in Dumps : n = Max((UNION d) \cup {0})
      /\ accepted => vertices = Endpoints(ToSet(s)) /\ DOMAIN weights \subseteq ToSet(s)
    BY DEF UniverseInv, TablesType, UniverseAgrees, NumbersAgree, VerticesAgree
<1>2. /\ elems' = t.elems /\ numElems' = t.n
      /\ Endpoints(X) = Endpoints(ToSet(s))
    BY GrowsIs DEF UniverseInv
<1>3. UNCHANGED <<vertices, weights, accepted>>
    BY DEF Grows
<1>4. s \in Seq(X) /\ e \in X /\ Len(s) \in Nat
    BY <1>1, SequencesWithin
<1> HIDE DEF t, e
<1>5. CASE e \in ToSet(s)
    <2>1. t = Tables(s, n, "none")
        BY <1>4, <1>5, ContainsIs DEF t, ConvElem, Known
    <2>2. elems' = s /\ numElems' = n
        BY <1>2, <2>1 DEF Tables
    <2> QED
        BY <1>1, <1>3, <2>2 DEF UniverseInv, TablesType, UniverseAgrees, NumbersAgree, VerticesAgree
<1>6. CASE e \notin ToSet(s)
    <2>1. t = AddElem(s, n, e)
        BY <1>4, <1>6, ContainsIs DEF t, ConvElem, Known
    <2>2. /\ Len(s) + 1 > ElemLimit => t.elems = s /\ t.n = n
          /\ Len(s) + 1 <= ElemLimit =>
                /\ t.elems = Append(s, e)
                /\ n <= Len(s) + 1 => t.n = Len(s) + 1
                /\ n > Len(s) + 1 => t.n = n
        BY <1>1, <1>4, <1>6, <2>1, AddElemIs
    <2>3. ElemLimit \in Nat
        BY DiGraphSetsAssumption
    <2>4. CASE Len(s) + 1 > ElemLimit
        <3>1. elems' = s /\ numElems' = n
            BY <1>2, <2>2, <2>4
        <3> QED
            BY <1>1, <1>3, <3>1
            DEF UniverseInv, TablesType, UniverseAgrees, NumbersAgree, VerticesAgree
    <2>5. CASE ~(Len(s) + 1 > ElemLimit)
        <3> DEFINE p == Append(s, e)
        <3>1. Len(s) + 1 <= ElemLimit
            BY <1>4, <2>3, <2>5
        <3>2. elems' = p /\ numElems' = IF n <= Len(s) + 1 THEN Len(s) + 1 ELSE n
            BY <1>1, <1>2, <1>4, <2>2, <3>1
        <3>3. p \in Seq(X) /\ Len(p) = Len(s) + 1
            BY <1>4, AppendFacts
        <3>4. IsInjective(p) /\ ToSet(p) = X
            BY <1>1, <1>4, <1>6, AppendNew
        <3> HIDE DEF p, X, n, s
        <3>5. p \in Seq(ToSet(p))
            BY <3>3, SequencesWithin
        <3>6. numElems' \in Nat /\ numElems' >= Len(p) /\ (numElems' > Len(p) => numElems' = n /\ n > Len(s))
            BY <1>1, <1>4, <3>2, <3>3
        <3>7. ToSet(s) \subseteq X
            BY DEF X, s
        <3> QED
            BY <1>1, <1>2, <1>3, <3>2, <3>4, <3>5, <3>6, <3>7
            DEF UniverseInv, TablesType, UniverseAgrees, NumbersAgree, VerticesAgree
    <2> QED
        BY <2>4, <2>5
<1> QED
    BY <1>5, <1>6

\* A dump counts the elements up to its largest one.
LEMMA CountsKeeps ==
    ASSUME UniverseInv, NEW dump \in Dumps, Counts(dump)
    PROVE  UniverseInv'
<1> DEFINE D == UNION dump
           n == numElems
           m == Max(D \cup {n})
<1>1. /\ n \in Nat /\ n >= Len(elems) /\ elems \in Seq(ToSet(elems))
      /\ n > Len(elems) => \E d \in Dumps : n = Max((UNION d) \cup {0})
      /\ IsInjective(elems) /\ VerticesAgree
    BY DEF UniverseInv, TablesType, UniverseAgrees, NumbersAgree
<1>2. /\ numElems' = m
      /\ UNCHANGED <<elems, vertices, weights, accepted>>
    BY DEF Counts, NewElems
<1>3. IsFiniteSet(D) /\ D \in SUBSET Nat
    BY DiGraphSetsAssumption
<1>4. PICK b \in Nat : D \in SUBSET (0..b)
    BY <1>3, FiniteBound
<1> HIDE DEF D, n, m
<1>5. m \in D \cup {n} /\ \A y \in D \cup {n} : m >= y
    <2>1. D \cup {n} \in SUBSET (0..(b + n)) /\ D \cup {n} # {} /\ b + n \in Nat
        BY <1>1, <1>4
    <2> QED
        BY <2>1, MaxIs DEF m
<1>6. m \in Nat /\ m >= n
    BY <1>1, <1>3, <1>5
<1>7. CASE m = n
    BY <1>1, <1>2, <1>7
    DEF UniverseInv, TablesType, UniverseAgrees, NumbersAgree, VerticesAgree, n
<1>8. CASE m # n
    <2> DEFINE k == Max(D \cup {0})
    <2>1. k \in D \cup {0} /\ \A y \in D \cup {0} : k >= y
        <3>1. D \cup {0} \in SUBSET (0..b) /\ D \cup {0} # {}
            BY <1>4
        <3> QED
            BY <3>1, MaxIs
    <2> HIDE DEF k
    <2>2. m \in D /\ \A y \in D : m >= y /\ y \in Nat
        BY <1>3, <1>5, <1>8
    <2>3. k = m
        BY <1>6, <2>1, <2>2
    <2>4. \E d \in Dumps : m = Max((UNION d) \cup {0})
        BY <2>3 DEF k, D
    <2>5. Len(elems) \in Nat
        BY <1>1
    <2>6. m >= Len(elems)
        BY <1>1, <1>6, <2>5
    <2> QED
        BY <1>1, <1>2, <1>6, <2>4, <2>6
        DEF UniverseInv, TablesType, UniverseAgrees, NumbersAgree, VerticesAgree
<1> QED
    BY <1>7, <1>8

\* The tables, the traversal that goes on and the last refusal, which together
\* every step keeps.
ClassInv == UniverseInv /\ OutcomeInv /\ WalkInv

LEMMA ClassStart == Init => ClassInv
<1> SUFFICES ASSUME Init PROVE ClassInv
    OBVIOUS
<1>1. /\ elems = <<>> /\ numElems = 0 /\ vertices = {} /\ weights = <<>>
      /\ call = NoCall /\ walk = NoWalk
    BY DEF Init
<1>2. <<>> \in Seq(ToSet(<<>>)) /\ IsInjective(<<>>) /\ ToSet(<<>>) = {} /\ Len(<<>>) = 0
    <2>1. DOMAIN <<>> = {}
        OBVIOUS
    <2> QED
        BY <2>1 DEF ToSet, IsInjective
<1>3. Endpoints({}) = {}
    BY DEF Endpoints
<1>4. /\ elems \in Seq(ToSet(elems)) /\ IsInjective(elems) /\ ToSet(elems) = {}
      /\ Len(elems) = 0 /\ DOMAIN weights = {}
    BY <1>1, <1>2
<1>5. numElems = 0 /\ vertices = {}
    BY <1>1
<1>6. UniverseInv
    BY <1>3, <1>4, <1>5
    DEF UniverseInv, TablesType, UniverseAgrees, NumbersAgree, VerticesAgree
<1> QED
    BY <1>1, <1>6 DEF ClassInv, OutcomeInv, WalkInv, NoCall

LEMMA ClassSteps ==
    ASSUME ClassInv, [Next]_vars
    PROVE  ClassInv'
<1>0. UniverseInv /\ OutcomeInv /\ WalkInv
    BY DEF ClassInv
<1>1. ASSUME UNCHANGED <<elems, numElems, vertices, weights, accepted>> PROVE UniverseInv'
    BY <1>0, <1>1 DEF UniverseInv, TablesType, UniverseAgrees, NumbersAgree, VerticesAgree
<1>2. ASSUME call'.op # "set_universe" PROVE OutcomeInv'
    BY <1>2 DEF OutcomeInv
<1>3. ASSUME walk = NoWalk, UNCHANGED walk PROVE WalkInv'
    BY <1>3 DEF WalkInv
<1>4. CASE CallObjects
    <2>1. walk = NoWalk
        BY <1>4 DEF CallObjects, Idle
    <2>2. CASE Quiet
        BY <1>1, <1>2, <1>3, <2>1, <2>2 DEF Quiet, ClassInv
    <2>3. CASE \E o \in Objects, x \in Arguments : Grows(o, x)
        <3>1. PICK o \in Objects, x \in Arguments : Grows(o, x)
            BY <2>3
        <3>2. UniverseInv'
            BY <1>0, <3>1, GrowsKeeps
        <3>3. call'.op # "set_universe" /\ UNCHANGED walk
            BY <3>1 DEF Grows
        <3> QED
            BY <1>2, <1>3, <2>1, <3>2, <3>3 DEF ClassInv
    <2>4. CASE \E dump \in Dumps : Counts(dump)
        <3>1. PICK dump \in Dumps : Counts(dump)
            BY <2>4
        <3>2. UniverseInv'
            BY <1>0, <3>1, CountsKeeps
        <3>3. call'.op # "set_universe" /\ UNCHANGED walk
            BY <3>1 DEF Counts
        <3> QED
            BY <1>2, <1>3, <2>1, <3>2, <3>3 DEF ClassInv
    <2> QED
        BY <1>4, <2>2, <2>3, <2>4, CallObjectsLeaves
<1>5. CASE CallUniverse
    <2>1. call = NoCall /\ walk = NoWalk
        BY <1>5 DEF CallUniverse, Idle
    <2>2. CASE \E list \in Lists : SetUniverseAsIs(list)
        <3>1. PICK list \in Lists : SetUniverseAsIs(list)
            BY <2>2
        <3>2. UniverseInv' /\ OutcomeInv'
            BY <1>0, <3>1, AsIsCalls
        <3>3. UNCHANGED walk
            BY <3>1 DEF SetUniverseAsIs
        <3> QED
            BY <1>3, <2>1, <3>2, <3>3 DEF ClassInv
    <2>3. CASE \E edges \in Walks, traversal \in Traversals, start \in Starts :
                    SetUniverse(edges, traversal, start)
        BY <1>0, <2>1, <2>3, StartCalls DEF ClassInv
    <2> QED
        BY <1>5, <2>2, <2>3 DEF CallUniverse
<1>6. CASE VisitVertex
    BY <1>0, <1>6, VisitCalls DEF ClassInv
<1>7. CASE Loop
    <2>1. walk = NoWalk
        BY <1>7 DEF Loop, Idle
    <2>2. UNCHANGED <<elems, numElems, vertices, weights, accepted, call, walk>>
        BY <1>7 DEF Loop, BeginLoop, FirstTurn, OtherTurn, LeaveLoop, universeVars
    <2>3. OutcomeInv'
        BY <1>0, <2>2 DEF OutcomeInv
    <2> QED
        BY <1>1, <1>3, <2>1, <2>2, <2>3 DEF ClassInv
<1>8. CASE Return \/ Restart
    <2>1. call # NoCall /\ call' = NoCall /\ UNCHANGED walk
        BY <1>8 DEF Return, Restart
    <2>2. walk = NoWalk
        BY <1>0, <2>1 DEF WalkInv
    <2>3. call'.op # "set_universe"
        BY <2>1 DEF NoCall
    <2>4. UniverseInv'
        <3>1. CASE Return
            BY <1>1, <3>1 DEF Return, universeVars
        <3>2. CASE Restart
            <4>1. elems' = <<>> /\ numElems' = 0 /\ vertices' = {} /\ weights' = <<>>
                BY <3>2 DEF Restart
            <4>2. /\ <<>> \in Seq(ToSet(<<>>)) /\ IsInjective(<<>>) /\ ToSet(<<>>) = {}
                  /\ Len(<<>>) = 0 /\ DOMAIN <<>> = {}
                <5>1. DOMAIN <<>> = {}
                    OBVIOUS
                <5> QED
                    BY <5>1 DEF ToSet, IsInjective
            <4>3. Endpoints({}) = {}
                BY DEF Endpoints
            <4>4. /\ elems' \in Seq(ToSet(elems')) /\ IsInjective(elems') /\ ToSet(elems') = {}
                  /\ Len(elems') = 0 /\ DOMAIN weights' = {}
                BY <4>1, <4>2
            <4>5. numElems' = 0 /\ vertices' = {}
                BY <4>1
            <4> QED
                BY <4>3, <4>4, <4>5
                DEF UniverseInv, TablesType, UniverseAgrees, NumbersAgree, VerticesAgree
        <3> QED
            BY <1>8, <3>1, <3>2
    <2> QED
        BY <1>2, <1>3, <2>1, <2>2, <2>3, <2>4 DEF ClassInv
<1>9. CASE UNCHANGED vars
    BY <1>9 DEF vars, universeVars, ClassInv, UniverseInv, TablesType, UniverseAgrees,
                NumbersAgree, VerticesAgree, OutcomeInv, WalkInv
<1> QED
    BY <1>4, <1>5, <1>6, <1>7, <1>8, <1>9 DEF Next

LEMMA ClassInvAlways == Spec => []ClassInv
<1>1. Init => ClassInv
    BY ClassStart
<1>2. ClassInv /\ [Next]_vars => ClassInv'
    BY ClassSteps
<1> QED
    BY <1>1, <1>2, PTL DEF Spec

\* Whatever universes came and went, were refused half-way or grew by flip()
\* and loads(), the two sides of a universe agree.
THEOREM UniverseAgreesAlways == Spec => []UniverseAgrees
<1>1. ClassInv => UniverseAgrees
    BY DEF ClassInv, UniverseInv
<1> QED
    BY <1>1, ClassInvAlways, PTL

\* set_universe() raises the exception that a repeated edge, an empty list, a
\* source that is no vertex or too many edges call for, none on others, and then
\* takes over each edge once, however the edges are walked.  The walks that can
\* fail though nothing is wrong with their universe are bfs and dfs of edges both
\* ways, by their assertion, and greedy ones with a self-loop.
THEOREM UniversesRefusedAlways == Spec => []UniversesRefused
<1>1. ASSUME OutcomeInv PROVE UniversesRefused
    <2> SUFFICES ASSUME call.op = "set_universe" PROVE UniversesRefused
        BY DEF UniversesRefused
    <2> DEFINE arg == call.arg
    <2>1. /\ call.error = OutcomeOf(arg)
          /\ call.error = "none" => ToSet(elems) = arg.edges /\ Len(elems) = Cardinality(arg.edges)
        BY <1>1 DEF OutcomeInv
    <2>2. \/ OutcomeOf(arg) = RefusalOf(arg)
          \/ BothWays(arg) /\ OutcomeOf(arg) = "AssertionError"
          \/ LoopsTwice(arg) /\ OutcomeOf(arg) = "ValueError"
        BY DEF OutcomeOf, RefusalOf, BothWays, LoopsTwice
    <2> QED
        BY <2>1, <2>2 DEF UniversesRefused
<1>2. ClassInv => OutcomeInv
    BY DEF ClassInv
<1> QED
    BY <1>1, <1>2, ClassInvAlways, PTL

\* No universe with edges in both directions between two vertices is taken over
\* by a breadth-first or depth-first walk, from whatever source: what the run
\* universe_both_ways shows of one universe is so of each.
THEOREM BothWaysNeverWalked ==
    Spec => [](call.op = "set_universe" /\ BothWays(call.arg) => call.error # "none")
<1>1. ClassInv => (call.op = "set_universe" /\ BothWays(call.arg) => call.error # "none")
    BY DEF ClassInv, OutcomeInv, OutcomeOf, BothWays
<1> QED
    BY <1>1, ClassInvAlways, PTL

\* Each turn of a walk visits a vertex that none before it has visited.
THEOREM WalkVisitsNewAlways == Spec => []WalkVisitsNew
<1>1. ClassInv => WalkVisitsNew
    <2> SUFFICES ASSUME WalkInv, walk # NoWalk PROVE walk.w.u \in Unvisited(walk.w)
        BY DEF ClassInv, WalkVisitsNew
    <2> DEFINE E == walk.arg.edges
               w == walk.w
    <2>1. WalkOn(E, w)
        BY DEF WalkInv, Traverses
    <2> HIDE DEF E, w
    <2>2. w \in WalkOver(E) /\ w.u \notin w.visited
        BY <2>1 DEF WalkOn, GreedyOn, QueueOn
    <2>3. w.edges = E /\ w.u \in Endpoints(E)
        BY <2>2, WalkFields
    <2>4. w.u \in Unvisited(w)
        BY <2>2, <2>3 DEF Unvisited
    <2> QED
        BY <2>4 DEF w
<1> QED
    BY <1>1, ClassInvAlways, PTL

LEMMA LeavingOrder ==
    ASSUME NEW E, NEW g, Numbered(E, g)
    PROVE  LET ends(a) == {g.edges[a][1], g.edges[a][2]}
               last(v) == Max({a \in DOMAIN g.edges : v \in ends(a)})
           IN  /\ UNION {ends(a) : a \in DOMAIN g.edges} = 1..g.n
               /\ \A v, w \in 1..g.n : v < w => last(v) <= last(w)
<1> DEFINE n == g.n
           k == Len(g.edges)
           ends(a) == {g.edges[a][1], g.edges[a][2]}
           at(v) == {a \in DOMAIN g.edges : v \in ends(a)}
<1>1. /\ n \in Nat /\ g.edges \in Seq((1..n) \X (1..n)) /\ k = Len(E)
      /\ \A v \in 1..n : \E x \in 1..k : v \in ends(x)
      /\ \A v \in 1..n : \A w \in v..n : \A x \in 1..k :
            v \in ends(x) => \E y \in x..k : w \in ends(y)
    BY DEF Numbered, BothEnds
<1>2. k \in Nat /\ DOMAIN g.edges = 1..k /\ \A a \in 1..k : g.edges[a] \in (1..n) \X (1..n)
    BY <1>1
<1>3. \A a \in 1..k : ends(a) \subseteq 1..n
    BY <1>2
<1> HIDE DEF n, k, ends
<1>4. UNION {ends(a) : a \in DOMAIN g.edges} = 1..n
    <2>1. \A v \in 1..n : \E a \in 1..k : v \in ends(a)
        BY <1>1
    <2>2. \A v : v \in UNION {ends(a) : a \in 1..k} <=> \E a \in 1..k : v \in ends(a)
        OBVIOUS
    <2>3. UNION {ends(a) : a \in 1..k} = 1..n
        BY <1>3, <2>1, <2>2
    <2> QED
        BY <1>2, <2>3
<1>5. ASSUME NEW v \in 1..n PROVE Max(at(v)) \in at(v) /\ \A a \in at(v) : Max(at(v)) >= a
    <2>1. at(v) \in SUBSET (0..k) /\ at(v) # {}
        <3>1. PICK x \in 1..k : v \in ends(x)
            BY <1>1
        <3>2. 1..k \in SUBSET (0..k)
            BY <1>2
        <3> QED
            BY <1>2, <3>1, <3>2
    <2> HIDE DEF at
    <2> QED
        BY <1>2, <2>1, MaxIs
<1>6. ASSUME NEW v \in 1..n, NEW w \in 1..n, v < w PROVE Max(at(v)) <= Max(at(w))
    <2>1. Max(at(v)) \in 1..k /\ v \in ends(Max(at(v))) /\ Max(at(w)) \in 1..k
        BY <1>2, <1>5
    <2> DEFINE x == Max(at(v))
    <2>2. w \in v..n
        BY <1>1, <1>6
    <2> HIDE DEF x
    <2>3. PICK y \in x..k : w \in ends(y)
        BY <1>1, <2>1, <2>2 DEF x
    <2>4. x \in 1..k /\ y \in DOMAIN g.edges
        BY <1>2, <2>1 DEF x
    <2>5. y \in at(w)
        BY <2>3, <2>4
    <2> HIDE DEF at
    <2>6. Max(at(w)) >= y
        BY <1>5, <2>5
    <2> QED
        BY <1>2, <2>1, <2>3, <2>4, <2>6 DEF x
<1> HIDE DEF at
<1>7. \A v, w \in 1..n : v < w => Max(at(v)) <= Max(at(w))
    BY <1>6
<1> QED
    BY <1>4, <1>7 DEF n, ends, at

\* In every universe the vertices of the graph that the searches get are
\* numbered in the order in which their last edges come.
THEOREM NumberedInLeavingOrderAlways == Spec => []NumberedInLeavingOrder
<1>1. ClassInv => NumberedInLeavingOrder
    <2> SUFFICES ASSUME ClassInv PROVE NumberedInLeavingOrder
        OBVIOUS
    <2>1. elems \in Seq(ToSet(elems))
        BY DEF ClassInv, UniverseInv, TablesType
    <2>2. UniqueEdges(elems) \in Seq(ToSet(elems))
        BY <2>1, UniqueEdgesIs
    <2>3. Numbered(UniqueEdges(elems), SearchGraph)
        BY <2>2, NumberedIs DEF SearchGraph, Update
    <2> QED
        BY <2>3, LeavingOrder DEF NumberedInLeavingOrder
<1> QED
    BY <1>1, ClassInvAlways, PTL
-----------------------------------------------------------------------------
(***************************************************************************)
(* Loops over an object.                                                   *)
(***************************************************************************)
LoopRecord(stage, kind, left, heavy, given, family, universe, prices, steady) ==
    [stage |-> stage, kind |-> kind, left |-> left, heavy |-> heavy, given |-> given,
     family |-> family, universe |-> universe, prices |-> prices, steady |-> steady]

\* The sets of a loop that its first universe can name, and their graphs.
KnownSets(l) == {s \in l.family : Nameable(l.universe, s)}
GraphsOf(l) == {Named(l.universe, s) : s \in KnownSets(l)}
NotYet(l, k) == GraphsOf(l) \ {l.given[j] : j \in 1..(k - 1)}
PriceOf(l, g) == Weight(g, PriceIn(l.universe, l.prices))

InOrder(l) ==
    \A k \in DOMAIN l.given : \A g \in NotYet(l, k) :
        /\ l.kind = "min" => PriceOf(l, l.given[k]) <= PriceOf(l, g)
        /\ l.kind = "max" => PriceOf(l, l.given[k]) >= PriceOf(l, g)

\* A loop that found its universe at each turn has given the graphs of the sets
\* that are not left; a number weighs what the edge of that number costs.
Keeps(l) ==
    /\ IsInjective(l.universe) /\ l.left \subseteq l.family
    /\ \A s \in l.family \ l.left : Nameable(l.universe, s)
    /\ l.given \in Seq(SUBSET ToSet(l.universe)) /\ IsInjective(l.given)
    /\ ToSet(l.given) = {Named(l.universe, s) : s \in l.family \ l.left}
    /\ l.stage = "ended" => l.left = {}
    /\ l.stage = "IndexError" => \E s \in l.left : ~Nameable(l.universe, s)
    /\ l.kind \in {"min", "max"} =>
            \A s \in KnownSets(l) : Weight(s, l.heavy) = PriceOf(l, Named(l.universe, s))
    /\ InOrder(l)

IsLoop(l) ==
    /\ l = LoopRecord(l.stage, l.kind, l.left, l.heavy, l.given, l.family, l.universe, l.prices,
                      l.steady)
    /\ l.stage \in {"made", "running", "ended", "KeyError", "IndexError"}
    /\ l.steady \in BOOLEAN
    /\ l.steady => Keeps(l)

LoopInv == loop = NoLoop \/ IsLoop(loop)

\* The weights that a universe is given are numbers.
WeightsInv == \A e \in DOMAIN weights : weights[e] \in Int

\* A set of numbers weighs what the graph it stands for costs.
LEMMA WeighedAsPriced ==
    ASSUME NEW X, NEW U \in Seq(X), IsInjective(U), NEW n \in Nat, n >= Len(U),
           NEW W, \A e \in DOMAIN W : W[e] \in Int, NEW s \in SUBSET DOMAIN U
    PROVE  Weight(s, WeightsByNumber(U, n, W)) = Weight(Named(U, s), PriceIn(U, W))
<1> DEFINE T == DOMAIN U
           h == WeightsByNumber(U, n, W)
           p == PriceIn(U, W)
           named(x) == Named(U, x)
<1>1. T = 1..Len(U) /\ Len(U) \in Nat /\ IsFiniteSet(T) /\ IsFiniteSet(ToSet(U))
    <2>1. DOMAIN U = 1..Len(U) /\ Len(U) \in Nat
        OBVIOUS
    <2>2. IsFiniteSet(ToSet(U))
        BY LengthIs
    <2> QED
        BY <2>1, <2>2, FS_Interval
<1>2. \A i \in T : U[i] \in ToSet(U) /\ h[i] \in Int /\ p[U[i]] = h[i]
    <2>1. ASSUME NEW i \in T PROVE U[i] \in ToSet(U) /\ h[i] \in Int /\ p[U[i]] = h[i]
        <3>1. U[i] \in ToSet(U)
            BY DEF ToSet
        <3>2. i \in 1..n
            BY <1>1
        <3> QED
            BY <3>1, <3>2 DEF WeightsByNumber, PriceIn
    <2> QED
        BY <2>1
<1>3. \A e \in ToSet(U) : p[e] \in Int
    <2>1. ASSUME NEW e \in ToSet(U) PROVE p[e] \in Int
        <3>1. PICK i \in T : e = U[i]
            BY DEF ToSet
        <3> QED
            BY <1>2, <3>1
    <2> QED
        BY <2>1
<1>4. \A a, b \in T : U[a] = U[b] => a = b
    BY DEF IsInjective
<1>5. ASSUME NEW x \in SUBSET T
      PROVE  /\ named(x) \in SUBSET ToSet(U)
             /\ x = {} => named(x) = {}
             /\ \A i \in x : U[i] \in named(x) /\ named(x \ {i}) = named(x) \ {U[i]}
    BY <1>2, <1>4 DEF Named
<1> HIDE DEF T, h, p, named
<1>6. /\ Weight({}, h) = 0
      /\ \A x \in SUBSET T : \A i \in x : Weight(x, h) = h[i] + Weight(x \ {i}, h)
    BY <1>1, <1>2, SumFacts
<1>7. /\ Weight({}, p) = 0
      /\ \A g \in SUBSET ToSet(U) : \A e \in g : Weight(g, p) = p[e] + Weight(g \ {e}, p)
    BY <1>1, <1>3, SumFacts
<1> DEFINE Good == {x \in SUBSET s : Weight(x, h) = Weight(named(x), p)}
<1>8. ASSUME NEW x \in SUBSET s, \A i \in x : x \ {i} \in Good PROVE x \in Good
    <2>0. s \in SUBSET T /\ x \in SUBSET T
        BY DEF T
    <2>1. CASE x = {}
        BY <1>5, <1>6, <1>7, <2>0, <2>1
    <2>2. CASE x # {}
        <3>1. PICK i \in x : TRUE
            BY <2>2
        <3>2. Weight(x \ {i}, h) = Weight(named(x \ {i}), p)
            BY <1>8
        <3>3. /\ Weight(x, h) = h[i] + Weight(x \ {i}, h)
              /\ U[i] \in named(x) /\ named(x \ {i}) = named(x) \ {U[i]}
              /\ named(x) \in SUBSET ToSet(U) /\ p[U[i]] = h[i]
            BY <1>2, <1>5, <1>6, <2>0
        <3>4. Weight(named(x), p) = p[U[i]] + Weight(named(x) \ {U[i]}, p)
            BY <1>7, <3>3
        <3> QED
            BY <3>2, <3>3, <3>4
    <2> QED
        BY <2>1, <2>2
<1>9. IsFiniteSet(s)
    BY <1>1, FS_Subset DEF T
<1> HIDE DEF Good
<1>10. s \in Good
    BY <1>8, <1>9, SetInduction
<1> QED
    BY <1>10 DEF Good, h, p, named

\* Its own turn ends a loop that has nothing left.
LEMMA EndKeeps ==
    ASSUME NEW l, IsLoop(l), l.left = {}, l.stage \in {"made", "running"}
    PROVE  IsLoop([l EXCEPT !.stage = "ended"])
<1> DEFINE m == LoopRecord("ended", l.kind, l.left, l.heavy, l.given, l.family, l.universe,
                           l.prices, l.steady)
<1>1. l = LoopRecord(l.stage, l.kind, l.left, l.heavy, l.given, l.family, l.universe, l.prices,
                     l.steady)
    BY DEF IsLoop
<1>2. [l EXCEPT !.stage = "ended"] = m
    BY <1>1 DEF LoopRecord
<1>3. /\ m.stage = "ended" /\ m.kind = l.kind /\ m.left = l.left /\ m.heavy = l.heavy
      /\ m.given = l.given /\ m.family = l.family /\ m.universe = l.universe
      /\ m.prices = l.prices /\ m.steady = l.steady
    BY DEF LoopRecord
<1>4. m = LoopRecord(m.stage, m.kind, m.left, m.heavy, m.given, m.family, m.universe, m.prices,
                     m.steady)
    BY <1>3
<1> HIDE DEF m
<1>5. ASSUME Keeps(l) PROVE Keeps(m)
    BY <1>3, <1>5
    DEF Keeps, KnownSets, GraphsOf, NotYet, PriceOf, InOrder
<1> QED
    BY <1>2, <1>3, <1>4, <1>5 DEF IsLoop

\* A set that its first universe cannot name is left.
LEMMA IndexErrorKeeps ==
    ASSUME NEW l, IsLoop(l), NEW s \in l.left,
           l.steady => ~Nameable(l.universe, s)
    PROVE  IsLoop([l EXCEPT !.stage = "IndexError"])
<1> DEFINE m == LoopRecord("IndexError", l.kind, l.left, l.heavy, l.given, l.family, l.universe,
                           l.prices, l.steady)
<1>1. l = LoopRecord(l.stage, l.kind, l.left, l.heavy, l.given, l.family, l.universe, l.prices,
                     l.steady)
    BY DEF IsLoop
<1>2. [l EXCEPT !.stage = "IndexError"] = m
    BY <1>1 DEF LoopRecord
<1>3. /\ m.stage = "IndexError" /\ m.kind = l.kind /\ m.left = l.left /\ m.heavy = l.heavy
      /\ m.given = l.given /\ m.family = l.family /\ m.universe = l.universe
      /\ m.prices = l.prices /\ m.steady = l.steady
    BY DEF LoopRecord
<1>4. m = LoopRecord(m.stage, m.kind, m.left, m.heavy, m.given, m.family, m.universe, m.prices,
                     m.steady)
    BY <1>3
<1> HIDE DEF m
<1>5. ASSUME Keeps(l), l.steady PROVE Keeps(m)
    BY <1>3, <1>5
    DEF Keeps, KnownSets, GraphsOf, NotYet, PriceOf, InOrder
<1> QED
    BY <1>2, <1>3, <1>4, <1>5 DEF IsLoop

\* The next graph is one not given before and, of those, the cheapest or the
\* dearest if the loop is by weight.
LEMMA NextKeeps ==
    ASSUME NEW l, Keeps(l), NEW s \in FirstSets(l), Nameable(l.universe, s),
           NEW m, m.stage = "running", m.kind = l.kind, m.left = l.left \ {s}, m.heavy = l.heavy,
           m.given = Append(l.given, Named(l.universe, s)), m.family = l.family,
           m.universe = l.universe, m.prices = l.prices
    PROVE  Keeps(m)
<1> DEFINE U == l.universe
           g == Named(U, s)
           n == Len(l.given)
           S == SUBSET ToSet(U)
<1>1. s \in l.left /\ s \in l.family /\ s \in KnownSets(l)
    BY DEF FirstSets, Keeps, KnownSets
<1>2. ASSUME NEW t, Nameable(U, t), Named(U, t) = g PROVE t = s
    <2>1. \A a, b \in DOMAIN U : U[a] = U[b] => a = b
        BY DEF Keeps, IsInjective
    <2>2. t \subseteq DOMAIN U /\ s \subseteq DOMAIN U
        BY <1>2 DEF Nameable
    <2>3. {U[i] : i \in t} = {U[i] : i \in s}
        BY <1>2 DEF Named
    <2> HIDE DEF U
    <2>4. ASSUME NEW i \in t PROVE i \in s
        <3>1. U[i] \in {U[j] : j \in s}
            BY <2>3
        <3>2. PICK j \in s : U[i] = U[j]
            BY <3>1
        <3> QED
            BY <2>1, <2>2, <3>2
    <2>5. ASSUME NEW i \in s PROVE i \in t
        <3>1. U[i] \in {U[j] : j \in t}
            BY <2>3
        <3>2. PICK j \in t : U[i] = U[j]
            BY <3>1
        <3> QED
            BY <2>1, <2>2, <3>2
    <2> QED
        BY <2>4, <2>5
<1>3. /\ l.given \in Seq(S) /\ IsInjective(l.given) /\ n \in Nat /\ DOMAIN l.given = 1..n
      /\ ToSet(l.given) = {Named(U, t) : t \in l.family \ l.left}
    BY DEF Keeps
<1>4. g \in S
    BY DEF Nameable, Named, ToSet
<1>5. g \notin ToSet(l.given)
    <2>1. \A t \in l.family \ l.left : Nameable(U, t) /\ t # s
        BY <1>1 DEF Keeps
    <2> HIDE DEF U, g
    <2> QED
        BY <1>2, <1>3, <2>1
<1> HIDE DEF g, S
<1>6. /\ m.given \in Seq(S) /\ Len(m.given) = n + 1 /\ DOMAIN m.given = 1..(n + 1)
      /\ m.given[n + 1] = g /\ \A i \in 1..n : m.given[i] = l.given[i]
    <2>1. m.given = Append(l.given, g)
        BY DEF g
    <2>2. m.given \in Seq(S) /\ Len(m.given) = n + 1
        BY <1>3, <1>4, <2>1, AppendFacts
    <2>3. m.given[n + 1] = g /\ \A i \in 1..n : m.given[i] = l.given[i]
        BY <1>3, <1>4, <2>1, AppendFacts
    <2>4. DOMAIN m.given = 1..(n + 1)
        BY <2>2
    <2> QED
        BY <2>2, <2>3, <2>4
<1> HIDE DEF n
<1>7. \A i \in 1..n : l.given[i] \in ToSet(l.given)
    BY <1>3 DEF ToSet
<1>8. IsInjective(m.given)
    <2> SUFFICES ASSUME NEW a \in 1..(n + 1), NEW b \in 1..(n + 1), m.given[a] = m.given[b]
                 PROVE  a = b
        BY <1>6 DEF IsInjective
    <2>1. (a \in 1..n \/ a = n + 1) /\ (b \in 1..n \/ b = n + 1)
        BY <1>3
    <2>2. CASE a \in 1..n /\ b \in 1..n
        BY <1>3, <1>6, <2>2 DEF IsInjective
    <2> QED
        BY <1>5, <1>6, <1>7, <2>1, <2>2
<1>9. ToSet(m.given) = ToSet(l.given) \cup {g}
    <2>1. 1..(n + 1) = 1..n \cup {n + 1}
        BY <1>3
    <2> QED
        BY <1>3, <1>6, <2>1 DEF ToSet
<1>10. m.family \ m.left = (l.family \ l.left) \cup {s}
    BY <1>1
<1>11. ToSet(m.given) = {Named(m.universe, t) : t \in m.family \ m.left}
    BY <1>3, <1>9, <1>10 DEF g
<1>12. /\ KnownSets(m) = KnownSets(l) /\ GraphsOf(m) = GraphsOf(l)
       /\ \A x : PriceOf(m, x) = PriceOf(l, x)
    BY DEF KnownSets, GraphsOf, PriceOf
<1>13. \A k \in 1..(n + 1) : NotYet(m, k) = NotYet(l, k)
    <2>1. ASSUME NEW k \in 1..(n + 1) PROVE NotYet(m, k) = NotYet(l, k)
        <3>1. \A j \in 1..(k - 1) : m.given[j] = l.given[j]
            BY <1>3, <1>6
        <3> QED
            BY <1>12, <3>1 DEF NotYet
    <2> QED
        BY <2>1
<1>14. \A x \in NotYet(l, n + 1) : \E t \in l.left : t \in KnownSets(l) /\ x = Named(U, t)
    <2>1. ASSUME NEW x \in NotYet(l, n + 1)
          PROVE  \E t \in l.left : t \in KnownSets(l) /\ x = Named(U, t)
        <3>1. (n + 1) - 1 = n
            BY <1>3
        <3>2. x \in GraphsOf(l) /\ x \notin {l.given[j] : j \in 1..n}
            BY <2>1, <3>1 DEF NotYet
        <3>3. x \notin ToSet(l.given)
            BY <1>3, <3>2 DEF ToSet
        <3>4. PICK t \in KnownSets(l) : x = Named(U, t)
            BY <3>2 DEF GraphsOf
        <3>5. t \in l.family
            BY DEF KnownSets
        <3> QED
            BY <1>3, <3>3, <3>4, <3>5
    <2> QED
        BY <2>1
<1>15. InOrder(m)
    <2> SUFFICES ASSUME NEW k \in 1..(n + 1), NEW x \in NotYet(l, k)
                 PROVE  /\ l.kind = "min" => PriceOf(l, m.given[k]) <= PriceOf(l, x)
                        /\ l.kind = "max" => PriceOf(l, m.given[k]) >= PriceOf(l, x)
        BY <1>6, <1>12, <1>13 DEF InOrder
    <2>1. CASE k \in 1..n
        <3>1. InOrder(l) /\ k \in DOMAIN l.given /\ m.given[k] = l.given[k]
            BY <1>3, <1>6, <2>1 DEF Keeps
        <3> QED
            BY <3>1 DEF InOrder
    <2>2. CASE k = n + 1
        <3>1. PICK t \in l.left : t \in KnownSets(l) /\ x = Named(U, t)
            BY <1>14, <2>2
        <3>2. l.kind \in {"min", "max"} =>
                    /\ Weight(s, l.heavy) = PriceOf(l, g)
                    /\ Weight(t, l.heavy) = PriceOf(l, x)
            BY <1>1, <3>1 DEF Keeps, g
        <3>3. /\ l.kind = "min" => Weight(s, l.heavy) <= Weight(t, l.heavy)
              /\ l.kind = "max" => Weight(s, l.heavy) >= Weight(t, l.heavy)
            BY <3>1 DEF FirstSets
        <3> QED
            BY <1>6, <2>2, <3>2, <3>3
    <2> QED
        BY <1>3, <2>1, <2>2
<1>16. \A t \in m.family \ m.left : Nameable(m.universe, t)
    BY <1>10 DEF Keeps
<1>17. m.kind \in {"min", "max"} =>
            \A t \in KnownSets(m) : Weight(t, m.heavy) = PriceOf(m, Named(m.universe, t))
    BY <1>12 DEF Keeps
<1>18. IsInjective(m.universe) /\ m.left \subseteq m.family
    BY DEF Keeps
<1> QED
    BY <1>6, <1>8, <1>11, <1>15, <1>16, <1>17, <1>18 DEF Keeps, S

LEMMA GiveNextKeeps ==
    ASSUME NEW l, IsLoop(l), l.stage \in {"made", "running"}, GiveNext(l)
    PROVE  IsLoop(loop')
<1> DEFINE m == IF l.steady /\ elems # l.universe THEN Unsteady(l) ELSE l
<1>1. IsLoop(m) /\ m.left = l.left /\ m.kind = l.kind /\ m.heavy = l.heavy
    <2>1. CASE l.steady /\ elems # l.universe
        <3>1. l = LoopRecord(l.stage, l.kind, l.left, l.heavy, l.given, l.family, l.universe,
                             l.prices, l.steady)
            BY DEF IsLoop
        <3>2. m = LoopRecord(l.stage, l.kind, l.left, l.heavy, <<>>, {}, <<>>, <<>>, FALSE)
            BY <2>1, <3>1 DEF Unsteady, LoopRecord
        <3> HIDE DEF m
        <3>3. /\ m.stage = l.stage /\ m.kind = l.kind /\ m.left = l.left /\ m.heavy = l.heavy
              /\ m.given = <<>> /\ m.family = {} /\ m.universe = <<>> /\ m.prices = <<>>
              /\ m.steady = FALSE
            BY <3>2 DEF LoopRecord
        <3> QED
            BY <3>2, <3>3 DEF IsLoop
    <2>2. CASE ~(l.steady /\ elems # l.universe)
        BY <2>2
    <2> QED
        BY <2>1, <2>2
<1>2. CASE l.left = {}
    BY <1>2, EndKeeps DEF GiveNext
<1>3. CASE l.left # {}
    <2>1. PICK s \in FirstSets(l) :
            loop' = IF Nameable(elems, s)
                    THEN [m EXCEPT !.stage = "running", !.left = @ \ {s},
                                   !.given = IF m.steady THEN Append(@, Named(elems, s)) ELSE @]
                    ELSE [m EXCEPT !.stage = "IndexError"]
        BY <1>3 DEF GiveNext
    <2>2. m.steady => m = l /\ l.steady /\ elems = l.universe /\ Keeps(l)
        <3>1. CASE l.steady /\ elems # l.universe
            <4>1. l = LoopRecord(l.stage, l.kind, l.left, l.heavy, l.given, l.family, l.universe,
                                 l.prices, l.steady)
                BY DEF IsLoop
            <4>2. m = LoopRecord(l.stage, l.kind, l.left, l.heavy, <<>>, {}, <<>>, <<>>, FALSE)
                BY <3>1, <4>1 DEF Unsteady, LoopRecord
            <4> HIDE DEF m
            <4> QED
                BY <4>2 DEF LoopRecord
        <3>2. CASE ~(l.steady /\ elems # l.universe)
            BY <3>2 DEF IsLoop
        <3> QED
            BY <3>1, <3>2
    <2> HIDE DEF m
    <2>3. s \in m.left
        BY <1>1 DEF FirstSets
    <2>4. CASE ~Nameable(elems, s)
        <3>1. loop' = [m EXCEPT !.stage = "IndexError"]
            BY <2>1, <2>4
        <3>2. m.steady => ~Nameable(m.universe, s)
            BY <2>2, <2>4
        <3> QED
            BY <1>1, <2>3, <3>1, <3>2, IndexErrorKeeps
    <2>5. CASE Nameable(elems, s)
        <3> DEFINE given == IF m.steady THEN Append(m.given, Named(elems, s)) ELSE m.given
                   r == LoopRecord("running", m.kind, m.left \ {s}, m.heavy, given, m.family,
                                   m.universe, m.prices, m.steady)
        <3>1. m = LoopRecord(m.stage, m.kind, m.left, m.heavy, m.given, m.family, m.universe,
                             m.prices, m.steady)
            BY <1>1 DEF IsLoop
        <3>2. loop' = [m EXCEPT !.stage = "running", !.left = m.left \ {s}, !.given = given]
            BY <2>1, <2>5
        <3> HIDE DEF given
        <3>3. loop' = r
            BY <3>1, <3>2 DEF LoopRecord
        <3>4. /\ r.stage = "running" /\ r.kind = m.kind /\ r.left = m.left \ {s}
              /\ r.heavy = m.heavy /\ r.given = given /\ r.family = m.family
              /\ r.universe = m.universe /\ r.prices = m.prices /\ r.steady = m.steady
            BY DEF LoopRecord
        <3>5. r = LoopRecord(r.stage, r.kind, r.left, r.heavy, r.given, r.family, r.universe,
                             r.prices, r.steady)
            BY <3>4
        <3> HIDE DEF r
        <3>6. ASSUME m.steady PROVE Keeps(r)
            <4>1. m = l /\ elems = m.universe /\ Keeps(m) /\ s \in FirstSets(m)
                BY <2>1, <2>2, <3>6
            <4>2. Nameable(m.universe, s) /\ r.given = Append(m.given, Named(m.universe, s))
                BY <2>5, <3>4, <3>6, <4>1 DEF given
            <4> QED
                BY <3>4, <4>1, <4>2, NextKeeps
        <3> QED
            BY <1>1, <3>3, <3>4, <3>5, <3>6 DEF IsLoop
    <2> QED
        BY <2>4, <2>5
<1> QED
    BY <1>2, <1>3

\* The loop has read its object: nothing is given yet.
LEMMA FirstKeeps ==
    ASSUME ClassInv, WeightsInv, NEW kind,
           NEW l, l = LoopRecord("made", kind, objects[Looped],
                          IF kind = "any" THEN <<>> ELSE WeightsByNumber(elems, numElems, weights),
                          <<>>, objects[Looped], elems, IF kind = "any" THEN <<>> ELSE weights,
                          TRUE)
    PROVE  IsLoop(l)
<1>1. /\ l.stage = "made" /\ l.kind = kind /\ l.left = objects[Looped] /\ l.given = <<>>
      /\ l.family = objects[Looped] /\ l.universe = elems /\ l.steady = TRUE
      /\ l.kind # "any" => /\ l.heavy = WeightsByNumber(elems, numElems, weights)
                           /\ l.prices = weights
    BY DEF LoopRecord
<1>2. l = LoopRecord(l.stage, l.kind, l.left, l.heavy, l.given, l.family, l.universe, l.prices,
                     l.steady)
    BY DEF LoopRecord
<1>3. /\ elems \in Seq(ToSet(elems)) /\ IsInjective(elems)
      /\ numElems \in Nat /\ numElems >= Len(elems)
    BY DEF ClassInv, UniverseInv, TablesType, UniverseAgrees, NumbersAgree
<1>4. /\ l.given \in Seq(SUBSET ToSet(l.universe)) /\ IsInjective(l.given) /\ ToSet(l.given) = {}
      /\ DOMAIN l.given = {}
    <2>1. DOMAIN <<>> = {} /\ <<>> \in Seq(SUBSET ToSet(l.universe))
        OBVIOUS
    <2> QED
        BY <1>1, <2>1 DEF ToSet, IsInjective
<1>5. ASSUME l.kind \in {"min", "max"}
      PROVE  \A s \in KnownSets(l) : Weight(s, l.heavy) = PriceOf(l, Named(l.universe, s))
    <2>1. ASSUME NEW s \in KnownSets(l)
          PROVE  Weight(s, l.heavy) = PriceOf(l, Named(l.universe, s))
        <3>1. s \in SUBSET DOMAIN elems
            BY <1>1 DEF KnownSets, Nameable
        <3>2. Weight(s, WeightsByNumber(elems, numElems, weights))
                    = Weight(Named(elems, s), PriceIn(elems, weights))
            BY <1>3, <3>1, WeighedAsPriced DEF WeightsInv
        <3>3. l.kind # "any"
            BY <1>5
        <3> QED
            BY <1>1, <3>2, <3>3 DEF PriceOf
    <2> QED
        BY <2>1
<1>6. InOrder(l)
    BY <1>4 DEF InOrder
<1>7. l.family \ l.left = {}
    <2>1. l.family = l.left
        BY <1>1
    <2> QED
        BY <2>1
<1>8. Keeps(l)
    BY <1>1, <1>3, <1>4, <1>5, <1>6, <1>7 DEF Keeps
<1> QED
    BY <1>1, <1>2, <1>8 DEF IsLoop

LEMMA LoopTurns ==
    ASSUME ClassInv, WeightsInv, LoopInv, Loop
    PROVE  LoopInv'
<1>1. ASSUME NEW kind, BeginLoop(kind) PROVE LoopInv'
    <2> DEFINE l == LoopRecord("made", kind, {}, <<>>, <<>>, {}, <<>>, <<>>, TRUE)
    <2>1. loop' = l
        BY <1>1 DEF BeginLoop, LoopRecord
    <2>2. /\ l.stage = "made" /\ l.kind = kind /\ l.left = {} /\ l.heavy = <<>> /\ l.given = <<>>
          /\ l.family = {} /\ l.universe = <<>> /\ l.prices = <<>> /\ l.steady = TRUE
        BY DEF LoopRecord
    <2>3. l = LoopRecord(l.stage, l.kind, l.left, l.heavy, l.given, l.family, l.universe,
                         l.prices, l.steady)
        BY <2>2
    <2> HIDE DEF l
    <2>4. DOMAIN <<>> = {} /\ <<>> \in Seq(SUBSET ToSet(l.universe))
        OBVIOUS
    <2>5. /\ IsInjective(l.universe) /\ IsInjective(l.given) /\ ToSet(l.given) = {}
          /\ KnownSets(l) = {} /\ InOrder(l)
        BY <2>2, <2>4 DEF IsInjective, ToSet, KnownSets, InOrder
    <2>6. Keeps(l)
        BY <2>2, <2>4, <2>5 DEF Keeps
    <2> QED
        BY <2>1, <2>2, <2>3, <2>6 DEF LoopInv, IsLoop
<1>2. ASSUME loop # NoLoop, FirstTurn PROVE LoopInv'
    <2>1. IsLoop(loop) /\ loop.stage = "made"
        BY <1>2 DEF LoopInv, FirstTurn
    <2>2. CASE loop' = [loop EXCEPT !.stage = "KeyError"]
        <3> DEFINE m == LoopRecord("KeyError", loop.kind, loop.left, loop.heavy, loop.given,
                                   loop.family, loop.universe, loop.prices, loop.steady)
        <3>1. loop = LoopRecord(loop.stage, loop.kind, loop.left, loop.heavy, loop.given,
                                loop.family, loop.universe, loop.prices, loop.steady)
            BY <2>1 DEF IsLoop
        <3>2. loop' = m
            BY <2>2, <3>1 DEF LoopRecord
        <3>3. /\ m.stage = "KeyError" /\ m.kind = loop.kind /\ m.left = loop.left
              /\ m.heavy = loop.heavy /\ m.given = loop.given /\ m.family = loop.family
              /\ m.universe = loop.universe /\ m.prices = loop.prices /\ m.steady = loop.steady
            BY DEF LoopRecord
        <3>4. m = LoopRecord(m.stage, m.kind, m.left, m.heavy, m.given, m.family, m.universe,
                             m.prices, m.steady)
            BY <3>3
        <3> HIDE DEF m
        <3>5. ASSUME Keeps(loop) PROVE Keeps(m)
            BY <3>3, <3>5 DEF Keeps, KnownSets, GraphsOf, NotYet, PriceOf, InOrder
        <3>6. IsLoop(m)
            BY <2>1, <3>3, <3>4, <3>5 DEF IsLoop
        <3> QED
            BY <3>2, <3>6 DEF LoopInv
    <2>3. CASE loop' # [loop EXCEPT !.stage = "KeyError"]
        <3> DEFINE l == LoopRecord("made", loop.kind, objects[Looped],
                            IF loop.kind = "any" THEN <<>>
                            ELSE WeightsByNumber(elems, numElems, weights),
                            <<>>, objects[Looped], elems,
                            IF loop.kind = "any" THEN <<>> ELSE weights, TRUE)
        <3>1. GiveNext(l)
            BY <1>2, <2>1, <2>3 DEF FirstTurn, LoopRecord
        <3>2. l.stage = "made"
            BY DEF LoopRecord
        <3>3. IsLoop(l)
            <4> DEFINE k == loop.kind
            <4> HIDE DEF k
            <4> QED
                BY FirstKeeps
        <3> HIDE DEF l
        <3> QED
            BY <3>1, <3>2, <3>3, GiveNextKeeps DEF LoopInv
    <2> QED
        BY <2>2, <2>3
<1>3. ASSUME loop # NoLoop, OtherTurn PROVE LoopInv'
    <2>1. IsLoop(loop) /\ loop.stage = "running" /\ GiveNext(loop)
        BY <1>3 DEF LoopInv, OtherTurn
    <2> QED
        BY <2>1, GiveNextKeeps DEF LoopInv
<1>4. ASSUME LeaveLoop PROVE LoopInv'
    BY <1>4 DEF LeaveLoop, LoopInv
<1> QED
    BY <1>1, <1>2, <1>3, <1>4 DEF Loop

\* The weights that a list gives are numbers.
LEMMA WeightsAreNumbers ==
    ASSUME NEW list \in Seq(Seq(Int)), NEW e \in DOMAIN WeightsOf(list)
    PROVE  WeightsOf(list)[e] \in Int
<1> DEFINE heavy == {k \in DOMAIN list : Len(list[k]) > 2}
           c == CHOOSE k \in heavy : Short(list[k]) = e
<1>1. e \in {Short(list[k]) : k \in heavy} /\ WeightsOf(list)[e] = list[c][3]
    BY DEF WeightsOf
<1>2. c \in heavy
    BY <1>1
<1> HIDE DEF c
<1>3. list[c] \in Seq(Int) /\ Len(list[c]) > 2
    BY <1>2
<1> DEFINE edge == list[c]
<1>4. edge \in Seq(Int) /\ Len(edge) > 2
    BY <1>3
<1> HIDE DEF edge
<1>5. edge[3] \in Int
    BY <1>4
<1> QED
    BY <1>1, <1>5 DEF edge

LEMMA WeightsStay ==
    ASSUME WeightsInv, [Next]_vars
    PROVE  WeightsInv'
<1>1. ASSUME UNCHANGED weights PROVE WeightsInv'
    BY <1>1 DEF WeightsInv
<1>2. ASSUME weights' = <<>> PROVE WeightsInv'
    <2>1. DOMAIN <<>> = {}
        OBVIOUS
    <2> QED
        BY <1>2, <2>1 DEF WeightsInv
<1>3. CASE CallObjects
    BY <1>1, <1>3, CallObjectsLeaves DEF Quiet, Grows, Counts
<1>4. ASSUME NEW list \in Lists, SetUniverseAsIs(list) PROVE WeightsInv'
    <2>1. list \in Seq(Seq(Int))
        BY DiGraphSetsAssumption
    <2> DEFINE first == SubSeq(list, 1, Min(Repeated(list)) - 1)
    <2>2. \/ Repeated(list) = {} /\ weights' = WeightsOf(list)
          \/ Repeated(list) # {} /\ weights' = WeightsOf(first)
        BY <1>4 DEF SetUniverseAsIs, RefuseUniverse, GiveUniverse, EdgesListed, Repeated
    <2>3. ASSUME Repeated(list) # {} PROVE first \in Seq(Seq(Int))
        <3>1. Repeated(list) \in SUBSET Nat /\ Repeated(list) \subseteq 1..Len(list)
            <4>1. DOMAIN EdgesListed(list) = 1..Len(list)
                BY <2>1 DEF EdgesListed
            <4> QED
                BY <4>1 DEF Repeated
        <3>2. Min(Repeated(list)) \in 1..Len(list)
            BY <2>3, <3>1, LeastIs
        <3> DEFINE k == Min(Repeated(list))
        <3>3. k \in 1..Len(list)
            BY <3>2
        <3> HIDE DEF k
        <3>4. SubSeq(list, 1, k - 1) \in Seq(Seq(Int))
            BY <2>1, <3>3
        <3> QED
            BY <3>4 DEF k
    <2> HIDE DEF first
    <2> QED
        BY <2>1, <2>2, <2>3, WeightsAreNumbers DEF WeightsInv
<1>5. CASE CallUniverse
    <2>1. ASSUME NEW edges, NEW traversal, NEW start, SetUniverse(edges, traversal, start)
          PROVE  weights' = <<>>
        BY <2>1 DEF SetUniverse, RefuseUniverse
    <2> QED
        BY <1>2, <1>4, <1>5, <2>1 DEF CallUniverse
<1>6. CASE VisitVertex
    <2>1. UNCHANGED weights \/ weights' = <<>>
        BY <1>6 DEF VisitVertex, GiveUniverse, RefuseUniverse, universeVars
    <2> QED
        BY <1>1, <1>2, <2>1
<1>7. CASE Loop
    BY <1>1, <1>7 DEF Loop, BeginLoop, FirstTurn, OtherTurn, LeaveLoop, universeVars
<1>8. CASE Return
    BY <1>1, <1>8 DEF Return, universeVars
<1>9. CASE Restart
    BY <1>2, <1>9 DEF Restart
<1>10. CASE UNCHANGED vars
    BY <1>1, <1>10 DEF vars, universeVars
<1> QED
    BY <1>3, <1>5, <1>6, <1>7, <1>8, <1>9, <1>10 DEF Next

LEMMA LoopSteps ==
    ASSUME ClassInv, WeightsInv, LoopInv, [Next]_vars
    PROVE  LoopInv'
<1>1. ASSUME UNCHANGED loop PROVE LoopInv'
    BY <1>1 DEF LoopInv
<1>2. ASSUME CallObjects PROVE UNCHANGED loop
    BY <1>2, CallObjectsLeaves DEF Quiet, Grows, Counts
<1>3. ASSUME Return \/ Restart PROVE UNCHANGED loop
    BY <1>3 DEF Return, Restart
<1>4. ASSUME UNCHANGED vars PROVE UNCHANGED loop
    BY <1>4 DEF vars
<1> QED
    BY <1>1, <1>2, <1>3, <1>4, LoopTurns, SetUniverseLeaves DEF Next

\* A loop that finds its universe at each turn gives the graphs its object had
\* at the first one, each once, by the weights that edges had then if it was
\* to, and ends when all are given: however pop() and clear() change the object
\* and whatever universes come and go between the turns.
THEOREM LoopGivesAllAlways == Spec => []LoopGivesAll
<1>1. Init => WeightsInv /\ LoopInv
    <2>1. DOMAIN <<>> = {}
        OBVIOUS
    <2> QED
        BY <2>1 DEF Init, WeightsInv, LoopInv
<1>2. WeightsInv /\ [Next]_vars => WeightsInv'
    BY WeightsStay
<1>3. ClassInv /\ WeightsInv /\ LoopInv /\ [Next]_vars => LoopInv'
    BY LoopSteps
<1>4. ASSUME LoopInv PROVE LoopGivesAll
    <2> SUFFICES ASSUME loop # NoLoop, loop.steady PROVE GivesAll(loop)
        BY DEF LoopGivesAll
    <2> DEFINE l == loop
    <2>1. Keeps(l)
        BY <1>4 DEF LoopInv, IsLoop
    <2> HIDE DEF l
    <2>2. /\ ToSet(l.given) = {Named(l.universe, s) : s \in l.family \ l.left}
          /\ \A s \in l.family \ l.left : s \in KnownSets(l)
          /\ l.left \subseteq l.family
        BY <2>1 DEF Keeps, KnownSets
    <2>3. ToSet(l.given) \subseteq GraphsOf(l)
        BY <2>2 DEF GraphsOf
    <2>4. l.stage = "ended" => ToSet(l.given) = GraphsOf(l) /\ KnownSets(l) = l.family
        <3>1. ASSUME l.left = {} PROVE KnownSets(l) = l.family
            BY <2>2, <3>1 DEF KnownSets
        <3> QED
            BY <2>1, <2>2, <3>1 DEF Keeps, GraphsOf
    <2>5. l.stage = "IndexError" => KnownSets(l) # l.family
        BY <2>1, <2>2 DEF Keeps, KnownSets
    <2>6. IsInjective(l.given) /\ InOrder(l)
        BY <2>1 DEF Keeps
    <2>7. GivesAll(l)
        BY <2>3, <2>4, <2>5, <2>6
        DEF GivesAll, KnownSets, GraphsOf, NotYet, PriceOf, InOrder
    <2> QED
        BY <2>7 DEF l
<1> QED
    BY <1>1, <1>2, <1>3, <1>4, ClassInvAlways, PTL DEF Spec

-----------------------------------------------------------------------------

(***************************************************************************)
(* The order in which walks list edges.                                    *)
(***************************************************************************)
\* Each edge of s, but self-loops, has an end in common with one before it, or
\* one that is r.
Joins(s, j, x) == s[j][1] # s[j][2] /\ x \in {s[j][1], s[j][2]}

Touches(r, s, k, x) == x = r \/ \E j \in 1..(k - 1) : Joins(s, j, x)

Attached(r, s) ==
    \A k \in DOMAIN s : s[k][1] # s[k][2] =>
        Touches(r, s, k, s[k][1]) \/ Touches(r, s, k, s[k][2])

Proper(F) == {e \in F : e[1] # e[2]}

LEMMA AttachedConnected ==
    ASSUME NEW X, NEW s \in Seq(X), NEW r, Attached(r, s), NEW k \in DOMAIN s
    PROVE  LET before == Proper(ToSet(SubSeq(s, 1, k)))
           IN  before # {} => r \in Endpoints(before) /\ Connected(before)
<1> DEFINE F == Proper(ToSet(SubSeq(s, 1, k)))
<1>1. /\ DOMAIN s = 1..Len(s) /\ Len(s) \in Nat /\ k \in 1..Len(s)
    OBVIOUS
<1>2. \A e : e \in F <=> \E j \in 1..k : e = s[j] /\ s[j][1] # s[j][2]
    <2> DEFINE p == SubSeq(s, 1, k)
    <2>1. DOMAIN p = 1..k /\ \A j \in 1..k : p[j] = s[j]
        BY <1>1
    <2> HIDE DEF p
    <2>2. \A e : e \in ToSet(p) <=> \E j \in 1..k : e = s[j]
        BY <2>1 DEF ToSet
    <2> QED
        BY <2>2 DEF Proper, p
<1>3. \A G, x : x \in Ends(G) <=> \E e \in G : x = e[1] \/ x = e[2]
    BY DEF Ends
<1>4. \A G, x : x \in Endpoints(G) <=> \E e \in G : x = e[1] \/ x = e[2]
    BY DEF Endpoints
<1> HIDE DEF F
\* In a part that r is not in no edge is the first.
<1>5. ASSUME NEW G \in SUBSET F, G # {}, r \notin Ends(G)
      PROVE  \E x \in Ends(G) : x \in Ends(F \ G)
    <2> DEFINE K == {j \in 1..k : s[j] \in G /\ s[j][1] # s[j][2]}
    <2>1. K \in SUBSET Nat /\ K # {}
        BY <1>1, <1>2, <1>5
    <2>2. PICK j \in K : \A i \in K : j <= i
        BY <2>1, LeastElement
    <2>3. j \in 1..k /\ j \in DOMAIN s /\ s[j] \in G /\ s[j][1] # s[j][2]
        BY <1>1
    <2>4. s[j][1] \in Ends(G) /\ s[j][2] \in Ends(G)
        BY <1>3, <2>3
    <2>5. PICK x : x \in {s[j][1], s[j][2]} /\ Touches(r, s, j, x)
        BY <2>3 DEF Attached
    <2>6. x \in Ends(G) /\ x # r
        BY <1>5, <2>4, <2>5
    <2>7. PICK i \in 1..(j - 1) : s[i][1] # s[i][2] /\ x \in {s[i][1], s[i][2]}
        BY <2>5, <2>6 DEF Touches, Joins
    <2>8. i \in 1..k /\ ~(j <= i)
        BY <2>3, <2>7
    <2>9. s[i] \in F /\ s[i] \notin G
        BY <1>2, <2>2, <2>7, <2>8
    <2>10. x \in Ends(F \ G)
        BY <1>3, <2>7, <2>9
    <2> QED
        BY <2>6, <2>10
<1>6. ASSUME F # {} PROVE r \in Ends(F)
    <2>1. F \ F = {} /\ Ends({}) = {}
        BY <1>3
    <2> QED
        BY <1>5, <1>6, <2>1
<1>7. ASSUME NEW G \in (SUBSET F) \ {{}, F} PROVE Ends(G) \cap Ends(F \ G) # {}
    <2>1. F \ G \in SUBSET F /\ F \ G # {} /\ F \ (F \ G) = G
        OBVIOUS
    <2>2. CASE r \notin Ends(G)
        BY <1>5, <2>2
    <2>3. CASE r \notin Ends(F \ G)
        <3>1. \E x \in Ends(F \ G) : x \in Ends(F \ (F \ G))
            BY <1>5, <2>1, <2>3
        <3> QED
            BY <2>1, <3>1
    <2> QED
        BY <2>2, <2>3
<1>8. F # {} => r \in Endpoints(F) /\ Connected(F)
    BY <1>3, <1>4, <1>6, <1>7 DEF Connected
<1> QED
    BY <1>8 DEF F

\* What is visited of a connected graph has a neighbour that is not.
LEMMA HasNeighbor ==
    ASSUME NEW E, IsUniverse(E), Connected(E), NEW S \in SUBSET Endpoints(E), S # {}, S # Endpoints(E)
    PROVE  \E v \in Endpoints(E) \ S : \E x \in S : v \in Neighbors(E, x)
<1> SUFFICES ASSUME \A v \in Endpoints(E) \ S : \A x \in S : v \notin Neighbors(E, x)
             PROVE  FALSE
    OBVIOUS
<1> DEFINE G == {e \in E : e[1] \in S}
<1>1. \A e \in E : e = <<e[1], e[2]>> /\ e[1] \in Endpoints(E) /\ e[2] \in Endpoints(E)
    BY UniverseFacts
<1>2. \A F, x : x \in Ends(F) <=> \E e \in F : x = e[1] \/ x = e[2]
    BY DEF Ends
<1>3. \A x : x \in Endpoints(E) <=> \E e \in E : x = e[1] \/ x = e[2]
    BY DEF Endpoints
<1>4. \A x, v : <<x, v>> \in E \/ <<v, x>> \in E => v \in Neighbors(E, x)
    BY NeighborsAre
<1>5. \A e \in E : e[1] \in S <=> e[2] \in S
    <2> TAKE e \in E
    <2>1. <<e[1], e[2]>> \in E /\ e[1] \in Endpoints(E) /\ e[2] \in Endpoints(E)
        BY <1>1
    <2>2. e[2] \in Neighbors(E, e[1]) /\ e[1] \in Neighbors(E, e[2])
        BY <1>4, <2>1
    <2> QED
        BY <2>1, <2>2
<1>6. G # {} /\ G # E
    BY <1>1, <1>3, <1>5
<1>7. Ends(G) \cap Ends(E \ G) = {}
    BY <1>2, <1>5
<1> QED
    BY <1>6, <1>7 DEF Connected

\* s has become p by edges between u and the vertices M, one at least for each.
Extends(E, u, M, s, p) ==
    \E t \in Seq(E) :
        /\ p = s \o t
        /\ \A k \in DOMAIN t : \E x \in M : t[k] = <<u, x>> \/ t[k] = <<x, u>>
        /\ \A x \in M : \E k \in DOMAIN t : t[k] = <<u, x>> \/ t[k] = <<x, u>>

\* The vertices that are to be visited: those that wait, those next to others.
Waiting(w) == IF w.kind = "greedy" THEN {y[3] : y \in w.heap} \ w.visited ELSE ToSet(w.queue)
Nearby(E, S) == {v \in Endpoints(E) \ S : \E x \in S : v \in Neighbors(E, x)}

\* One turn of a walk, w before and z after it.
TurnOf(E, w, z) ==
    LET V == w.visited \cup {w.u}
        waits == (Waiting(w) \ V) \cup (Neighbors(E, w.u) \ V)
    IN  /\ Extends(E, w.u, Neighbors(E, w.u) \cap V, w.sorted, z.sorted)
        /\ z.error = "walking" =>
            /\ z.visited = V /\ z.u \in Endpoints(E) \ V
            /\ waits \subseteq Waiting(z) \cup {z.u}
            /\ Waiting(z) \subseteq waits \cup Nearby(E, V)
            /\ z.u \in waits \cup Nearby(E, V) \/ waits = {}

\* A walk over a connected graph grows from r on.
GrowsFrom(E, r, w) ==
    /\ Attached(r, w.sorted)
    /\ \A v \in w.visited : v = r \/ \E k \in DOMAIN w.sorted : Joins(w.sorted, k, v)
    /\ w.u = r \/ w.u \in Nearby(E, w.visited)
    /\ Nearby(E, w.visited) \subseteq Waiting(w) \cup {w.u}
    /\ Waiting(w) \subseteq Nearby(E, w.visited)

LEMMA ExtendsGrows ==
    ASSUME NEW E, IsUniverse(E), NEW r, NEW S \in SUBSET Endpoints(E), NEW u, u \notin S,
           NEW s \in Seq(E), NEW p, Extends(E, u, Neighbors(E, u) \cap (S \cup {u}), s, p),
           Attached(r, s), \A v \in S : v = r \/ \E k \in DOMAIN s : Joins(s, k, v),
           u = r \/ u \in Nearby(E, S)
    PROVE  /\ Attached(r, p)
           /\ \A v \in S \cup {u} : v = r \/ \E k \in DOMAIN p : Joins(p, k, v)
<1> DEFINE M == Neighbors(E, u) \cap (S \cup {u})
<1>1. PICK t \in Seq(E) :
        /\ p = s \o t
        /\ \A k \in DOMAIN t : \E x \in M : t[k] = <<u, x>> \/ t[k] = <<x, u>>
        /\ \A x \in M : \E k \in DOMAIN t : t[k] = <<u, x>> \/ t[k] = <<x, u>>
    BY DEF Extends
<1> DEFINE m == Len(s)
           n == Len(t)
<1>2. /\ m \in Nat /\ n \in Nat /\ DOMAIN s = 1..m /\ DOMAIN t = 1..n /\ DOMAIN p = 1..(m + n)
      /\ \A k \in 1..m : p[k] = s[k]
      /\ \A k \in 1..n : p[m + k] = t[k]
    BY <1>1
<1> HIDE DEF m, n
<1>3. \A x : \A k \in 1..m : Joins(p, k, x) <=> Joins(s, k, x)
    BY <1>2 DEF Joins
<1>4. ASSUME NEW k \in DOMAIN p, p[k][1] # p[k][2]
      PROVE  Touches(r, p, k, p[k][1]) \/ Touches(r, p, k, p[k][2])
    <2>1. CASE k \in 1..m
        <3>1. k \in DOMAIN s /\ s[k] = p[k] /\ \A j \in 1..(k - 1) : j \in 1..m
            BY <1>2, <2>1
        <3>2. Touches(r, s, k, s[k][1]) \/ Touches(r, s, k, s[k][2])
            BY <1>4, <3>1 DEF Attached
        <3> QED
            BY <1>3, <3>1, <3>2 DEF Touches
    <2>2. CASE k \notin 1..m
        <3> DEFINE i == k - m
        <3>1. i \in 1..n /\ k = m + i /\ \A j \in 1..m : j \in 1..(k - 1)
            BY <1>2, <2>2
        <3> HIDE DEF i
        <3>2. PICK x \in M : p[k] = <<u, x>> \/ p[k] = <<x, u>>
            <4> HIDE DEF M
            <4>1. PICK x \in M : t[i] = <<u, x>> \/ t[i] = <<x, u>>
                BY <1>1, <1>2, <3>1
            <4> QED
                BY <1>2, <3>1, <4>1
        <3>3. x \in S /\ x \in {p[k][1], p[k][2]}
            BY <1>4, <3>2
        <3>4. Touches(r, p, k, x)
            <4>1. CASE x = r
                BY <4>1 DEF Touches
            <4>2. CASE x # r
                <5>1. PICK j \in DOMAIN s : Joins(s, j, x)
                    BY <3>3, <4>2
                <5> QED
                    BY <1>2, <1>3, <3>1, <5>1 DEF Touches
            <4> QED
                BY <4>1, <4>2
        <3> QED
            BY <3>3, <3>4
    <2> QED
        BY <2>1, <2>2
<1>5. ASSUME NEW v \in S \cup {u}, v # r PROVE \E k \in DOMAIN p : Joins(p, k, v)
    <2>1. CASE v \in S
        <3>1. PICK k \in DOMAIN s : Joins(s, k, v)
            BY <1>5, <2>1
        <3>2. k \in DOMAIN p
            BY <1>2
        <3> QED
            BY <1>2, <1>3, <3>1, <3>2
    <2>2. CASE v \notin S
        <3>1. v = u /\ u \in Nearby(E, S)
            BY <1>5, <2>2
        <3>2. PICK x \in S : u \in Neighbors(E, x)
            BY <3>1 DEF Nearby
        <3>3. x \in M /\ x # u
            BY <3>2, NeighborsAre
        <3>4. PICK k \in DOMAIN t : t[k] = <<u, x>> \/ t[k] = <<x, u>>
            BY <1>1, <3>3
        <3>5. m + k \in DOMAIN p /\ p[m + k] = t[k]
            BY <1>2
        <3>6. Joins(p, m + k, v)
            BY <3>1, <3>3, <3>4, <3>5 DEF Joins
        <3> QED
            BY <3>5, <3>6
    <2> QED
        BY <2>1, <2>2
<1> QED
    BY <1>4, <1>5 DEF Attached

LEMMA TurnGrows ==
    ASSUME NEW E, IsUniverse(E), Connected(E), NEW r, NEW w, WalkOn(E, w), GrowsFrom(E, r, w),
           NEW z, TurnOf(E, w, z)
    PROVE  Attached(r, z.sorted) /\ (z.error = "walking" => GrowsFrom(E, r, z))
<1> DEFINE S == w.visited
           u == w.u
           V == S \cup {u}
           N == Neighbors(E, u)
           waits == (Waiting(w) \ V) \cup (N \ V)
<1>1. /\ S \in SUBSET Endpoints(E) /\ u \in Endpoints(E) /\ u \notin S /\ w.sorted \in Seq(E)
    <2>1. w \in WalkOver(E) /\ w.u \notin w.visited
        BY DEF WalkOn, GreedyOn, QueueOn
    <2> QED
        BY <2>1, WalkFields
<1>2. /\ Attached(r, w.sorted)
      /\ u = r \/ u \in Nearby(E, S)
      /\ \A v \in S : v = r \/ \E k \in DOMAIN w.sorted : Joins(w.sorted, k, v)
      /\ Nearby(E, S) \subseteq Waiting(w) \cup {u} /\ Waiting(w) \subseteq Nearby(E, S)
    BY DEF GrowsFrom
<1>3. Extends(E, u, N \cap V, w.sorted, z.sorted)
    BY DEF TurnOf
<1>4. /\ Attached(r, z.sorted)
      /\ \A v \in V : v = r \/ \E k \in DOMAIN z.sorted : Joins(z.sorted, k, v)
    <2> DEFINE s == w.sorted
               p == z.sorted
    <2>1. Extends(E, u, Neighbors(E, u) \cap (S \cup {u}), s, p)
        BY <1>3
    <2>2. /\ s \in Seq(E) /\ Attached(r, s)
          /\ u = r \/ u \in Nearby(E, S)
          /\ \A v \in S : v = r \/ \E k \in DOMAIN s : Joins(s, k, v)
        BY <1>1, <1>2
    <2> HIDE DEF S, u, s, p
    <2>3. /\ Attached(r, p)
          /\ \A v \in S \cup {u} : v = r \/ \E k \in DOMAIN p : Joins(p, k, v)
        BY <1>1, <2>1, <2>2, ExtendsGrows
    <2> QED
        BY <2>3 DEF p
<1>5. ASSUME z.error = "walking" PROVE GrowsFrom(E, r, z)
    <2>1. /\ z.visited = V /\ z.u \in Endpoints(E) \ V
          /\ waits \subseteq Waiting(z) \cup {z.u} /\ Waiting(z) \subseteq waits \cup Nearby(E, V)
          /\ z.u \in waits \cup Nearby(E, V) \/ waits = {}
        BY <1>5 DEF TurnOf
    <2>2. Nearby(E, V) \subseteq waits
        BY <1>2 DEF Nearby
    <2>3. N \subseteq Endpoints(E)
        BY NeighborsAre
    <2>4. waits \subseteq Nearby(E, V)
        <3>1. N \ V \subseteq Nearby(E, V)
            BY <2>3 DEF Nearby
        <3>2. Nearby(E, S) \ V \subseteq Nearby(E, V)
            BY DEF Nearby
        <3> QED
            BY <1>2, <3>1, <3>2
    <2>5. waits # {}
        <3>1. V \in SUBSET Endpoints(E) /\ V # {} /\ V # Endpoints(E)
            BY <1>1, <2>1
        <3> HIDE DEF V
        <3>2. PICK v \in Endpoints(E) \ V : \E x \in V : v \in Neighbors(E, x)
            BY <3>1, HasNeighbor
        <3> QED
            BY <2>2, <3>2 DEF Nearby
    <2> HIDE DEF waits, V
    <2> QED
        BY <1>4, <2>1, <2>2, <2>4, <2>5 DEF GrowsFrom
<1> QED
    BY <1>4, <1>5

Joined2(s, t, p) ==
    /\ Len(p) = Len(s) + Len(t) /\ Len(s) \in Nat /\ Len(t) \in Nat
    /\ DOMAIN s = 1..Len(s) /\ DOMAIN t = 1..Len(t) /\ DOMAIN p = 1..(Len(s) + Len(t))
    /\ \A k \in 1..Len(s) : p[k] = s[k]
    /\ \A k \in 1..Len(t) : p[Len(s) + k] = t[k]

LEMMA JoinedItems ==
    ASSUME NEW X, NEW s \in Seq(X), NEW t \in Seq(X)
    PROVE  s \o t \in Seq(X) /\ Joined2(s, t, s \o t)
    BY DEF Joined2

LEMMA ExtendsBy ==
    ASSUME NEW E, NEW u, NEW M, NEW v, <<u, v>> \in E \/ <<v, u>> \in E, NEW s \in Seq(E), NEW p,
           Extends(E, u, M, s, p)
    PROVE  LET e == IF <<u, v>> \in E THEN <<u, v>> ELSE <<v, u>>
           IN  Extends(E, u, M \cup {v}, s,
                       p \o <<e>> \o (IF Backward(e) \in E THEN <<Backward(e)>> ELSE <<>>))
<1> DEFINE e == IF <<u, v>> \in E THEN <<u, v>> ELSE <<v, u>>
           o == <<e>>
           b == IF Backward(e) \in E THEN <<Backward(e)>> ELSE <<>>
           is(x, y) == x = <<u, y>> \/ x = <<y, u>>
<1>1. PICK t \in Seq(E) :
        /\ p = s \o t
        /\ \A k \in DOMAIN t : \E x \in M : is(t[k], x)
        /\ \A x \in M : \E k \in DOMAIN t : is(t[k], x)
    BY DEF Extends
<1>2. e \in E /\ is(e, v) /\ is(Backward(e), v)
    BY DEF Backward
<1>3. o \in Seq(E) /\ DOMAIN o = {1} /\ o[1] = e
    BY <1>2
<1>4. b \in Seq(E) /\ \A k \in DOMAIN b : is(b[k], v)
    <2> DEFINE c == Backward(e)
    <2>1. is(c, v)
        BY <1>2
    <2> HIDE DEF is, e
    <2> HIDE DEF c
    <2>2. DOMAIN <<c>> = {1} /\ <<c>>[1] = c /\ DOMAIN <<>> = {}
        OBVIOUS
    <2>3. (c \in E => <<c>> \in Seq(E)) /\ <<>> \in Seq(E)
        OBVIOUS
    <2>4. b = IF c \in E THEN <<c>> ELSE <<>>
        BY DEF c
    <2> HIDE DEF b
    <2> QED
        BY <2>1, <2>2, <2>3, <2>4
<1> HIDE DEF is, b, o, e
<1> DEFINE q == t \o o \o b
           n == Len(t)
           m == Len(b)
<1>5. q \in Seq(E) /\ p \o o \o b = s \o q
    BY <1>1, <1>3, <1>4
<1>6. /\ n \in Nat /\ m \in Nat /\ DOMAIN t = 1..n /\ DOMAIN b = 1..m
      /\ DOMAIN q = 1..(n + 1 + m) /\ \A k \in 1..n : q[k] = t[k]
      /\ q[n + 1] = o[1] /\ \A k \in 1..m : q[n + 1 + k] = b[k]
    <2> DEFINE to == t \o o
    <2>1. Len(o) = 1
        BY <1>3
    <2>2. /\ to \in Seq(E) /\ Len(to) = n + 1 /\ n \in Nat /\ to[n + 1] = o[1]
          /\ \A k \in 1..n : to[k] = t[k]
        <3>1. 1 \in 1..Len(o)
            BY <2>1
        <3>2. to \in Seq(E) /\ Joined2(t, o, to)
            BY <1>1, <1>3, JoinedItems
        <3> HIDE DEF to
        <3> QED
            BY <2>1, <3>1, <3>2 DEF Joined2
    <2>3. q = to \o b
        OBVIOUS
    <2> HIDE DEF to, q
    <2>4. /\ m \in Nat /\ DOMAIN b = 1..m /\ DOMAIN q = 1..(Len(to) + m)
          /\ \A k \in 1..Len(to) : q[k] = to[k]
          /\ \A k \in 1..m : q[Len(to) + k] = b[k]
        <3>1. Joined2(to, b, q)
            BY <1>4, <2>2, <2>3, JoinedItems
        <3> QED
            BY <3>1 DEF Joined2
    <2>5. DOMAIN t = 1..n
        BY <1>1
    <2> HIDE DEF n, m
    <2> QED
        BY <2>2, <2>4, <2>5
<1> HIDE DEF q, n, m
<1>7. \A k \in DOMAIN q : \E x \in M \cup {v} : is(q[k], x)
    <2> TAKE k \in DOMAIN q
    <2>1. CASE k \in 1..n
        BY <1>1, <1>6, <2>1
    <2>2. CASE k = n + 1
        BY <1>2, <1>3, <1>6, <2>2
    <2>3. CASE k \notin 1..n /\ k # n + 1
        <3> DEFINE i == k - (n + 1)
        <3>1. i \in 1..m /\ k = n + 1 + i
            BY <1>6, <2>3
        <3> HIDE DEF i
        <3>2. q[k] = b[i] /\ is(b[i], v)
            BY <1>4, <1>6, <3>1
        <3> QED
            BY <3>2
    <2> QED
        BY <2>1, <2>2, <2>3
<1>8. \A x \in M \cup {v} : \E k \in DOMAIN q : is(q[k], x)
    <2>1. ASSUME NEW x \in M PROVE \E k \in DOMAIN q : is(q[k], x)
        <3>1. PICK k \in DOMAIN t : is(t[k], x)
            BY <1>1
        <3>2. k \in DOMAIN q /\ q[k] = t[k]
            BY <1>6
        <3> QED
            BY <3>1, <3>2
    <2>2. n + 1 \in DOMAIN q /\ is(q[n + 1], v)
        BY <1>2, <1>3, <1>6
    <2> QED
        BY <2>1, <2>2
<1>9. Extends(E, u, M \cup {v}, s, s \o q)
    BY <1>5, <1>7, <1>8 DEF Extends, is
<1> QED
    BY <1>5, <1>9 DEF o, b, e

Beside(E, S) == {v \in Endpoints(E) : \E x \in S : v \in Neighbors(E, x)}

\* The greedy walk, b when it comes to u and a after it has met the vertices M.
HasMet(E, S, u, M, b, a) ==
    /\ a \in WalksAt(E, u) /\ a.visited = S \cup {u}
    /\ Extends(E, u, M, b.sorted, a.sorted) /\ b.heap \subseteq a.heap
    /\ \A y \in a.heap \ b.heap : y[3] \in Beside(E, S \cup {u})

LEMMA MeetsNext ==
    ASSUME NEW E, IsUniverse(E), NEW S, NEW u, NEW M, NEW v \in Neighbors(E, u),
           NEW b, b.sorted \in Seq(E), NEW a, HasMet(E, S, u, M, b, a)
    PROVE  HasMet(E, S, u, M \cup ({v} \cap (S \cup {u})), b, GreedyMeet(a, v))
<1> DEFINE m == GreedyMeet(a, v)
           V == S \cup {u}
           e == IF <<u, v>> \in E THEN <<u, v>> ELSE <<v, u>>
           listed == a.sorted \o <<e>> \o (IF Backward(e) \in E THEN <<Backward(e)>> ELSE <<>>)
<1>1. /\ a \in WalksAt(E, u) /\ a.visited = V
      /\ Extends(E, u, M, b.sorted, a.sorted) /\ b.heap \subseteq a.heap
      /\ \A y \in a.heap \ b.heap : y[3] \in Beside(E, V)
    BY DEF HasMet
<1>2. /\ m \in WalksAt(E, u) /\ m.visited = V /\ a.heap \subseteq m.heap
      /\ \A y \in m.heap \ a.heap : v \in V /\ y[3] \in Neighbors(E, v)
      /\ v \notin V => m.sorted = a.sorted
      /\ v \in V => m.sorted = listed
    <2>1. Meets(E, u, v, a, m)
        BY <1>1, MeetIsOf
    <2> QED
        BY <1>1, <2>1 DEF Meets
<1> HIDE DEF m, listed
<1>3. Neighbors(E, v) \subseteq Endpoints(E)
    BY NeighborsAre
<1>4. \A y \in m.heap \ b.heap : y[3] \in Beside(E, V)
    BY <1>1, <1>2, <1>3 DEF Beside
<1>5. Extends(E, u, M \cup ({v} \cap V), b.sorted, m.sorted)
    <2>1. CASE v \in V
        <3>1. M \cup ({v} \cap V) = M \cup {v}
            BY <2>1
        <3>2. <<u, v>> \in E \/ <<v, u>> \in E
            BY NeighborsAre
        <3>3. Extends(E, u, M \cup {v}, b.sorted, listed)
            BY <1>1, <3>2, ExtendsBy DEF listed
        <3> QED
            BY <1>2, <2>1, <3>1, <3>3
    <2>2. CASE v \notin V
        <3>1. M \cup ({v} \cap V) = M
            BY <2>2
        <3> QED
            BY <1>1, <1>2, <2>2, <3>1
    <2> QED
        BY <2>1, <2>2
<1> QED
    BY <1>1, <1>2, <1>4, <1>5 DEF HasMet, m

LEMMA MetAll ==
    ASSUME NEW E, IsUniverse(E), NEW S, NEW u, NEW b \in WalksAt(E, u), b.visited = S \cup {u}
    PROVE  HasMet(E, S, u, Neighbors(E, u) \cap (S \cup {u}), b,
               FoldLeft(GreedyMeet, b, Ascending(Neighbors(E, u))))
<1> DEFINE N == Neighbors(E, u)
           near == Ascending(N)
           n == Len(near)
           A == WalksAt(E, u)
           next == MeetTurn(E, u, near)
           V == S \cup {u}
           Good == {p \in (0..n) \X A : HasMet(E, S, u, FirstOf(near, p[1]) \cap V, b, p[2])}
<1>1. /\ near \in Seq(N) /\ IsInjective(near) /\ ToSet(near) = N
    BY NeighborsAre, AscendingIs
<1>2. n \in Nat /\ DOMAIN near = 1..n /\ 0 \in 0..n /\ n \in 0..n
    BY <1>1
<1>3. /\ FirstOf(near, 0) = {} /\ FirstOf(near, n) = N
      /\ \A k \in 0..(n - 1) : FirstOf(near, k + 1) = FirstOf(near, k) \cup {near[k + 1]}
    BY <1>1, FirstOfSteps
<1>4. b.sorted \in Seq(E)
    BY WalkFields DEF WalksAt
<1>5. PICK r : Run(r, b, next, n, A) /\ FoldLeft(GreedyMeet, b, near) = r[n]
    BY <1>1, MeetRun
<1>6. \A a \in A, i \in 1..n : next[<<a, i>>] = GreedyMeet(a, near[i]) /\ near[i] \in N
    BY <1>1 DEF MeetTurn
<1>7. ASSUME NEW k \in 0..(n - 1), NEW a \in A, HasMet(E, S, u, FirstOf(near, k) \cap V, b, a)
      PROVE  /\ next[<<a, k + 1>>] \in A
             /\ HasMet(E, S, u, FirstOf(near, k + 1) \cap V, b, next[<<a, k + 1>>])
    <2> DEFINE v == near[k + 1]
               M == FirstOf(near, k) \cap V
               m == GreedyMeet(a, v)
    <2>1. k + 1 \in 1..n
        BY <1>2
    <2>2. v \in N /\ next[<<a, k + 1>>] = m
        BY <1>6, <2>1
    <2>3. HasMet(E, S, u, M \cup ({v} \cap V), b, m)
        BY <1>4, <1>7, <2>2, MeetsNext
    <2>4. M \cup ({v} \cap V) = FirstOf(near, k + 1) \cap V
        BY <1>3
    <2> HIDE DEF m, M, v
    <2> QED
        BY <2>2, <2>3, <2>4 DEF HasMet
<1>8. HasMet(E, S, u, FirstOf(near, 0) \cap V, b, b)
    <2>1. FirstOf(near, 0) \cap V = {}
        BY <1>3
    <2>2. <<>> \in Seq(E) /\ DOMAIN <<>> = {} /\ b.sorted = b.sorted \o <<>>
        BY <1>4
    <2>3. Extends(E, u, {}, b.sorted, b.sorted)
        BY <2>2 DEF Extends
    <2> QED
        BY <2>1, <2>3 DEF HasMet
<1> HIDE DEF n, A, next, near, N
<1>9. KeptBy(Good, b, next, n, A)
    <2>1. <<0, b>> \in Good
        BY <1>2, <1>8 DEF A
    <2>2. ASSUME NEW k \in 0..(n - 1), NEW a \in A, <<k, a>> \in Good
          PROVE  <<k + 1, next[<<a, k + 1>>]>> \in Good
        <3>1. HasMet(E, S, u, FirstOf(near, k) \cap V, b, a)
            BY <2>2
        <3>2. k + 1 \in 0..n
            BY <1>2
        <3> QED
            BY <1>7, <3>1, <3>2
    <2> HIDE DEF Good
    <2> QED
        BY <2>1, <2>2 DEF KeptBy
<1> HIDE DEF Good
<1>10. r[n] \in A /\ <<n, r[n]>> \in Good
    BY <1>2, <1>5, <1>9, RunKeeps
<1>11. HasMet(E, S, u, FirstOf(near, n) \cap V, b, r[n])
    BY <1>10 DEF Good
<1> QED
    BY <1>3, <1>5, <1>11 DEF near, N

InHeap(H) == {y[3] : y \in H}

\* The vertex that comes next leaves the others that wait where they are.
Follows(left, z) ==
    LET waits == InHeap(left.heap) \ left.visited
    IN  /\ z.kind = left.kind /\ z.visited = left.visited /\ z.sorted = left.sorted
        /\ z.heap \subseteq left.heap /\ waits \subseteq InHeap(z.heap) \cup {z.u}
        /\ z.u \in waits \/ waits = {}

LEMMA NextFollows ==
    ASSUME NEW E, IsUniverse(E), NEW w \in WalkOver(E), IsFiniteSet(w.heap)
    PROVE  Follows(w, NextFromHeap(w, w.heap))
<1> DEFINE new == {x \in w.heap : x[3] \notin w.visited}
           first == CHOOSE x \in new : \A y \in new : x = y \/ Before(x, y)
           later == {y \in w.heap : Before(first, y)}
           least == Min(Unvisited(w))
           waits == InHeap(w.heap) \ w.visited
<1>1. Endpoints(E) \subseteq Nat /\ w.heap \in SUBSET (Int \X Int \X Endpoints(E))
    BY WalkFields, UniverseFacts
<1>2. new \in SUBSET w.heap /\ IsFiniteSet(new)
    BY FS_Subset
<1>3. ASSUME new # {} PROVE first \in new /\ \A y \in new : first = y \/ Before(first, y)
    <2>1. new \in SUBSET (Int \X Int \X Int)
        BY <1>1, <1>2
    <2>2. \E x \in new : \A y \in new : x = y \/ Before(x, y)
        BY <1>2, <1>3, <2>1, HeapHasFirst
    <2> QED
        BY <2>2
<1>4. NextFromHeap(w, w.heap) =
        IF new = {} THEN [w EXCEPT !.heap = {}, !.u = least]
        ELSE [w EXCEPT !.heap = later, !.u = first[3]]
    BY DEF NextFromHeap
<1>5. \A x : x \in waits <=> \E y \in new : x = y[3]
    BY DEF InHeap
<1>6. new # {} => first[3] \in waits /\ waits \subseteq InHeap(later) \cup {first[3]}
    <2> SUFFICES ASSUME new # {} PROVE first[3] \in waits /\ waits \subseteq InHeap(later) \cup {first[3]}
        OBVIOUS
    <2>1. first \in new /\ \A y \in new : first = y \/ Before(first, y)
        BY <1>3
    <2>2. \A y \in new : first = y \/ y \in later
        BY <1>2, <2>1
    <2> HIDE DEF first, later, new, waits
    <2>3. \A y \in later : y[3] \in InHeap(later)
        BY DEF InHeap
    <2> QED
        BY <1>5, <2>1, <2>2, <2>3
<1>7. later \in SUBSET w.heap
    OBVIOUS
<1> HIDE DEF later, first, least, new
<1>8. ASSUME NEW H \in SUBSET w.heap, NEW v, waits \subseteq InHeap(H) \cup {v}, v \in waits \/ waits = {}
      PROVE  Follows(w, [w EXCEPT !.heap = H, !.u = v])
    <2> DEFINE t == [w EXCEPT !.heap = H, !.u = v]
    <2>1. /\ t.kind = w.kind /\ t.visited = w.visited /\ t.sorted = w.sorted
          /\ t.heap = H /\ t.u = v
        BY DEF WalkOver
    <2> HIDE DEF t
    <2> QED
        BY <1>8, <2>1 DEF Follows
<1>9. new = {} => waits = {}
    BY <1>5
<1> HIDE DEF waits
<1>10. CASE new = {}
    <2>1. NextFromHeap(w, w.heap) = [w EXCEPT !.heap = {}, !.u = least]
        BY <1>4, <1>10
    <2>2. {} \in SUBSET w.heap /\ waits = {}
        BY <1>9, <1>10
    <2>3. Follows(w, [w EXCEPT !.heap = {}, !.u = least])
        BY <1>8, <2>2
    <2> QED
        BY <2>1, <2>3
<1>11. CASE new # {}
    <2>1. NextFromHeap(w, w.heap) = [w EXCEPT !.heap = later, !.u = first[3]]
        BY <1>4, <1>11
    <2>2. first[3] \in waits /\ waits \subseteq InHeap(later) \cup {first[3]}
        BY <1>6, <1>11
    <2> DEFINE f == first[3]
    <2> HIDE DEF f
    <2>3. f \in waits /\ waits \subseteq InHeap(later) \cup {f}
        BY <2>2 DEF f
    <2>4. Follows(w, [w EXCEPT !.heap = later, !.u = f])
        BY <1>7, <1>8, <2>3
    <2> QED
        BY <2>1, <2>4 DEF f
<1> QED
    BY <1>10, <1>11

LEMMA GreedyTurn ==
    ASSUME NEW E, IsUniverse(E), NEW w, GreedyOn(E, w)
    PROVE  TurnOf(E, w, VisitGreedy(w))
<1> DEFINE u == w.u
           S == w.visited
           V == S \cup {u}
           b == [w EXCEPT !.visited = @ \cup {w.u}]
           N == Neighbors(E, u)
           near == Ascending(N)
           met == FoldLeft(GreedyMeet, b, near)
           far == N \ met.visited
           pushed == Entries(met.degree[u], met.degree, far)
           heap == met.heap \cup pushed
           left == [met EXCEPT !.heap = heap]
           grown == [met EXCEPT !.heap = @ \cup pushed]
           z == VisitGreedy(w)
           waits == (Waiting(w) \ V) \cup (N \ V)
<1>1. /\ w \in WalkOver(E) /\ w.kind = "greedy" /\ w.error = "walking" /\ u \notin S
      /\ IsFiniteSet(w.heap) /\ ListsAll(E, Among(E, S), w.sorted)
    BY DEF GreedyOn
<1>2. w.edges = E /\ u \in Endpoints(E) /\ S \in SUBSET Endpoints(E)
    BY <1>1, WalkFields
<1>3. b \in WalksAt(E, u) /\ b.visited = V /\ b.heap = w.heap /\ b.sorted = w.sorted /\ b.kind = "greedy"
    <2>1. V \in SUBSET Endpoints(E)
        BY <1>2
    <2>2. b = [w EXCEPT !.visited = V]
        BY <1>1 DEF WalkOver
    <2>3. [w EXCEPT !.visited = V] \in WalkOver(E)
        BY <1>1, <2>1 DEF WalkOver
    <2>4. LET t == [w EXCEPT !.visited = V]
          IN  /\ t.u = w.u /\ t.visited = V /\ t.heap = w.heap /\ t.sorted = w.sorted /\ t.kind = w.kind
        BY <1>1 DEF WalkOver
    <2> QED
        BY <1>1, <2>2, <2>3, <2>4 DEF WalksAt
<1>4. /\ N \subseteq Endpoints(E) /\ IsFiniteSet(N) /\ N \subseteq Nat
    BY NeighborsAre
<1>5. Range(near) = N
    <2>1. ToSet(near) = N
        BY <1>4, AscendingIs
    <2> QED
        BY <2>1 DEF ToSet, Range
<1>6. GreedyOn(E, z) \/ GreedyOver(E, z)
    BY GreedyVisits
<1> HIDE DEF b, near
<1>7. HasMet(E, S, u, N \cap V, b, met)
    BY <1>3, MetAll DEF near
<1>8. z = IF Unvisited(grown) = {} THEN Ended(grown) ELSE NextFromHeap(grown, grown.heap)
    <2>1. PushedThen(w, met, near) = pushed
        BY <1>5 DEF Entries, PushedThen
    <2>2. Ascending(Neighbors(w.edges, w.u)) = near
        BY <1>2 DEF near
    <2>3. VisitGreedy(w) =
            AfterMeeting(FoldLeft(GreedyMeet, b, Ascending(Neighbors(w.edges, w.u))),
                         PushedThen(w, FoldLeft(GreedyMeet, b, Ascending(Neighbors(w.edges, w.u))),
                                    Ascending(Neighbors(w.edges, w.u))))
        BY DEF VisitGreedy, AfterMeeting, PushedThen, b
    <2> HIDE DEF pushed
    <2>4. VisitGreedy(w) = AfterMeeting(met, pushed)
        BY <2>1, <2>2, <2>3
    <2> HIDE DEF met
    <2> QED
        BY <2>4 DEF AfterMeeting
<1> HIDE DEF met, z
<1>9. /\ met \in WalkOver(E) /\ met.u = u /\ met.visited = V
      /\ Extends(E, u, N \cap V, w.sorted, met.sorted) /\ w.heap \subseteq met.heap
      /\ \A y \in met.heap \ w.heap : y[3] \in Beside(E, V)
    BY <1>3, <1>7 DEF HasMet, WalksAt
<1>0. IsFiniteSet(met.heap) /\ met.degree \in [Endpoints(E) -> Int]
    <2>1. Among(E, S) \cup Between(E, u, {}) = Among(E, S)
        BY DEF Between
    <2>2. GreedyAt(E, S, u, {}, b)
        BY <1>1, <1>3, <2>1 DEF GreedyAt, WalksAt, b
    <2>3. GreedyAt(E, S, u, N \cap V, met)
        BY <1>1, <2>2, MeetsAll DEF near, met
    <2> QED
        BY <1>9, <2>3, WalkFields DEF GreedyAt
<1>10. grown = left
    BY <1>9 DEF WalkOver
<1>11. z = IF Unvisited(left) = {} THEN Ended(left) ELSE NextFromHeap(left, left.heap)
    <2> HIDE DEF left, grown
    <2> QED
        BY <1>8, <1>10
<1>12. /\ pushed \in SUBSET (Int \X Int \X Endpoints(E)) /\ IsFiniteSet(pushed)
       /\ InHeap(pushed) = N \ V
    <2>1. met.degree[u] \in Int /\ \A v \in far : met.degree[v] \in Int
        BY <1>0, <1>2, <1>4
    <2>2. IsFiniteSet(far) /\ far \subseteq Endpoints(E) /\ far = N \ V
        BY <1>4, <1>9, FS_Difference
    <2> HIDE DEF far
    <2>3. pushed \in SUBSET (Int \X Int \X Endpoints(E))
        BY <2>1, <2>2 DEF Entries
    <2>4. InHeap(pushed) = far
        <3>1. \A v \in far : <<met.degree[u], met.degree[v], v>> \in pushed
            BY DEF Entries
        <3>2. \A y \in pushed : \E v \in far : y = <<met.degree[u], met.degree[v], v>>
            BY DEF Entries
        <3> HIDE DEF pushed
        <3>3. far \subseteq InHeap(pushed)
            <4> SUFFICES ASSUME NEW v \in far PROVE v \in InHeap(pushed)
                OBVIOUS
            <4> DEFINE y == <<met.degree[u], met.degree[v], v>>
            <4>1. y \in pushed /\ y[3] = v
                BY <3>1
            <4> HIDE DEF y
            <4> QED
                BY <4>1 DEF InHeap
        <3>4. InHeap(pushed) \subseteq far
            BY <3>2 DEF InHeap
        <3> QED
            BY <3>3, <3>4
    <2> QED
        BY <2>2, <2>3, <2>4, EntriesFinite
<1> HIDE DEF pushed
<1>13. heap \in SUBSET (Int \X Int \X Endpoints(E)) /\ IsFiniteSet(heap)
    BY <1>0, <1>9, <1>12, WalkFields, FS_Union
<1>14. /\ left \in WalkOver(E) /\ left.visited = V /\ left.sorted = met.sorted
       /\ left.heap = heap /\ left.u = u
    BY <1>9, <1>13 DEF WalkOver
<1>15. /\ waits \subseteq InHeap(heap) \ V
       /\ InHeap(heap) \ V \subseteq waits \cup Nearby(E, V)
    <2>1. Waiting(w) = InHeap(w.heap) \ S
        BY <1>1 DEF Waiting, InHeap
    <2>2. InHeap(w.heap) \cup InHeap(pushed) \subseteq InHeap(heap)
        BY <1>9 DEF InHeap
    <2>3. InHeap(heap) \subseteq InHeap(w.heap) \cup InHeap(pushed) \cup Beside(E, V)
        BY <1>9 DEF InHeap
    <2>4. Beside(E, V) \ V = Nearby(E, V)
        BY DEF Beside, Nearby
    <2> HIDE DEF heap, V, N
    <2>5. V = S \cup {u}
        BY DEF V
    <2> QED
        BY <1>12, <2>1, <2>2, <2>3, <2>4, <2>5
<1> HIDE DEF heap, left
<1>16. CASE Unvisited(left) = {}
    <2>1. z = Ended(left)
        BY <1>11, <1>16
    <2>2. z.sorted = left.sorted /\ z.error # "walking"
        BY <1>14, <2>1 DEF Ended, WalkOver
    <2> QED
        BY <1>9, <1>14, <2>2 DEF TurnOf, z
<1>17. CASE Unvisited(left) # {}
    <2>1. z = NextFromHeap(left, left.heap)
        BY <1>11, <1>17
    <2>2. Follows(left, z)
        BY <1>13, <1>14, <2>1, NextFollows
    <2>3. /\ z.visited = V /\ z.sorted = met.sorted /\ z.heap \subseteq heap
          /\ InHeap(heap) \ V \subseteq InHeap(z.heap) \cup {z.u}
          /\ z.u \in InHeap(heap) \ V \/ InHeap(heap) \ V = {}
        BY <1>14, <2>2 DEF Follows
    <2>4. CASE GreedyOver(E, z)
        BY <1>9, <2>3, <2>4 DEF GreedyOver, TurnOf, z
    <2>5. CASE GreedyOn(E, z)
        <3>1. z.kind = "greedy" /\ z \in WalkOver(E) /\ z.u \notin z.visited
            BY <2>5 DEF GreedyOn
        <3>2. z.u \in Endpoints(E) \ V
            BY <2>3, <3>1, WalkFields
        <3>3. Waiting(z) = InHeap(z.heap) \ V
            BY <2>3, <3>1 DEF Waiting, InHeap
        <3>4. InHeap(z.heap) \subseteq InHeap(heap)
            BY <2>3 DEF InHeap
        <3> HIDE DEF waits
        <3>5. /\ waits \subseteq Waiting(z) \cup {z.u}
              /\ Waiting(z) \subseteq waits \cup Nearby(E, V)
              /\ z.u \in waits \cup Nearby(E, V) \/ waits = {}
            BY <1>15, <2>3, <3>2, <3>3, <3>4
        <3> QED
            BY <1>9, <2>3, <3>2, <3>5 DEF TurnOf, z, waits
    <2> QED
        BY <1>6, <2>4, <2>5
<1> QED
    BY <1>16, <1>17

\* What is taken from the queue or the stack is the head or the last of it.
LEMMA HeadLeaves ==
    ASSUME NEW X, NEW s \in Seq(X), s # <<>>
    PROVE  ToSet(s) \subseteq ToSet(Tail(s)) \cup {Head(s)}
<1> DEFINE n == Len(s)
           t == Tail(s)
<1>1. n \in Nat /\ n >= 1 /\ DOMAIN s = 1..n /\ Head(s) = s[1]
    OBVIOUS
<1>2. t \in Seq(X) /\ Len(t) = n - 1 /\ \A i \in 1..(n - 1) : t[i] = s[i + 1]
    BY <1>1
<1>3. DOMAIN t = 1..(n - 1)
    BY <1>2
<1> HIDE DEF t, n
<1> SUFFICES ASSUME NEW k \in 1..n PROVE s[k] \in ToSet(t) \cup {s[1]}
    BY <1>1 DEF ToSet, t
<1>4. CASE k = 1
    BY <1>4
<1>5. CASE k # 1
    <2>1. k - 1 \in 1..(n - 1) /\ (k - 1) + 1 = k
        BY <1>1, <1>5
    <2>2. t[k - 1] = s[k]
        BY <1>2, <2>1
    <2> QED
        BY <1>3, <2>1, <2>2 DEF ToSet
<1> QED
    BY <1>4, <1>5

LEMMA LastLeaves ==
    ASSUME NEW X, NEW s \in Seq(X), s # <<>>
    PROVE  ToSet(s) \subseteq ToSet(Front(s)) \cup {Last(s)}
<1> DEFINE n == Len(s)
           t == Front(s)
<1>1. n \in Nat /\ n >= 1 /\ DOMAIN s = 1..n /\ Last(s) = s[n]
    BY DEF Last
<1>2. DOMAIN t = 1..(n - 1) /\ \A i \in 1..(n - 1) : t[i] = s[i]
    <2>1. t = [i \in 1..(n - 1) |-> s[i]]
        BY <1>1 DEF Front
    <2> QED
        BY <2>1
<1> HIDE DEF t, n
<1> SUFFICES ASSUME NEW k \in 1..n PROVE s[k] \in ToSet(t) \cup {s[n]}
    BY <1>1 DEF ToSet, t
<1>3. CASE k = n
    BY <1>3
<1>4. CASE k # n
    <2>1. k \in 1..(n - 1)
        BY <1>1, <1>4
    <2> QED
        BY <1>2, <2>1 DEF ToSet
<1> QED
    BY <1>3, <1>4

\* Which vertex comes next and which go on waiting.
TakenFrom(E, left, rest, z) ==
    /\ z.sorted = left.sorted /\ z.kind = left.kind
    /\ z.error = "walking" =>
        /\ z.visited = left.visited /\ z.u \in Endpoints(E) \ left.visited
        /\ rest = <<>> => z.queue = <<>>
        /\ rest # <<>> => \/ z.u = Head(rest) /\ z.queue = Tail(rest)
                          \/ z.kind # "bfs" /\ z.u = Last(rest) /\ z.queue = Front(rest)

LEMMA GoOnIs ==
    ASSUME NEW E, NEW w \in WalkOver(E), NEW u, u \notin w.visited, NEW q
    PROVE  LET z == GoOn(w, u, q)
           IN  z.sorted = w.sorted /\ z.kind = w.kind /\ z.visited = w.visited /\ z.u = u /\ z.queue = q
    BY DEF GoOn, WalkOver

LEMMA NextIsTaken ==
    ASSUME NEW E, IsUniverse(E), NEW w, NEW left \in WalkOver(E), left.kind = w.kind, left.kind # "greedy",
           left.error = "walking", NEW rest \in Seq(Endpoints(E)), ToSet(rest) \cap left.visited = {}
    PROVE  TakenFrom(E, left, rest, AfterListing(w, left, rest))
<1> DEFINE least == Min(Unvisited(left))
           one == <<least>>
           q == IF rest = <<>> /\ Unvisited(left) # {} THEN one ELSE rest
           z == AfterListing(w, left, rest)
<1>1. z = CASE q = <<>> -> Ended(left)
            [] q # <<>> /\ IsQueue(w) -> GoOn(left, Head(q), Tail(q))
            [] q # <<>> /\ ~IsQueue(w) -> GoOn(left, Last(q), Front(q))
    BY DEF AfterListing
<1>2. left.kind = "bfs" <=> IsQueue(w)
    BY DEF IsQueue
<1> HIDE DEF z
<1>3. CASE q = <<>>
    <2>1. z = Ended(left)
        BY <1>1, <1>3
    <2>2. z.sorted = left.sorted /\ z.kind = left.kind /\ z.error # "walking"
        BY <2>1 DEF Ended, WalkOver
    <2> QED
        BY <2>2 DEF TakenFrom, z
<1>4. ASSUME rest = <<>>, Unvisited(left) # {} PROVE TakenFrom(E, left, rest, z)
    <2>1. least \in Endpoints(E) /\ least \notin left.visited
        BY <1>4, UnvisitedIs DEF Unvisited
    <2>2. /\ q = one /\ one # <<>> /\ Head(one) = least /\ Tail(one) = <<>>
          /\ Last(one) = least /\ Front(one) = <<>>
        <3>1. Len(one) = 1 /\ one[1] = least /\ one \in Seq({least})
            OBVIOUS
        <3>2. Tail(one) = <<>> /\ Head(one) = least
            OBVIOUS
        <3>3. Last(one) = least
            BY <3>1 DEF Last
        <3>4. Front(one) = <<>>
            BY <3>1 DEF Front
        <3> QED
            BY <1>4, <3>2, <3>3, <3>4
    <2>3. z = GoOn(left, least, <<>>)
        BY <1>1, <2>2
    <2> HIDE DEF least
    <2>4. z.sorted = left.sorted /\ z.kind = left.kind /\ z.visited = left.visited /\ z.u = least /\ z.queue = <<>>
        BY <2>1, <2>3, GoOnIs
    <2> QED
        BY <1>4, <2>1, <2>4 DEF TakenFrom
<1>5. ASSUME rest # <<>> PROVE TakenFrom(E, left, rest, z)
    <2>1. q = rest
        BY <1>5
    <2>2. ASSUME NEW x \in ToSet(rest), NEW r, z = GoOn(left, x, r)
          PROVE  /\ z.sorted = left.sorted /\ z.kind = left.kind /\ z.visited = left.visited
                 /\ z.u \in Endpoints(E) \ left.visited /\ z.u = x /\ z.queue = r
        <3>1. x \in Endpoints(E) /\ x \notin left.visited
            BY <2>2 DEF ToSet
        <3> QED
            BY <2>2, <3>1, GoOnIs
    <2>3. /\ Head(rest) \in ToSet(rest) /\ Last(rest) \in ToSet(rest)
        <3>1. Len(rest) \in Nat /\ Len(rest) >= 1 /\ DOMAIN rest = 1..Len(rest)
            BY <1>5
        <3> QED
            BY <1>5, <3>1 DEF Last, ToSet
    <2> HIDE DEF q
    <2>4. CASE IsQueue(w)
        <3>1. z = GoOn(left, Head(rest), Tail(rest))
            BY <1>1, <1>5, <2>1, <2>4
        <3> QED
            BY <1>5, <2>2, <2>3, <3>1 DEF TakenFrom
    <2>5. CASE ~IsQueue(w)
        <3>1. z = GoOn(left, Last(rest), Front(rest))
            BY <1>1, <1>5, <2>1, <2>5
        <3> QED
            BY <1>2, <1>5, <2>2, <2>3, <2>5, <3>1 DEF TakenFrom
    <2> QED
        BY <2>4, <2>5
<1> QED
    BY <1>3, <1>4, <1>5 DEF z

LEMMA QueueTurn ==
    ASSUME NEW E, IsUniverse(E), NEW w, QueueOn(E, w)
    PROVE  TurnOf(E, w, Visit(w))
<1>1. PICK left, fresh : /\ VisitLeaves(E, w, left, fresh)
                         /\ Visit(w) = AfterListing(w, left, w.queue \o fresh)
    BY VisitIsOf
<1> DEFINE u == w.u
           V == w.visited \cup {u}
           N == Neighbors(E, u)
           rest == w.queue \o fresh
           z == Visit(w)
           waits == (Waiting(w) \ V) \cup (N \ V)
<1>2. /\ left \in WalkOver(E) /\ left.kind = w.kind /\ left.error = "walking" /\ left.visited = V
      /\ ToSet(fresh) = N \ (V \cup ToSet(w.queue))
      /\ rest \in Seq(Endpoints(E)) /\ IsInjective(rest)
      /\ ToSet(rest) = ToSet(w.queue) \cup ToSet(fresh) /\ ToSet(rest) \cap V = {}
      /\ w.kind # "greedy" /\ w \in WalkOver(E)
    BY <1>1 DEF VisitLeaves, QueueOn
<1>3. PICK t : ListEdgesTo(E, u, N \cap V, t) /\ left.sorted = w.sorted \o t
    BY <1>1 DEF VisitLeaves
<1>4. Extends(E, u, N \cap V, w.sorted, left.sorted)
    <2>1. t \in Seq(E) /\ \A e : e \in ToSet(t) <=> \E v \in N \cap V : e = EdgeBetween(E, u, v)
        BY <1>3 DEF ListEdgesTo
    <2>2. \A v : EdgeBetween(E, u, v) = <<u, v>> \/ EdgeBetween(E, u, v) = <<v, u>>
        BY DEF EdgeBetween
    <2>3. \A k \in DOMAIN t : t[k] \in ToSet(t)
        BY <2>1 DEF ToSet
    <2>4. \A e \in ToSet(t) : \E k \in DOMAIN t : t[k] = e
        BY <2>1 DEF ToSet
    <2>5. \A k \in DOMAIN t : \E x \in N \cap V : t[k] = <<u, x>> \/ t[k] = <<x, u>>
        BY <2>1, <2>2, <2>3
    <2>6. \A x \in N \cap V : \E k \in DOMAIN t : t[k] = <<u, x>> \/ t[k] = <<x, u>>
        BY <2>1, <2>2, <2>4
    <2> QED
        BY <1>3, <2>1, <2>5, <2>6 DEF Extends
<1> HIDE DEF z, rest
<1>5. TakenFrom(E, left, rest, z)
    <2>1. TakenFrom(E, left, rest, AfterListing(w, left, rest))
        BY <1>2, NextIsTaken
    <2> QED
        BY <1>1, <2>1 DEF z, rest
<1>6. ToSet(rest) = waits
    <2>1. Waiting(w) = ToSet(w.queue)
        BY <1>2 DEF Waiting
    <2> HIDE DEF V, N
    <2> QED
        BY <1>2, <2>1
<1> HIDE DEF waits
<1>7. ASSUME z.error = "walking"
      PROVE  /\ z.visited = V /\ z.u \in Endpoints(E) \ V
             /\ waits \subseteq Waiting(z) \cup {z.u} /\ Waiting(z) \subseteq waits
             /\ z.u \in waits \/ waits = {}
    <2>1. /\ z.visited = V /\ z.u \in Endpoints(E) \ V /\ z.kind = w.kind
        BY <1>2, <1>5, <1>7 DEF TakenFrom
    <2>2. Waiting(z) = ToSet(z.queue)
        BY <1>2, <2>1 DEF Waiting
    <2>3. CASE rest = <<>>
        <3>1. z.queue = <<>> /\ ToSet(<<>>) = {}
            BY <1>5, <1>7, <2>3 DEF TakenFrom, ToSet
        <3> QED
            BY <1>6, <2>1, <2>2, <2>3, <3>1
    <2>4. CASE rest # <<>>
        <3>1. \/ z.u = Head(rest) /\ z.queue = Tail(rest)
              \/ z.u = Last(rest) /\ z.queue = Front(rest)
            BY <1>5, <1>7, <2>4 DEF TakenFrom
        <3>2. /\ Head(rest) \in ToSet(rest) /\ ToSet(Tail(rest)) \subseteq ToSet(rest)
              /\ Last(rest) \in ToSet(rest) /\ ToSet(Front(rest)) \subseteq ToSet(rest)
            BY <1>2, <2>4, HeadGoes, LastGoes
        <3>3. /\ ToSet(rest) \subseteq ToSet(Tail(rest)) \cup {Head(rest)}
              /\ ToSet(rest) \subseteq ToSet(Front(rest)) \cup {Last(rest)}
            BY <1>2, <2>4, HeadLeaves, LastLeaves
        <3> QED
            BY <1>6, <2>1, <2>2, <3>1, <3>2, <3>3
    <2> QED
        BY <2>3, <2>4
<1>8. z.sorted = left.sorted
    BY <1>5 DEF TakenFrom
<1> QED
    BY <1>4, <1>7, <1>8 DEF TurnOf, z, waits, N, V, u

\* A walk that starts at a vertex.
LEMMA StartGrows ==
    ASSUME NEW E, NEW kind \in {"greedy", "bfs", "dfs"}, NEW r
    PROVE  GrowsFrom(E, r, StartWalk(E, kind, r))
<1> DEFINE w == StartWalk(E, kind, r)
<1>1. w.kind = kind /\ w.u = r /\ w.visited = {} /\ w.sorted = <<>> /\ w.heap = {} /\ w.queue = <<>>
    BY DEF StartWalk
<1> HIDE DEF w
<1>2. DOMAIN <<>> = {} /\ ToSet(<<>>) = {}
    BY DEF ToSet
<1>3. Waiting(w) = {} /\ Nearby(E, {}) = {}
    BY <1>1, <1>2 DEF Waiting, Nearby
<1> QED
    BY <1>1, <1>2, <1>3 DEF GrowsFrom, Attached, w

LEMMA TurnIsOf ==
    ASSUME NEW E, IsUniverse(E), NEW w, WalkOn(E, w)
    PROVE  TurnOf(E, w, Turn(w))
<1>1. CASE GreedyOn(E, w)
    <2>1. Turn(w) = VisitGreedy(w)
        BY <1>1 DEF GreedyOn, Turn
    <2> QED
        BY <1>1, <2>1, GreedyTurn
<1>2. CASE QueueOn(E, w)
    <2>1. Turn(w) = Visit(w)
        BY <1>2 DEF QueueOn, Turn
    <2> QED
        BY <1>2, <2>1, QueueTurn
<1> QED
    BY <1>1, <1>2 DEF WalkOn
-----------------------------------------------------------------------------
(***************************************************************************)
(* The distances from the vertex where a walk starts.                      *)
(***************************************************************************)
Reached(E, S) == S \cup UNION {Neighbors(E, u) : u \in S}

Layers(E, r, n, f) ==
    f = [d \in 0..n |-> IF d = 0 THEN {r} ELSE Reached(E, f[d - 1])]

LEMMA LayersExist ==
    ASSUME NEW E, NEW r, NEW n \in Nat
    PROVE  \E f : Layers(E, r, n, f)
<1> DEFINE A == SUBSET (Endpoints(E) \cup {r})
           next == [p \in A \X (1..n) |-> Reached(E, p[1])]
<1>1. {r} \in A
    OBVIOUS
<1>2. \A S \in A : Reached(E, S) \in A
    <2>1. \A u : Neighbors(E, u) \subseteq Endpoints(E)
        BY DEF Neighbors
    <2> QED
        BY <2>1 DEF Reached
<1> HIDE DEF A
<1>3. IsTurn(next, n, A)
    BY <1>2 DEF IsTurn
<1>4. \A S \in A, k \in 1..n : next[<<S, k>>] = Reached(E, S)
    OBVIOUS
<1> HIDE DEF next
<1>5. PICK h : FoldsAs(h, {r}, next, n, A)
    BY <1>1, <1>3, FoldRuns
<1> DEFINE f == [k \in 0..n |-> h[1..k]]
<1>6. Run(f, {r}, next, n, A)
    BY <1>1, <1>5, RunOf
<1>7. /\ f \in [0..n -> A] /\ f[0] = {r}
      /\ \A k \in 0..(n - 1) : f[k + 1] = next[<<f[k], k + 1>>]
    BY <1>6 DEF Run
<1> HIDE DEF f
<1>8. ASSUME NEW d \in 0..n PROVE f[d] = IF d = 0 THEN {r} ELSE Reached(E, f[d - 1])
    <2>1. CASE d = 0
        BY <1>7, <2>1
    <2>2. CASE d # 0
        <3> DEFINE k == d - 1
        <3>1. k \in 0..(n - 1) /\ k \in 0..n /\ k + 1 = d /\ d \in 1..n
            BY <2>2
        <3> HIDE DEF k
        <3>2. f[d] = next[<<f[k], d>>] /\ f[k] \in A
            BY <1>7, <3>1
        <3>3. f[d] = Reached(E, f[k])
            BY <1>4, <3>1, <3>2
        <3> QED
            BY <2>2, <3>3 DEF k
    <2> QED
        BY <2>1, <2>2
<1>9. f = [d \in 0..n |-> f[d]]
    BY <1>7
<1>10. f = [d \in 0..n |-> IF d = 0 THEN {r} ELSE Reached(E, f[d - 1])]
    BY <1>8, <1>9
<1> QED
    BY <1>10 DEF Layers

LEMMA DistanceIs ==
    ASSUME NEW E, NEW r, Cardinality(Endpoints(E)) \in Nat
    PROVE  LET n == Cardinality(Endpoints(E))
           IN  \E f : /\ Layers(E, r, n, f)
                      /\ \A v : Distance(E, r, v) = Min({d \in 0..n : v \in f[d]} \cup {n + 1})
<1> DEFINE n == Cardinality(Endpoints(E))
           within == CHOOSE f : Layers(E, r, n, f)
<1>1. Layers(E, r, n, within)
    BY LayersExist
<1>2. \A v : Distance(E, r, v) = Min({d \in 0..n : v \in within[d]} \cup {n + 1})
    BY DEF Distance, Layers, Reached
<1> QED
    BY <1>1, <1>2

\* d gives each vertex its distance, n + 1 where no edges lead.
Measures(E, r, n, d) ==
    /\ n \in Nat /\ d \in [Endpoints(E) -> 0..(n + 1)]
    /\ \A v \in Endpoints(E) : d[v] = 0 <=> v = r
    /\ \A u \in Endpoints(E) : \A v \in Neighbors(E, u) : d[v] <= d[u] + 1
    /\ \A v \in Endpoints(E) : d[v] \in 1..n =>
            \E u \in Endpoints(E) : v \in Neighbors(E, u) /\ d[u] = d[v] - 1

Distances(E, r) == [v \in Endpoints(E) |-> Distance(E, r, v)]

LEMMA DistancesMeasure ==
    ASSUME NEW E, IsUniverse(E), NEW r
    PROVE  Measures(E, r, Cardinality(Endpoints(E)), Distances(E, r))
<1> DEFINE n == Cardinality(Endpoints(E))
           d == Distances(E, r)
<1>1. n \in Nat
    BY UniverseFacts, FS_CardinalityType
<1>2. PICK f : /\ Layers(E, r, n, f)
               /\ \A v : Distance(E, r, v) = Min({k \in 0..n : v \in f[k]} \cup {n + 1})
    BY <1>1, DistanceIs
<1>3. \A v \in Endpoints(E) : d[v] = Distance(E, r, v)
    BY DEF Distances
<1>4. d = [v \in Endpoints(E) |-> d[v]]
    BY DEF Distances
<1>5. \A k \in 0..n : f[k] = IF k = 0 THEN {r} ELSE Reached(E, f[k - 1])
    <2> DEFINE g(k) == IF k = 0 THEN {r} ELSE Reached(E, f[k - 1])
    <2>1. f = [k \in 0..n |-> g(k)]
        BY <1>2 DEF Layers
    <2> HIDE DEF g
    <2>2. \A k \in 0..n : f[k] = g(k)
        BY <2>1
    <2> QED
        BY <2>2 DEF g
<1> HIDE DEF d, n
\* v is in every layer from its distance on, and in none before.
<1>6. ASSUME NEW v \in Endpoints(E)
      PROVE  /\ d[v] \in 0..(n + 1)
             /\ d[v] <= n => v \in f[d[v]]
             /\ \A k \in 0..n : v \in f[k] => d[v] <= k
    <2> DEFINE K == {k \in 0..n : v \in f[k]} \cup {n + 1}
    <2>1. K \in SUBSET Nat /\ K # {}
        BY <1>1
    <2>2. Min(K) \in K /\ \A k \in K : Min(K) <= k
        BY <2>1, LeastIs
    <2>3. d[v] = Min(K)
        BY <1>2, <1>3
    <2> HIDE DEF K
    <2>4. d[v] \in K /\ \A k \in K : d[v] <= k
        BY <2>2, <2>3
    <2> QED
        BY <1>1, <2>4 DEF K
<1>7. \A v, u : v \in Neighbors(E, u) => u \in Endpoints(E) /\ v \in Endpoints(E)
    BY NeighborsAre, EndpointsHave
<1>8. ASSUME NEW k \in 1..n, NEW v
      PROVE  v \in f[k] <=> v \in f[k - 1] \/ \E u \in f[k - 1] : v \in Neighbors(E, u)
    <2>1. f[k] = Reached(E, f[k - 1])
        BY <1>1, <1>5
    <2> QED
        BY <2>1 DEF Reached
<1>9. ASSUME NEW v \in Endpoints(E) PROVE d[v] = 0 <=> v = r
    <2>1. 0 \in 0..n /\ f[0] = {r}
        BY <1>1, <1>5
    <2> QED
        BY <1>1, <1>6, <2>1
<1>10. ASSUME NEW u \in Endpoints(E), NEW v \in Neighbors(E, u) PROVE d[v] <= d[u] + 1
    <2>1. v \in Endpoints(E) /\ d[v] \in 0..(n + 1) /\ d[u] \in 0..(n + 1)
        BY <1>6, <1>7
    <2>2. CASE d[u] < n
        <3> DEFINE k == d[u] + 1
        <3>1. k \in 1..n /\ k - 1 = d[u] /\ k \in 0..n /\ d[u] <= n
            BY <1>1, <2>1, <2>2
        <3>2. u \in f[k - 1]
            BY <1>6, <3>1
        <3> HIDE DEF k
        <3>3. v \in f[k]
            BY <1>8, <3>1, <3>2
        <3>4. d[v] <= k
            BY <1>6, <2>1, <3>1, <3>3
        <3> QED
            BY <3>4 DEF k
    <2>3. CASE ~(d[u] < n)
        BY <1>1, <2>1, <2>3
    <2> QED
        BY <2>2, <2>3
<1>11. ASSUME NEW v \in Endpoints(E), d[v] \in 1..n
       PROVE  \E u \in Endpoints(E) : v \in Neighbors(E, u) /\ d[u] = d[v] - 1
    <2> DEFINE k == d[v]
    <2>1. k \in 1..n /\ k - 1 \in 0..n /\ k <= n
        BY <1>1, <1>11
    <2>2. v \in f[k] /\ v \notin f[k - 1]
        <3>1. v \in f[k]
            BY <1>6, <2>1
        <3>2. v \in f[k - 1] => k <= k - 1
            BY <1>6, <2>1
        <3> QED
            BY <2>1, <3>1, <3>2
    <2> HIDE DEF k
    <2>3. PICK u \in f[k - 1] : v \in Neighbors(E, u)
        BY <1>8, <2>1, <2>2
    <2>4. u \in Endpoints(E)
        BY <1>7, <2>3
    <2>5. d[u] <= k - 1 /\ k <= d[u] + 1 /\ d[u] \in 0..(n + 1)
        BY <1>6, <1>10, <2>1, <2>3, <2>4 DEF k
    <2>6. d[u] = k - 1
        BY <1>1, <2>1, <2>5
    <2> QED
        BY <2>3, <2>4, <2>6 DEF k
<1>12. d \in [Endpoints(E) -> 0..(n + 1)]
    BY <1>4, <1>6
<1> QED
    BY <1>1, <1>9, <1>10, <1>11, <1>12 DEF Measures, d, n

\* An edge is as far as its farther end.
Far(d, e) == IF d[e[1]] < d[e[2]] THEN d[e[2]] ELSE d[e[1]]

Rises(d, s) == \A k \in DOMAIN s : \A j \in 1..k : Far(d, s[j]) <= Far(d, s[k])

\* A breadth-first walk lists nothing farther than the vertex it visits, and
\* those that wait are as far or one edge farther.
Levels(E, d, r, w) ==
    /\ r \in w.visited \cup {w.u}
    /\ \A v \in w.visited : d[v] <= d[w.u]
    /\ \A x \in w.visited : Neighbors(E, x) \subseteq w.visited \cup {w.u} \cup ToSet(w.queue)
    /\ \A k \in DOMAIN w.queue : d[w.u] <= d[w.queue[k]] /\ d[w.queue[k]] <= d[w.u] + 1
    /\ \A k \in DOMAIN w.queue : \A j \in 1..k : d[w.queue[j]] <= d[w.queue[k]]
    /\ Rises(d, w.sorted)
    /\ \A k \in DOMAIN w.sorted : Far(d, w.sorted[k]) <= d[w.u]

\* No vertex left is nearer than the one that is visited.
LEMMA LeftAreFar ==
    ASSUME NEW E, IsUniverse(E), NEW r, NEW n, NEW d, Measures(E, r, n, d),
           NEW w, QueueOn(E, w), Levels(E, d, r, w)
    PROVE  \A v \in Endpoints(E) \ w.visited : d[w.u] <= d[v]
<1> DEFINE S == w.visited
           u == w.u
           Q == ToSet(w.queue)
<1>1. /\ n \in Nat /\ \A v \in Endpoints(E) : d[v] \in 0..(n + 1)
      /\ \A v \in Endpoints(E) : d[v] = 0 <=> v = r
      /\ \A v \in Endpoints(E) : d[v] \in 1..n =>
            \E x \in Endpoints(E) : v \in Neighbors(E, x) /\ d[x] = d[v] - 1
    BY DEF Measures
<1>2. u \in Endpoints(E) /\ S \subseteq Endpoints(E)
    BY WalkFields DEF QueueOn
<1>3. /\ r \in S \cup {u} /\ \A x \in S : Neighbors(E, x) \subseteq S \cup {u} \cup Q
      /\ \A v \in Q : d[u] <= d[v]
    BY DEF Levels, ToSet
<1> HIDE DEF S, u, Q
<1> SUFFICES ASSUME \E v \in Endpoints(E) \ S : ~(d[u] <= d[v]) PROVE FALSE
    BY DEF S, u
<1> DEFINE K == {d[v] : v \in {x \in Endpoints(E) \ S : ~(d[u] <= d[x])}}
<1>4. K \in SUBSET Nat /\ K # {}
    BY <1>1
<1>5. PICK k \in K : \A j \in K : k <= j
    BY <1>4, LeastElement
<1>6. PICK v \in Endpoints(E) \ S : ~(d[u] <= d[v]) /\ d[v] = k
    OBVIOUS
<1>7. \A x \in Endpoints(E) \ S : ~(d[u] <= d[x]) => k <= d[x]
    BY <1>5
<1> HIDE DEF K
<1>8. v # r
    BY <1>1, <1>2, <1>3, <1>6
<1>9. k \in 1..n /\ d[v] = k /\ d[v] < d[u] /\ d[u] \in 0..(n + 1)
    BY <1>1, <1>2, <1>6, <1>8
<1>10. PICK x \in Endpoints(E) : v \in Neighbors(E, x) /\ d[x] = k - 1
    BY <1>1, <1>9
<1>11. x \in S
    BY <1>7, <1>9, <1>10
<1>12. v \in S \cup {u} \cup Q
    BY <1>3, <1>10, <1>11
<1> QED
    BY <1>3, <1>6, <1>9, <1>12

\* The vertices that a visit adds to those that wait are all one edge farther.
LEMMA FreshAreNext ==
    ASSUME NEW E, IsUniverse(E), NEW r, NEW n, NEW d, Measures(E, r, n, d),
           NEW w, QueueOn(E, w), Levels(E, d, r, w),
           NEW v \in Neighbors(E, w.u), v \notin w.visited \cup {w.u} \cup ToSet(w.queue)
    PROVE  d[v] = IF d[w.u] <= n THEN d[w.u] + 1 ELSE n + 1
<1> DEFINE S == w.visited
           u == w.u
           Q == ToSet(w.queue)
<1>1. /\ n \in Nat /\ \A x \in Endpoints(E) : d[x] \in 0..(n + 1)
      /\ \A x \in Endpoints(E) : d[x] = 0 <=> x = r
      /\ \A x \in Endpoints(E) : \A y \in Neighbors(E, x) : d[y] <= d[x] + 1
      /\ \A x \in Endpoints(E) : d[x] \in 1..n =>
            \E y \in Endpoints(E) : x \in Neighbors(E, y) /\ d[y] = d[x] - 1
    BY DEF Measures
<1>2. u \in Endpoints(E) /\ S \subseteq Endpoints(E) /\ v \in Endpoints(E)
    BY WalkFields, NeighborsAre DEF QueueOn
<1>3. r \in S \cup {u} /\ \A x \in S : Neighbors(E, x) \subseteq S \cup {u} \cup Q
    BY DEF Levels
<1>4. \A x \in Endpoints(E) \ S : d[u] <= d[x]
    BY LeftAreFar
<1> HIDE DEF S, u, Q
<1>5. v \in Neighbors(E, u) /\ v \notin S \cup {u} \cup Q
    BY DEF S, u, Q
<1>6. d[u] <= d[v] /\ d[v] <= d[u] + 1 /\ d[u] \in 0..(n + 1) /\ d[v] \in 0..(n + 1)
    BY <1>1, <1>2, <1>4, <1>5
<1>7. d[u] <= n => d[v] # d[u]
    <2> SUFFICES ASSUME d[u] <= n, d[v] = d[u] PROVE FALSE
        OBVIOUS
    <2>1. v # r
        BY <1>3, <1>5
    <2>2. d[v] \in 1..n
        BY <1>1, <1>2, <1>6, <2>1
    <2>3. PICK y \in Endpoints(E) : v \in Neighbors(E, y) /\ d[y] = d[v] - 1
        BY <1>1, <1>2, <2>2
    <2>4. y \in S
        BY <1>4, <1>6, <2>3
    <2> QED
        BY <1>3, <1>5, <2>3, <2>4
<1>8. d[v] = IF d[u] <= n THEN d[u] + 1 ELSE n + 1
    <2>1. n \in Nat
        BY <1>1
    <2> QED
        BY <1>6, <1>7, <2>1
<1> QED
    BY <1>8 DEF u

\* Those that wait after a visit.
LEMMA RestRises ==
    ASSUME NEW E, IsUniverse(E), NEW r, NEW n, NEW d, Measures(E, r, n, d),
           NEW w, QueueOn(E, w), Levels(E, d, r, w), NEW left, NEW fresh, VisitLeaves(E, w, left, fresh)
    PROVE  LET rest == w.queue \o fresh
           IN  /\ \A k \in DOMAIN rest : d[w.u] <= d[rest[k]] /\ d[rest[k]] <= d[w.u] + 1
               /\ \A k \in DOMAIN rest : \A j \in 1..k : d[rest[j]] <= d[rest[k]]
<1> DEFINE q == w.queue
           u == w.u
           rest == q \o fresh
           m == Len(q)
<1>1. n \in Nat /\ \A v \in Endpoints(E) : d[v] \in 0..(n + 1)
    BY DEF Measures
<1>2. /\ q \in Seq(Endpoints(E)) /\ fresh \in Seq(Endpoints(E)) /\ u \in Endpoints(E)
      /\ ToSet(fresh) = Neighbors(E, u) \ (w.visited \cup {u} \cup ToSet(q))
    BY WalkFields DEF VisitLeaves, QueueOn
<1>3. /\ \A k \in DOMAIN q : d[u] <= d[q[k]] /\ d[q[k]] <= d[u] + 1
      /\ \A k \in DOMAIN q : \A j \in 1..k : d[q[j]] <= d[q[k]]
    BY DEF Levels
<1>4. \A k \in DOMAIN fresh : d[fresh[k]] = IF d[u] <= n THEN d[u] + 1 ELSE n + 1
    <2> TAKE k \in DOMAIN fresh
    <2>1. fresh[k] \in ToSet(fresh)
        BY DEF ToSet
    <2>2. /\ fresh[k] \in Neighbors(E, w.u)
          /\ fresh[k] \notin w.visited \cup {w.u} \cup ToSet(w.queue)
        BY <1>2, <2>1
    <2> QED
        BY <2>2, FreshAreNext
<1>5. Joined2(q, fresh, rest)
    BY <1>2, JoinedItems
<1> HIDE DEF q, u, rest
<1>6. /\ m \in Nat /\ Len(fresh) \in Nat /\ DOMAIN q = 1..m /\ DOMAIN fresh = 1..Len(fresh)
      /\ DOMAIN rest = 1..(m + Len(fresh))
      /\ \A k \in 1..m : rest[k] = q[k]
      /\ \A k \in 1..Len(fresh) : rest[m + k] = fresh[k]
    BY <1>5 DEF Joined2
<1>7. \A k \in 1..m : q[k] \in Endpoints(E)
    BY <1>2, <1>6
<1> HIDE DEF m
<1>8. ASSUME NEW k \in DOMAIN rest, k \notin 1..m PROVE d[rest[k]] = IF d[u] <= n THEN d[u] + 1 ELSE n + 1
    <2> DEFINE i == k - m
    <2>1. i \in 1..Len(fresh) /\ m + i = k
        BY <1>6, <1>8
    <2> HIDE DEF i
    <2> QED
        BY <1>4, <1>6, <2>1
<1>9. d[u] \in 0..(n + 1)
    BY <1>1, <1>2
<1>10. ASSUME NEW k \in DOMAIN rest PROVE d[u] <= d[rest[k]] /\ d[rest[k]] <= d[u] + 1
    <2>1. CASE k \in 1..m
        BY <1>3, <1>6, <2>1
    <2>2. CASE k \notin 1..m
        BY <1>1, <1>8, <1>9, <2>2
    <2> QED
        BY <2>1, <2>2
<1>11. ASSUME NEW k \in DOMAIN rest, NEW j \in 1..k PROVE d[rest[j]] <= d[rest[k]]
    <2>1. CASE k \in 1..m
        <3>1. j \in 1..m
            BY <1>6, <2>1
        <3> QED
            BY <1>3, <1>6, <2>1, <3>1
    <2>2. CASE k \notin 1..m /\ j \notin 1..m
        <3>1. j \in DOMAIN rest
            BY <1>6
        <3> QED
            BY <1>1, <1>8, <1>9, <2>2, <3>1
    <2>3. CASE k \notin 1..m /\ j \in 1..m
        <3>1. rest[j] = q[j] /\ d[q[j]] \in 0..(n + 1) /\ d[q[j]] <= d[u] + 1
            BY <1>1, <1>3, <1>6, <1>7, <2>3
        <3>2. d[rest[k]] = IF d[u] <= n THEN d[u] + 1 ELSE n + 1
            BY <1>8, <2>3
        <3> QED
            BY <1>1, <1>9, <3>1, <3>2
    <2> QED
        BY <2>1, <2>2, <2>3
<1> QED
    BY <1>10, <1>11 DEF rest, q, u

\* The edges that a visit lists.
LEMMA ListedRises ==
    ASSUME NEW E, IsUniverse(E), NEW r, NEW n, NEW d, Measures(E, r, n, d),
           NEW w, QueueOn(E, w), Levels(E, d, r, w), NEW left, NEW fresh, VisitLeaves(E, w, left, fresh)
    PROVE  /\ Rises(d, left.sorted)
           /\ \A k \in DOMAIN left.sorted : Far(d, left.sorted[k]) <= d[w.u]
<1> DEFINE s == w.sorted
           p == left.sorted
           u == w.u
           M == Neighbors(E, u) \cap (w.visited \cup {u})
           m == Len(s)
<1>1. n \in Nat /\ \A v \in Endpoints(E) : d[v] \in 0..(n + 1)
    BY DEF Measures
<1>2. PICK t : ListEdgesTo(E, u, M, t) /\ p = s \o t
    BY DEF VisitLeaves
<1>3. /\ s \in Seq(E) /\ u \in Endpoints(E) /\ w.visited \subseteq Endpoints(E)
    BY WalkFields DEF QueueOn
<1>4. /\ t \in Seq(E) /\ \A e : e \in ToSet(t) <=> \E v \in M : e = EdgeBetween(E, u, v)
    BY <1>2 DEF ListEdgesTo
<1>5. /\ Rises(d, s) /\ \A k \in DOMAIN s : Far(d, s[k]) <= d[u]
      /\ \A v \in M : v \in Endpoints(E) /\ d[v] <= d[u]
    <2>1. \A v \in w.visited : d[v] <= d[u]
        BY DEF Levels
    <2>2. d[u] <= d[u]
        BY <1>1, <1>3
    <2> QED
        BY <1>3, <2>1, <2>2 DEF Levels
<1> HIDE DEF M, s, p
<1>6. \A k \in DOMAIN t : Far(d, t[k]) = d[u]
    <2> TAKE k \in DOMAIN t
    <2>1. t[k] \in ToSet(t)
        BY DEF ToSet
    <2>2. PICK v \in M : t[k] = EdgeBetween(E, u, v)
        BY <1>4, <2>1
    <2>3. d[v] \in 0..(n + 1) /\ d[u] \in 0..(n + 1) /\ d[v] <= d[u]
        BY <1>1, <1>3, <1>5
    <2>4. CASE t[k] = <<u, v>>
        <3>1. t[k][1] = u /\ t[k][2] = v
            BY <2>4
        <3> QED
            BY <1>1, <2>3, <3>1 DEF Far
    <2>5. CASE t[k] = <<v, u>>
        <3>1. t[k][1] = v /\ t[k][2] = u
            BY <2>5
        <3> QED
            BY <1>1, <2>3, <3>1 DEF Far
    <2> QED
        BY <2>2, <2>4, <2>5 DEF EdgeBetween
<1>7. Joined2(s, t, p)
    BY <1>2, <1>3, <1>4, JoinedItems DEF s
<1>8. /\ m \in Nat /\ Len(t) \in Nat /\ DOMAIN s = 1..m /\ DOMAIN t = 1..Len(t)
      /\ DOMAIN p = 1..(m + Len(t))
      /\ \A k \in 1..m : p[k] = s[k]
      /\ \A k \in 1..Len(t) : p[m + k] = t[k]
    BY <1>7 DEF Joined2
<1> HIDE DEF m, u
<1>9. ASSUME NEW k \in DOMAIN p, k \notin 1..m PROVE Far(d, p[k]) = d[u]
    <2> DEFINE i == k - m
    <2>1. i \in 1..Len(t) /\ m + i = k
        BY <1>8, <1>9
    <2> HIDE DEF i
    <2> QED
        BY <1>6, <1>8, <2>1
<1>10. d[u] \in 0..(n + 1)
    BY <1>1, <1>3
<1>11. ASSUME NEW k \in DOMAIN p PROVE Far(d, p[k]) <= d[u]
    <2>1. CASE k \in 1..m
        BY <1>5, <1>8, <2>1
    <2>2. CASE k \notin 1..m
        BY <1>1, <1>9, <1>10, <2>2
    <2> QED
        BY <2>1, <2>2
<1>12. ASSUME NEW k \in DOMAIN p, NEW j \in 1..k PROVE Far(d, p[j]) <= Far(d, p[k])
    <2>1. CASE k \in 1..m
        <3>1. j \in 1..m
            BY <1>8, <2>1
        <3> QED
            BY <1>5, <1>8, <2>1, <3>1 DEF Rises
    <2>2. CASE k \notin 1..m
        <3>1. j \in DOMAIN p
            BY <1>8
        <3> QED
            BY <1>9, <1>11, <2>2, <3>1
    <2> QED
        BY <2>1, <2>2
<1> QED
    BY <1>11, <1>12 DEF Rises, p, u

LEMMA TurnLevels ==
    ASSUME NEW E, IsUniverse(E), NEW r, NEW n, NEW d, Measures(E, r, n, d),
           NEW w, QueueOn(E, w), w.kind = "bfs", Levels(E, d, r, w)
    PROVE  LET z == Visit(w)
           IN  z.kind = "bfs" /\ Rises(d, z.sorted) /\ (z.error = "walking" => Levels(E, d, r, z))
<1>1. PICK left, fresh : /\ VisitLeaves(E, w, left, fresh)
                         /\ Visit(w) = AfterListing(w, left, w.queue \o fresh)
    BY VisitIsOf
<1> DEFINE u == w.u
           V == w.visited \cup {u}
           rest == w.queue \o fresh
           z == Visit(w)
<1>2. n \in Nat /\ \A v \in Endpoints(E) : d[v] \in 0..(n + 1)
    BY DEF Measures
<1>3. /\ left \in WalkOver(E) /\ left.kind = w.kind /\ left.error = "walking" /\ left.visited = V
      /\ ToSet(fresh) = Neighbors(E, u) \ (V \cup ToSet(w.queue))
      /\ rest \in Seq(Endpoints(E)) /\ ToSet(rest) = ToSet(w.queue) \cup ToSet(fresh)
      /\ ToSet(rest) \cap V = {}
      /\ u \in Endpoints(E) /\ w.visited \subseteq Endpoints(E)
    BY <1>1, WalkFields DEF VisitLeaves, QueueOn
<1>4. /\ \A k \in DOMAIN rest : d[u] <= d[rest[k]] /\ d[rest[k]] <= d[u] + 1
      /\ \A k \in DOMAIN rest : \A j \in 1..k : d[rest[j]] <= d[rest[k]]
    BY <1>1, RestRises
<1>5. /\ Rises(d, left.sorted)
      /\ \A k \in DOMAIN left.sorted : Far(d, left.sorted[k]) <= d[u]
    BY <1>1, ListedRises
<1>6. \A v \in Endpoints(E) \ w.visited : d[u] <= d[v]
    BY LeftAreFar
<1>7. r \in V /\ \A v \in V : d[v] <= d[u]
    BY <1>2, <1>3 DEF Levels
<1>8. \A x \in V : Neighbors(E, x) \subseteq V \cup ToSet(rest)
    <2>1. \A x \in w.visited : Neighbors(E, x) \subseteq V \cup ToSet(w.queue)
        BY DEF Levels
    <2>2. Neighbors(E, u) \subseteq V \cup ToSet(w.queue) \cup ToSet(fresh)
        BY <1>3
    <2> HIDE DEF rest
    <2> QED
        BY <1>3, <2>1, <2>2
<1>9. \A e \in E : e[1] \in Endpoints(E) /\ e[2] \in Endpoints(E)
    BY UniverseFacts
<1>10. \A k \in DOMAIN left.sorted : Far(d, left.sorted[k]) \in 0..(n + 1)
    <2>1. left.sorted \in Seq(E)
        BY <1>3, WalkFields
    <2>2. \A k \in DOMAIN left.sorted : left.sorted[k] \in E
        BY <2>1
    <2> QED
        BY <1>2, <1>9, <2>2 DEF Far
<1> HIDE DEF z, rest, V
<1>11. TakenFrom(E, left, rest, z)
    <2>1. left.kind # "greedy"
        BY <1>3
    <2>2. TakenFrom(E, left, rest, AfterListing(w, left, rest))
        BY <1>3, <2>1, NextIsTaken
    <2> QED
        BY <1>1, <2>2 DEF z, rest
<1>12. z.sorted = left.sorted /\ z.kind = "bfs"
    BY <1>3, <1>11 DEF TakenFrom
<1>13. ASSUME z.error = "walking" PROVE Levels(E, d, r, z)
    <2>1. z.visited = V /\ z.u \in Endpoints(E) \ V /\ z.kind = "bfs"
        BY <1>3, <1>11, <1>13 DEF TakenFrom
    <2>2. d[u] <= d[z.u] /\ d[u] \in 0..(n + 1) /\ d[z.u] \in 0..(n + 1)
        BY <1>2, <1>3, <1>6, <2>1 DEF V
    <2>3. /\ r \in V \cup {z.u} /\ \A v \in V : d[v] <= d[z.u]
          /\ \A k \in DOMAIN z.sorted : Far(d, z.sorted[k]) <= d[z.u]
        <3>1. \A v \in V : d[v] \in 0..(n + 1)
            BY <1>2, <1>3 DEF V
        <3> QED
            BY <1>2, <1>5, <1>7, <1>10, <1>12, <2>2, <3>1
    <2>4. CASE rest = <<>>
        <3>1. z.queue = <<>> /\ DOMAIN <<>> = {} /\ ToSet(<<>>) = {}
            BY <1>11, <1>13, <2>4 DEF TakenFrom, ToSet
        <3>2. \A x \in V : Neighbors(E, x) \subseteq V \cup {z.u} \cup ToSet(z.queue)
            BY <1>8, <2>4, <3>1
        <3> QED
            BY <1>5, <1>12, <2>1, <2>3, <3>1, <3>2 DEF Levels
    <2>5. CASE rest # <<>>
        <3> DEFINE q == z.queue
                   l == Len(rest)
        <3>1. z.u = Head(rest) /\ q = Tail(rest)
            BY <1>11, <1>13, <2>1, <2>5 DEF TakenFrom
        <3>2. /\ l \in Nat /\ l >= 1 /\ DOMAIN rest = 1..l /\ z.u = rest[1]
              /\ DOMAIN q = 1..(l - 1) /\ \A k \in 1..(l - 1) : q[k] = rest[k + 1]
            BY <1>3, <2>5, <3>1
        <3>3. ToSet(rest) \subseteq ToSet(q) \cup {z.u}
            BY <1>3, <2>5, <3>1, HeadLeaves
        <3>4. \A x \in V : Neighbors(E, x) \subseteq V \cup {z.u} \cup ToSet(q)
            BY <1>8, <3>3
        <3>5. \A k \in 1..l : d[rest[k]] \in 0..(n + 1)
            BY <1>2, <1>3, <3>2
        <3> HIDE DEF q, l
        <3>6. ASSUME NEW k \in DOMAIN q
              PROVE  /\ d[z.u] <= d[q[k]] /\ d[q[k]] <= d[z.u] + 1
                     /\ \A j \in 1..k : d[q[j]] <= d[q[k]]
            <4>1. k + 1 \in 1..l /\ 1 \in 1..(k + 1) /\ 1 \in 1..l /\ k \in 1..(l - 1) /\ q[k] = rest[k + 1]
                BY <3>2
            <4>2. d[rest[1]] <= d[rest[k + 1]] /\ d[rest[k + 1]] <= d[u] + 1
                BY <1>4, <3>2, <4>1
            <4>3. ASSUME NEW j \in 1..k PROVE d[q[j]] <= d[q[k]]
                <5>1. j + 1 \in 1..(k + 1) /\ j \in 1..(l - 1) /\ q[j] = rest[j + 1]
                    BY <3>2, <4>1
                <5> QED
                    BY <1>4, <3>2, <4>1, <5>1
            <4>4. d[rest[k + 1]] \in 0..(n + 1)
                BY <3>5, <4>1
            <4> QED
                BY <1>2, <2>2, <3>2, <4>1, <4>2, <4>3, <4>4
        <3> QED
            BY <1>5, <1>12, <2>1, <2>3, <3>4, <3>6 DEF Levels, q
    <2> QED
        BY <2>4, <2>5
<1> QED
    BY <1>5, <1>12, <1>13 DEF z

LEMMA StartLevels ==
    ASSUME NEW E, NEW kind, NEW r, NEW d
    PROVE  Levels(E, d, r, StartWalk(E, kind, r))
<1> DEFINE w == StartWalk(E, kind, r)
<1>1. w.u = r /\ w.visited = {} /\ w.sorted = <<>> /\ w.queue = <<>>
    BY DEF StartWalk
<1> HIDE DEF w
<1>2. DOMAIN <<>> = {}
    OBVIOUS
<1> QED
    BY <1>1, <1>2 DEF Levels, Rises, w
-----------------------------------------------------------------------------
(***************************************************************************)
(* The order of the edges of a universe that was traversed.                *)
(***************************************************************************)
StartOf(arg) == IF arg.source = NoSource THEN Min(Endpoints(arg.edges)) ELSE arg.source

\* What OrderedByWalk says of the call c after which the elements are l.
InWalkOrder(c, l) ==
    LET arg == c.arg
        edges == arg.edges
        start == IF arg.source = NoSource THEN Min(Endpoints(edges)) ELSE arg.source
        far == [k \in DOMAIN l |-> Max({Distance(edges, start, v) : v \in {l[k][1], l[k][2]}})]
    IN  c.op = "set_universe" /\ c.error = "none" /\ arg.traversal # "as-is" =>
            /\ Connected(edges) =>
                    \A k \in DOMAIN l :
                        LET before == {e \in ToSet(SubSeq(l, 1, k)) : e[1] # e[2]}
                        IN  before # {} => start \in Endpoints(before) /\ Connected(before)
            /\ arg.traversal = "bfs" => \A k \in 1..(Len(l) - 1) : far[k] <= far[k + 1]

LEMMA OrderedIs ==
    ASSUME NEW E, IsUniverse(E), NEW c, c.arg.edges = E, NEW l \in Seq(E),
           Connected(E) => Attached(StartOf(c.arg), l),
           c.arg.traversal = "bfs" => Rises(Distances(E, StartOf(c.arg)), l)
    PROVE  InWalkOrder(c, l)
<1> DEFINE r == StartOf(c.arg)
           d == Distances(E, r)
           far == [k \in DOMAIN l |-> Max({Distance(E, r, v) : v \in {l[k][1], l[k][2]}})]
           n == Cardinality(Endpoints(E))
<1>1. DOMAIN l = 1..Len(l) /\ Len(l) \in Nat /\ \A k \in DOMAIN l : l[k] \in E
    OBVIOUS
<1>2. ASSUME Connected(E), NEW k \in DOMAIN l
      PROVE  LET before == {e \in ToSet(SubSeq(l, 1, k)) : e[1] # e[2]}
             IN  before # {} => r \in Endpoints(before) /\ Connected(before)
    <2> HIDE DEF r
    <2>1. LET before == Proper(ToSet(SubSeq(l, 1, k)))
          IN  before # {} => r \in Endpoints(before) /\ Connected(before)
        BY <1>2, AttachedConnected DEF r
    <2> QED
        BY <2>1 DEF Proper
<1>3. ASSUME c.arg.traversal = "bfs", NEW k \in 1..(Len(l) - 1) PROVE far[k] <= far[k + 1]
    <2>1. Measures(E, r, n, d)
        BY DistancesMeasure
    <2>2. n \in Nat /\ \A v \in Endpoints(E) : d[v] \in 0..(n + 1) /\ d[v] = Distance(E, r, v)
        BY <2>1 DEF Measures, Distances
    <2>3. Rises(d, l)
        BY <1>3
    <2> HIDE DEF n, d, r
    <2>4. ASSUME NEW j \in DOMAIN l PROVE far[j] = Far(d, l[j])
        <3> DEFINE a == l[j][1]
                   b == l[j][2]
        <3>1. a \in Endpoints(E) /\ b \in Endpoints(E)
            BY <1>1, UniverseFacts
        <3>2. far[j] = Max({Distance(E, r, v) : v \in {a, b}})
            OBVIOUS
        <3>3. d[a] \in Nat /\ d[b] \in Nat /\ d[a] = Distance(E, r, a) /\ d[b] = Distance(E, r, b)
            BY <2>2, <3>1
        <3> HIDE DEF a, b, far
        <3>4. {Distance(E, r, v) : v \in {a, b}} = {d[a], d[b]}
            BY <3>3
        <3>5. Max({d[a], d[b]}) = IF d[a] < d[b] THEN d[b] ELSE d[a]
            BY <3>3, LargerOf
        <3> QED
            BY <3>2, <3>4, <3>5 DEF Far, a, b
    <2>5. k \in DOMAIN l /\ k + 1 \in DOMAIN l /\ k \in 1..(k + 1)
        BY <1>1
    <2> HIDE DEF far
    <2> QED
        BY <2>3, <2>4, <2>5 DEF Rises
<1>4. r = IF c.arg.source = NoSource THEN Min(Endpoints(E)) ELSE c.arg.source
    BY DEF StartOf
<1> HIDE DEF r
<1> QED
    BY <1>2, <1>3, <1>4 DEF InWalkOrder

\* The traversal that goes on has listed what it met in its order.
WalkOrder ==
    walk # NoWalk =>
        LET E == walk.arg.edges
            r == StartOf(walk.arg)
        IN  /\ Connected(E) => GrowsFrom(E, r, walk.w)
            /\ walk.arg.traversal = "bfs" =>
                    walk.w.kind = "bfs" /\ Levels(E, Distances(E, r), r, walk.w)

OrderInv == ClassInv /\ OrderedByWalk /\ WalkOrder

LEMMA StartOrder ==
    ASSUME call = NoCall, walk = NoWalk,
           NEW edges \in Walks, NEW traversal \in Traversals, NEW source \in Starts,
           SetUniverse(edges, traversal, source)
    PROVE  InWalkOrder(call', elems') /\ WalkOrder'
<1> DEFINE arg == [edges |-> edges, repeated |-> FALSE, traversal |-> traversal, source |-> source]
           start == IF source = NoSource THEN Min(Endpoints(edges)) ELSE source
           w == StartWalk(edges, traversal, start)
<1>1. IF edges = {} /\ source = NoSource
      THEN RefuseUniverse(arg, <<>>, "IndexError") /\ UNCHANGED walk
      ELSE IF w.error = "walking"
      THEN /\ walk' = [w |-> w, arg |-> arg, error |-> "walking"]
           /\ UNCHANGED <<elems, numElems, objects, loop, call>>
      ELSE RefuseUniverse(arg, <<>>, w.error) /\ UNCHANGED walk
    BY DEF SetUniverse
<1>2. arg.edges = edges /\ arg.traversal = traversal /\ StartOf(arg) = start
    BY DEF StartOf
<1>3. GrowsFrom(edges, start, w) /\ w.kind = traversal /\ \A d : Levels(edges, d, start, w)
    <2>1. traversal \in {"greedy", "bfs", "dfs"}
        BY DiGraphSetsAssumption
    <2> HIDE DEF start
    <2> QED
        BY <2>1, StartGrows, StartLevels DEF StartWalk
<1> HIDE DEF arg, start, w
<1>4. ASSUME NEW error, error # "none", RefuseUniverse(arg, <<>>, error), UNCHANGED walk
      PROVE  InWalkOrder(call', elems') /\ WalkOrder'
    <2>1. call'.error = error /\ walk' = NoWalk
        BY <1>4 DEF RefuseUniverse, Returned
    <2> QED
        BY <1>4, <2>1 DEF InWalkOrder, WalkOrder
<1>5. CASE edges = {} /\ source = NoSource
    BY <1>1, <1>4, <1>5
<1>6. CASE ~(edges = {} /\ source = NoSource) /\ w.error = "walking"
    <2>1. walk' = [w |-> w, arg |-> arg, error |-> "walking"] /\ call' = NoCall
        BY <1>1, <1>6
    <2>2. walk'.w = w /\ walk'.arg = arg
        BY <2>1
    <2>3. WalkOrder'
        BY <1>2, <1>3, <2>2 DEF WalkOrder
    <2> QED
        BY <2>1, <2>3 DEF InWalkOrder, NoCall
<1>7. CASE ~(edges = {} /\ source = NoSource) /\ w.error # "walking"
    <2>1. RefuseUniverse(arg, <<>>, w.error) /\ UNCHANGED walk
        BY <1>1, <1>7
    <2>2. w.error # "none"
        BY <1>7 DEF w, StartWalk
    <2> QED
        BY <1>4, <2>1, <2>2
<1> QED
    BY <1>5, <1>6, <1>7

LEMMA VisitOrder ==
    ASSUME OrderInv, VisitVertex
    PROVE  InWalkOrder(call', elems') /\ WalkOrder'
<1> DEFINE arg == walk.arg
           E == arg.edges
           r == StartOf(arg)
           d == Distances(E, r)
           v == walk.w
           w == Turn(v)
           s == w.sorted
<1>1. /\ walk # NoWalk /\ walk = [w |-> walk.w, arg |-> walk.arg, error |-> "walking"]
      /\ call = NoCall /\ UniverseInv
      /\ Connected(E) => GrowsFrom(E, r, v)
      /\ arg.traversal = "bfs" => v.kind = "bfs" /\ Levels(E, d, r, v)
    BY DEF OrderInv, ClassInv, WalkInv, WalkOrder, VisitVertex
<1>2. IsUniverse(E) /\ WalkOn(E, v)
    BY <1>1 DEF OrderInv, ClassInv, WalkInv, Traverses
<1>3. /\ w.error = "walking" =>
            walk' = [walk EXCEPT !.w = w] /\ UNCHANGED <<universeVars, objects, loop, call>>
      /\ w.error = "none" => GiveUniverse(arg, s, <<>>) /\ walk' = NoWalk
      /\ w.error \notin {"walking", "none"} =>
            RefuseUniverse(arg, <<>>, w.error) /\ walk' = NoWalk
    BY DEF VisitVertex
<1>4. Connected(E) => Attached(r, s) /\ (w.error = "walking" => GrowsFrom(E, r, w))
    <2>1. TurnOf(E, v, w)
        BY <1>2, TurnIsOf
    <2> HIDE DEF w, v, E, r
    <2> QED
        BY <1>1, <1>2, <2>1, TurnGrows
<1>5. arg.traversal = "bfs" =>
        w.kind = "bfs" /\ Rises(d, s) /\ (w.error = "walking" => Levels(E, d, r, w))
    <2> SUFFICES ASSUME arg.traversal = "bfs"
                 PROVE  w.kind = "bfs" /\ Rises(d, s) /\ (w.error = "walking" => Levels(E, d, r, w))
        OBVIOUS
    <2>1. v.kind = "bfs" /\ Levels(E, d, r, v)
        BY <1>1
    <2>2. QueueOn(E, v) /\ w = Visit(v)
        BY <1>2, <2>1 DEF WalkOn, GreedyOn, Turn
    <2>3. Measures(E, r, Cardinality(Endpoints(E)), d)
        BY <1>2, DistancesMeasure
    <2> DEFINE n == Cardinality(Endpoints(E))
    <2>4. Measures(E, r, n, d)
        BY <2>3
    <2> HIDE DEF n, w, v, E, r, d
    <2> QED
        BY <1>2, <2>1, <2>2, <2>4, TurnLevels
<1>6. WalkOn(E, w) \/ WalkDone(E, w)
    BY <1>2, TurnIs
<1> HIDE DEF w, r, d, v
<1>7. CASE w.error = "walking"
    <2>1. walk' = [w |-> w, arg |-> arg, error |-> "walking"] /\ call' = NoCall
        BY <1>1, <1>3, <1>7
    <2>2. walk'.w = w /\ walk'.arg = arg
        BY <2>1
    <2>3. WalkOrder'
        BY <1>4, <1>5, <1>7, <2>2 DEF WalkOrder, r, d
    <2> QED
        BY <2>1, <2>3 DEF InWalkOrder, NoCall
<1>8. CASE w.error = "none"
    <2>1. GiveUniverse(arg, s, <<>>) /\ walk' = NoWalk
        BY <1>3, <1>8
    <2>2. s \in Seq(E)
        BY <1>6, <1>8 DEF WalkOn, WalkDone, GreedyOn, QueueOn, GreedyOver, QueueOver, ListsAll
    <2>3. DOMAIN <<>> \subseteq ToSet(s)
        OBVIOUS
    <2> HIDE DEF s, arg
    <2>4. Accepts(arg, s)
        BY <1>1, <2>1, <2>2, <2>3, GivingUniverse
    <2>5. call'.arg = arg /\ (call'.error = "none" => elems' = s)
        BY <2>4 DEF Accepts
    <2>6. call'.error = "none" => InWalkOrder(call', elems')
        <3> DEFINE c == call'
        <3>1. c.arg = arg /\ c.arg.edges = E
            BY <2>5
        <3>2. Connected(E) => Attached(StartOf(c.arg), s)
            BY <1>4, <3>1 DEF r
        <3>3. c.arg.traversal = "bfs" => Rises(Distances(E, StartOf(c.arg)), s)
            BY <1>5, <3>1 DEF r, d
        <3> HIDE DEF c, E
        <3>4. InWalkOrder(c, s)
            BY <1>2, <2>2, <3>1, <3>2, <3>3, OrderedIs
        <3> QED
            BY <2>5, <3>4 DEF c
    <2>7. call'.error # "none" => InWalkOrder(call', elems')
        BY DEF InWalkOrder
    <2>8. WalkOrder'
        BY <2>1 DEF WalkOrder
    <2> QED
        BY <2>6, <2>7, <2>8
<1>9. CASE w.error \notin {"walking", "none"}
    <2>1. RefuseUniverse(arg, <<>>, w.error) /\ walk' = NoWalk
        BY <1>3, <1>9
    <2>2. call'.error = w.error
        BY <2>1 DEF RefuseUniverse, Returned
    <2> QED
        BY <1>9, <2>1, <2>2 DEF InWalkOrder, WalkOrder
<1> QED
    BY <1>7, <1>8, <1>9

LEMMA OrderSteps ==
    ASSUME OrderInv, [Next]_vars
    PROVE  OrderInv'
<1>1. ClassInv /\ OrderedByWalk /\ WalkOrder /\ WalkInv
    BY DEF OrderInv, ClassInv
<1>2. ClassInv'
    BY <1>1, ClassSteps
<1>3. OrderedByWalk' <=> InWalkOrder(call', elems')
    BY DEF OrderedByWalk, InWalkOrder
<1>0. SUFFICES InWalkOrder(call', elems') /\ WalkOrder'
    BY <1>2, <1>3 DEF OrderInv
<1>4. ASSUME call'.op # "set_universe", walk' = NoWalk PROVE InWalkOrder(call', elems') /\ WalkOrder'
    BY <1>4 DEF InWalkOrder, WalkOrder
<1>5. ASSUME UNCHANGED <<elems, call, walk>> PROVE InWalkOrder(call', elems') /\ WalkOrder'
    <2>1. InWalkOrder(call, elems)
        BY <1>1 DEF OrderedByWalk, InWalkOrder
    <2>2. InWalkOrder(call', elems')
        BY <1>5, <2>1
    <2> QED
        BY <1>1, <1>5, <2>2 DEF WalkOrder
<1>6. CASE CallObjects
    <2>1. walk = NoWalk
        BY <1>6 DEF CallObjects, Idle
    <2>2. UNCHANGED walk /\ call'.op # "set_universe"
        BY <1>6, CallObjectsLeaves DEF Quiet, Grows, Counts
    <2> QED
        BY <1>4, <2>1, <2>2
<1>7. CASE CallUniverse
    <2>1. call = NoCall /\ walk = NoWalk
        BY <1>7 DEF CallUniverse, Idle
    <2>2. CASE \E list \in Lists : SetUniverseAsIs(list)
        <3>1. PICK list \in Lists : SetUniverseAsIs(list)
            BY <2>2
        <3>2. call'.arg.traversal = "as-is" /\ UNCHANGED walk
            BY <3>1 DEF SetUniverseAsIs, RefuseUniverse, GiveUniverse, Returned
        <3> QED
            BY <2>1, <3>2 DEF InWalkOrder, WalkOrder
    <2>3. CASE \E edges \in Walks, traversal \in Traversals, start \in Starts :
                    SetUniverse(edges, traversal, start)
        BY <2>1, <2>3, StartOrder
    <2> QED
        BY <1>7, <2>2, <2>3 DEF CallUniverse
<1>8. CASE VisitVertex
    BY <1>8, VisitOrder
<1>9. CASE Loop
    BY <1>5, <1>9 DEF Loop, BeginLoop, FirstTurn, OtherTurn, LeaveLoop, universeVars
<1>10. CASE Return \/ Restart
    <2>1. call # NoCall /\ call' = NoCall /\ UNCHANGED walk
        BY <1>10 DEF Return, Restart
    <2>2. walk = NoWalk
        BY <1>1, <2>1 DEF WalkInv
    <2> QED
        BY <1>4, <2>1, <2>2 DEF NoCall
<1>11. CASE UNCHANGED vars
    BY <1>5, <1>11 DEF vars, universeVars
<1> QED
    BY <1>6, <1>7, <1>8, <1>9, <1>10, <1>11 DEF Next

\* Whatever universe is walked, every walk over a connected graph puts each edge
\* next to one before it, from its source on, the breadth-first one the nearer
\* before the farther, and no turn visits a vertex again.
THEOREM WalksRightAlways == Spec => []WalksRight
<1>1. Init => OrderInv
    <2> SUFFICES ASSUME Init PROVE OrderInv
        OBVIOUS
    <2>1. call = NoCall /\ walk = NoWalk
        BY DEF Init
    <2>2. OrderedByWalk /\ WalkOrder
        BY <2>1 DEF OrderedByWalk, WalkOrder, NoCall
    <2> QED
        BY <2>2, ClassStart DEF OrderInv
<1>2. OrderInv /\ [Next]_vars => OrderInv'
    BY OrderSteps
<1>3. OrderInv => OrderedByWalk
    BY DEF OrderInv
<1>4. OrderedByWalk /\ WalkVisitsNew => WalksRight
    BY DEF WalksRight
<1> QED
    BY <1>1, <1>2, <1>3, <1>4, WalkVisitsNewAlways, PTL DEF Spec
=============================================================================
