------------------------- MODULE SapporoNodesProofs -------------------------
(***************************************************************************)
(* The node table, its free list, its reference counts and the operation   *)
(* cache, for every number of variables, every size of the table and of    *)
(* the cache, every program and every hash function.                       *)
(***************************************************************************)
EXTENDS SapporoNodes, FiniteSetTheorems, SequenceTheorems, LeastNumber, TLAPS

(***************************************************************************)
(* The node table as an object of its own.  First the references into it   *)
(* and their counts: what bddcopy(), bddfree() and the moving of a         *)
(* reference do to a table whose counts are right, what a new node and a   *)
(* collected one do, and that the nodes that can be reached from an object *)
(* are never without a reference.  Then what an edge into a table in order *)
(* stands for: the table holds no two nodes for the same family, so that   *)
(* ZBDD::operator== may compare edges.                                     *)
(***************************************************************************)
\* A call of apply(), a node, and what may be returned.
FrameType ==
    [op : BinaryOps \cup UnaryOps, f : Edges, g : Operands, v : 0..NumVars,
     f1 : Edges, g1 : Operands, h0 : Edges, h1 : Edges, key : Nat, inv : BOOLEAN,
     pc : {"enter", "h0", "h1", "make", "allocate"}]

NodeType == [var : 0..NumVars, rfc : Nat, f0 : Edges, f1 : Edges]
TableType == [Index -> NodeType]
Values == Edges \cup {Null, NoRet}

\* A free node of the table t is blank.
FreeIn(t) == \A n \in Index : t[n].var = 0 => t[n] = FreeNode

(***************************************************************************)
(* The nodes that can be reached from the objects of the program.          *)
(***************************************************************************)
ClosedFrom(C) ==
    /\ \A h \in Handles : Counted(handle[h]) => Ndx(handle[h]) \in C
    /\ \A n \in C : /\ ~Cst(node[n].f0) => Ndx(node[n].f0) \in C
                    /\ ~Cst(node[n].f1) => Ndx(node[n].f1) \in C
Live == {n \in Index : \A C \in SUBSET Index : ClosedFrom(C) => n \in C}
LiveEdge(f) == Cst(f) \/ Ndx(f) \in Live

\* The references of R to node n, and a table that counts them.
Hits(R, n) == {r \in R : r[3] \in {2 * n, 2 * n + 1}}
Tally(t, R) ==
    \A n \in Index : IsFiniteSet(Hits(R, n)) /\ t[n].rfc = Cardinality(Hits(R, n))
-----------------------------------------------------------------------------
LEMMA ConstantFacts ==
    /\ NodeLimit \in Nat /\ NodeLimit >= 2
    /\ NumVars \in Nat /\ NumVars >= 1
    /\ False = 2 * NodeLimit /\ True = 2 * NodeLimit + 1
    /\ Null = 2 * NodeLimit + 2 /\ NoRet = 2 * NodeLimit + 3
    /\ False \in Edges /\ True \in Edges /\ Null \notin Edges /\ NoRet \notin Edges
    /\ Null # NoRet
BY SizesAssumption DEF False, True, Null, NoRet, Edges

\* An edge is a node and a sign.
LEMMA EdgeFacts ==
    ASSUME NEW f \in Edges
    PROVE  /\ f \in Nat
           /\ Not(f) \in Edges /\ Ndx(Not(f)) = Ndx(f) /\ (Cst(Not(f)) <=> Cst(f))
           /\ Abs(f) \in Edges /\ Ndx(Abs(f)) = Ndx(f) /\ (Cst(Abs(f)) <=> Cst(f))
           /\ Neg(Not(f)) <=> ~Neg(f)
           /\ ~Neg(Abs(f))
           /\ Not(Not(f)) = f
           /\ Counted(f) <=> ~Cst(f)
           /\ Cst(f) => f = False \/ f = True
           /\ ~Cst(f) => /\ Ndx(f) \in Index
                         /\ f = 2 * Ndx(f) \/ f = 2 * Ndx(f) + 1
<1>1. f \in 0..(2 * NodeLimit + 1) /\ NodeLimit \in Nat
    BY ConstantFacts DEF Edges
<1>2. PICK k \in 0..NodeLimit : f = 2 * k \/ f = 2 * k + 1
    <2>1. f \div 2 \in 0..NodeLimit /\ (f = 2 * (f \div 2) \/ f = 2 * (f \div 2) + 1)
        BY <1>1
    <2> QED
        BY <2>1
<1>3. CASE f = 2 * k
    BY <1>1, <1>2, <1>3, ConstantFacts DEF Not, Abs, Neg, Ndx, Cst, Counted, Edges, Index
<1>4. CASE f = 2 * k + 1
    BY <1>1, <1>2, <1>4, ConstantFacts DEF Not, Abs, Neg, Ndx, Cst, Counted, Edges, Index
<1> QED
    BY <1>2, <1>3, <1>4

LEMMA NodeEdgeFacts ==
    ASSUME NEW n \in Index
    PROVE  /\ n \in Nat
           /\ 2 * n \in Edges /\ 2 * n + 1 \in Edges
           /\ ~Cst(2 * n) /\ ~Cst(2 * n + 1)
           /\ Ndx(2 * n) = n /\ Ndx(2 * n + 1) = n
           /\ ~Neg(2 * n) /\ Neg(2 * n + 1)
BY ConstantFacts DEF Neg, Ndx, Cst, Edges, Index

\* The values that stand for no node.
LEMMA ValueFacts ==
    /\ Cst(False) /\ Cst(True) /\ ~Neg(False) /\ Neg(True)
    /\ Not(False) = True /\ Not(True) = False
    /\ ~Counted(False) /\ ~Counted(True) /\ ~Counted(Null) /\ ~Counted(NoRet)
    /\ \A f \in Values : Counted(f) => f \in Edges /\ Ndx(f) \in Index
BY ConstantFacts, EdgeFacts DEF Cst, Counted, Not, Neg, Values

\* A reference hits the node its edge names, and no other.
LEMMA HitFacts ==
    ASSUME NEW f \in Values, NEW n \in Index
    PROVE  f \in {2 * n, 2 * n + 1} <=> Counted(f) /\ Ndx(f) = n
<1>1. CASE f \in Edges
    BY <1>1, EdgeFacts, NodeEdgeFacts
<1>2. CASE f \notin Edges
    BY <1>2, ConstantFacts, NodeEdgeFacts, ValueFacts DEF Values
<1> QED
    BY <1>1, <1>2
-----------------------------------------------------------------------------
\* bddcopy() and bddfree() change one count.
LEMMA IncFacts ==
    ASSUME NEW t \in TableType, NEW f \in Values
    PROVE  /\ Inc(t, f) \in TableType
           /\ \A n \in Index :
                /\ Inc(t, f)[n].var = t[n].var
                /\ Inc(t, f)[n].f0 = t[n].f0 /\ Inc(t, f)[n].f1 = t[n].f1
                /\ Inc(t, f)[n].rfc = IF Counted(f) /\ Ndx(f) = n THEN t[n].rfc + 1
                                      ELSE t[n].rfc
<1>1. CASE Counted(f)
    <2>1. Ndx(f) \in Index
        BY <1>1, ValueFacts
    <2>2. Inc(t, f) = [t EXCEPT ![Ndx(f)].rfc = @ + 1]
        BY <1>1 DEF Inc
    <2> QED
        BY <1>1, <2>1, <2>2 DEF TableType, NodeType
<1>2. CASE ~Counted(f)
    BY <1>2 DEF Inc
<1> QED
    BY <1>1, <1>2

LEMMA DecFacts ==
    ASSUME NEW t \in TableType, NEW f \in Values,
           Counted(f) => t[Ndx(f)].rfc >= 1
    PROVE  /\ Dec(t, f) \in TableType
           /\ \A n \in Index :
                /\ Dec(t, f)[n].var = t[n].var
                /\ Dec(t, f)[n].f0 = t[n].f0 /\ Dec(t, f)[n].f1 = t[n].f1
                /\ Dec(t, f)[n].rfc = IF Counted(f) /\ Ndx(f) = n THEN t[n].rfc - 1
                                      ELSE t[n].rfc
<1>1. CASE Counted(f)
    <2>1. Ndx(f) \in Index
        BY <1>1, ValueFacts
    <2>2. Dec(t, f) = [t EXCEPT ![Ndx(f)].rfc = @ - 1]
        BY <1>1 DEF Dec
    <2>3. t[Ndx(f)].rfc - 1 \in Nat
        BY <1>1, <2>1 DEF TableType, NodeType
    <2> QED
        BY <1>1, <2>1, <2>2, <2>3 DEF TableType, NodeType
<1>2. CASE ~Counted(f)
    BY <1>2 DEF Dec
<1> QED
    BY <1>1, <1>2
-----------------------------------------------------------------------------
\* One reference more, one less, or one in the place of another.
LEMMA TallyAdd ==
    ASSUME NEW t \in TableType, NEW R, Tally(t, R),
           NEW r, r \notin R, r[3] \in Values
    PROVE  Tally(Inc(t, r[3]), R \cup {r})
<1> SUFFICES ASSUME NEW n \in Index
             PROVE  /\ IsFiniteSet(Hits(R \cup {r}, n))
                    /\ Inc(t, r[3])[n].rfc = Cardinality(Hits(R \cup {r}, n))
    BY DEF Tally
<1>1. IsFiniteSet(Hits(R, n)) /\ t[n].rfc = Cardinality(Hits(R, n))
    BY DEF Tally
<1>2. Inc(t, r[3])[n].rfc = IF Counted(r[3]) /\ Ndx(r[3]) = n THEN t[n].rfc + 1
                            ELSE t[n].rfc
    BY IncFacts
<1>3. CASE Counted(r[3]) /\ Ndx(r[3]) = n
    <2>1. r[3] \in {2 * n, 2 * n + 1}
        BY <1>3, HitFacts
    <2>2. Hits(R \cup {r}, n) = Hits(R, n) \cup {r} /\ r \notin Hits(R, n)
        BY <2>1 DEF Hits
    <2>3. /\ IsFiniteSet(Hits(R \cup {r}, n))
          /\ Cardinality(Hits(R \cup {r}, n)) = Cardinality(Hits(R, n)) + 1
        <3>1. /\ IsFiniteSet(Hits(R, n) \cup {r})
              /\ Cardinality(Hits(R, n) \cup {r}) = Cardinality(Hits(R, n)) + 1
            BY <1>1, <2>2, FS_AddElement
        <3> QED
            BY <2>2, <3>1, Zenon
    <2> QED
        BY <1>1, <1>2, <1>3, <2>3
<1>4. CASE ~(Counted(r[3]) /\ Ndx(r[3]) = n)
    <2>1. r[3] \notin {2 * n, 2 * n + 1}
        BY <1>4, HitFacts
    <2>2. Hits(R \cup {r}, n) = Hits(R, n)
        BY <2>1 DEF Hits
    <2> QED
        BY <1>1, <1>2, <1>4, <2>2
<1> QED
    BY <1>3, <1>4

LEMMA TallyDrop ==
    ASSUME NEW t \in TableType, NEW R, Tally(t, R),
           NEW r \in R, r[3] \in Values
    PROVE  /\ Counted(r[3]) => t[Ndx(r[3])].rfc >= 1
           /\ Tally(Dec(t, r[3]), R \ {r})
<1>1. ASSUME NEW n \in Index
      PROVE  IsFiniteSet(Hits(R, n)) /\ t[n].rfc = Cardinality(Hits(R, n))
    BY DEF Tally
<1>2. ASSUME Counted(r[3])
      PROVE  t[Ndx(r[3])].rfc >= 1
    <2>1. Ndx(r[3]) \in Index /\ r \in Hits(R, Ndx(r[3]))
        BY <1>2, HitFacts, ValueFacts DEF Hits
    <2>2. t[Ndx(r[3])].rfc # 0
        BY <1>1, <2>1, FS_EmptySet
    <2> QED
        BY <2>1, <2>2 DEF TableType, NodeType
<1>3. ASSUME NEW n \in Index
      PROVE  /\ IsFiniteSet(Hits(R \ {r}, n))
             /\ Dec(t, r[3])[n].rfc = Cardinality(Hits(R \ {r}, n))
    <2>1. Dec(t, r[3])[n].rfc = IF Counted(r[3]) /\ Ndx(r[3]) = n THEN t[n].rfc - 1
                                ELSE t[n].rfc
        BY <1>2, DecFacts
    <2>2. CASE Counted(r[3]) /\ Ndx(r[3]) = n
        <3>1. r[3] \in {2 * n, 2 * n + 1}
            BY <2>2, HitFacts
        <3>2. Hits(R \ {r}, n) = Hits(R, n) \ {r} /\ r \in Hits(R, n)
            BY <3>1 DEF Hits
        <3>3. /\ IsFiniteSet(Hits(R \ {r}, n))
              /\ Cardinality(Hits(R \ {r}, n)) = Cardinality(Hits(R, n)) - 1
            <4>1. /\ IsFiniteSet(Hits(R, n) \ {r})
                  /\ Cardinality(Hits(R, n) \ {r}) = Cardinality(Hits(R, n)) - 1
                BY <1>1, <3>2, FS_RemoveElement
            <4> QED
                BY <3>2, <4>1, Zenon
        <3> QED
            BY <1>1, <2>1, <2>2, <3>3
    <2>3. CASE ~(Counted(r[3]) /\ Ndx(r[3]) = n)
        <3>1. r[3] \notin {2 * n, 2 * n + 1}
            BY <2>3, HitFacts
        <3>2. Hits(R \ {r}, n) = Hits(R, n)
            BY <3>1 DEF Hits
        <3> QED
            BY <1>1, <2>1, <2>3, <3>2
    <2> QED
        BY <2>2, <2>3
<1> QED
    BY <1>2, <1>3 DEF Tally

LEMMA TallyMove ==
    ASSUME NEW t \in TableType, NEW R, Tally(t, R),
           NEW r \in R, NEW q, q \notin R, r[3] \in Values, q[3] \in Values,
           Counted(r[3]) <=> Counted(q[3]), Counted(r[3]) => Ndx(r[3]) = Ndx(q[3])
    PROVE  Tally(t, (R \ {r}) \cup {q})
<1> SUFFICES ASSUME NEW n \in Index
             PROVE  /\ IsFiniteSet(Hits((R \ {r}) \cup {q}, n))
                    /\ t[n].rfc = Cardinality(Hits((R \ {r}) \cup {q}, n))
    BY DEF Tally
<1>1. IsFiniteSet(Hits(R, n)) /\ t[n].rfc = Cardinality(Hits(R, n))
    BY DEF Tally
<1>2. CASE Counted(r[3]) /\ Ndx(r[3]) = n
    <2>1. r[3] \in {2 * n, 2 * n + 1} /\ q[3] \in {2 * n, 2 * n + 1}
        BY <1>2, HitFacts
    <2>2. /\ Hits((R \ {r}) \cup {q}, n) = (Hits(R, n) \ {r}) \cup {q}
          /\ r \in Hits(R, n) /\ q \notin Hits(R, n) \ {r}
        BY <2>1 DEF Hits
    <2>3. /\ IsFiniteSet(Hits(R, n) \ {r})
          /\ Cardinality(Hits(R, n) \ {r}) = Cardinality(Hits(R, n)) - 1
        BY <1>1, <2>2, FS_RemoveElement
    <2>4. /\ IsFiniteSet((Hits(R, n) \ {r}) \cup {q})
          /\ Cardinality((Hits(R, n) \ {r}) \cup {q}) = Cardinality(Hits(R, n) \ {r}) + 1
        BY <2>2, <2>3, FS_AddElement
    <2>5. Cardinality(Hits(R, n)) \in Nat
        BY <1>1, FS_CardinalityType
    <2>6. Cardinality((Hits(R, n) \ {r}) \cup {q}) = Cardinality(Hits(R, n))
        BY <2>3, <2>4, <2>5
    <2> QED
        BY <1>1, <2>2, <2>4, <2>6, Zenon
<1>3. CASE ~(Counted(r[3]) /\ Ndx(r[3]) = n)
    <2>1. r[3] \notin {2 * n, 2 * n + 1} /\ q[3] \notin {2 * n, 2 * n + 1}
        BY <1>3, HitFacts
    <2>2. Hits((R \ {r}) \cup {q}, n) = Hits(R, n)
        BY <2>1 DEF Hits
    <2> QED
        BY <1>1, <2>2
<1> QED
    BY <1>2, <1>3
-----------------------------------------------------------------------------
\* The references held by objects hd, table t, stack s, pending edges p and
\* the value r being returned.
UsedIn(t) == {n \in Index : t[n].var # 0}
HandleRefs(hd) == {<<"handle", h, hd[h]>> : h \in Handles}
ZeroRefs(t) == {<<"f0", n, t[n].f0>> : n \in UsedIn(t)}
OneRefs(t) == {<<"f1", n, t[n].f1>> : n \in UsedIn(t)}
H0Refs(s) == {<<"h0", k, s[k].h0>> : k \in 1..Len(s)}
H1Refs(s) == {<<"h1", k, s[k].h1>> : k \in 1..Len(s)}
PendingRefs(p) == {<<"pending", Len(p) - k, p[k]>> : k \in 1..Len(p)}
RefSet(hd, t, s, p, r) ==
    HandleRefs(hd) \cup ZeroRefs(t) \cup OneRefs(t) \cup H0Refs(s) \cup H1Refs(s)
        \cup PendingRefs(p) \cup {<<"ret", 0, r>>}

LEMMA ReferencesSet == References = RefSet(handle, node, stack, gc.pending, ret)
BY DEF References, RefSet, HandleRefs, ZeroRefs, OneRefs, H0Refs, H1Refs, PendingRefs,
       UsedIn, Used

\* What is in each part of a set of references, told by the tag.
LEMMA RefTags ==
    ASSUME NEW hd, NEW t, NEW s, NEW p, NEW r
    PROVE  /\ \A x \in HandleRefs(hd) : x[1] = "handle"
           /\ \A x \in ZeroRefs(t) : x[1] = "f0"
           /\ \A x \in OneRefs(t) : x[1] = "f1"
           /\ \A x \in H0Refs(s) : x[1] = "h0"
           /\ \A x \in H1Refs(s) : x[1] = "h1"
           /\ \A x \in PendingRefs(p) : x[1] = "pending"
           /\ <<"ret", 0, r>>[1] = "ret"
BY DEF HandleRefs, ZeroRefs, OneRefs, H0Refs, H1Refs, PendingRefs

\* In Q, reference q stands in the place of r.
Swaps(R, Q, r, q) == r \in R /\ q \notin R \ {r} /\ Q = (R \ {r}) \cup {q}

LEMMA SwapMove ==
    ASSUME NEW t \in TableType, NEW R, NEW Q, NEW r, NEW q,
           Tally(t, R), Swaps(R, Q, r, q), r[3] \in Values, q[3] \in Values,
           Counted(r[3]) <=> Counted(q[3]), Counted(r[3]) => Ndx(r[3]) = Ndx(q[3])
    PROVE  Tally(t, Q)
<1>1. CASE q = r
    <2>1. Q = R
        BY <1>1 DEF Swaps
    <2> QED
        BY <2>1
<1>2. CASE q # r
    BY <1>2, TallyMove DEF Swaps
<1> QED
    BY <1>1, <1>2

LEMMA SwapTake ==
    ASSUME NEW t \in TableType, NEW R, NEW Q, NEW r, NEW q,
           Tally(t, R), Swaps(R, Q, r, q), r[3] \in Values, q[3] \in Values,
           ~Counted(r[3])
    PROVE  Tally(Inc(t, q[3]), Q)
<1>1. Tally(t, R \ {r})
    <2>1. Dec(t, r[3]) = t
        BY DEF Dec
    <2> QED
        BY <2>1, TallyDrop DEF Swaps
<1>2. Tally(Inc(t, q[3]), (R \ {r}) \cup {q})
    BY <1>1, TallyAdd DEF Swaps
<1> QED
    BY <1>2 DEF Swaps

LEMMA SwapGive ==
    ASSUME NEW t \in TableType, NEW R, NEW Q, NEW r, NEW q,
           Tally(t, R), Swaps(R, Q, r, q), r[3] \in Values, q[3] \in Values,
           ~Counted(q[3])
    PROVE  /\ Counted(r[3]) => t[Ndx(r[3])].rfc >= 1
           /\ Tally(Dec(t, r[3]), Q)
<1>1. /\ Counted(r[3]) => t[Ndx(r[3])].rfc >= 1
      /\ Tally(Dec(t, r[3]), R \ {r})
    BY TallyDrop DEF Swaps
<1>2. Dec(t, r[3]) \in TableType
    BY <1>1, DecFacts
<1>3. Inc(Dec(t, r[3]), q[3]) = Dec(t, r[3])
    BY DEF Inc
<1>4. Tally(Inc(Dec(t, r[3]), q[3]), (R \ {r}) \cup {q})
    BY <1>1, <1>2, TallyAdd DEF Swaps
<1> QED
    BY <1>1, <1>3, <1>4 DEF Swaps

\* The reference goes from one place to another one.
LEMMA SwapTwo ==
    ASSUME NEW t \in TableType, NEW R, NEW Q1, NEW Q, NEW r1, NEW q1, NEW r2, NEW q2,
           Tally(t, R), Swaps(R, Q1, r1, q1), Swaps(Q1, Q, r2, q2),
           r1[3] \in Values, q1[3] \in Values, r2[3] \in Values, q2[3] \in Values,
           r1 # r2, q2 # r1, q2 # q1, q1 # r2, q2 \notin R,
           ~Counted(q1[3]), ~Counted(r2[3]),
           Counted(r1[3]) <=> Counted(q2[3]), Counted(r1[3]) => Ndx(r1[3]) = Ndx(q2[3])
    PROVE  Tally(t, Q)
<1> DEFINE R1 == (R \ {r1}) \cup {q2}
<1>1. Tally(t, R1)
    BY TallyMove DEF Swaps
<1>2. r2 \in R1 /\ q1 \notin R1 \ {r2}
    BY DEF Swaps
<1>3. Q = (R1 \ {r2}) \cup {q1}
    BY DEF Swaps
<1> HIDE DEF R1
<1> QED
    BY <1>1, <1>2, <1>3, SwapMove DEF Swaps
-----------------------------------------------------------------------------
\* Sequences, as the stack of calls uses them.
LEMMA TopFacts ==
    ASSUME NEW S, NEW s \in Seq(S), s # <<>>
    PROVE  /\ Len(s) \in Nat /\ Len(s) >= 1 /\ s[Len(s)] \in S
           /\ Front(s) \in Seq(S) /\ Len(Front(s)) = Len(s) - 1
           /\ \A k \in 1..(Len(s) - 1) : Front(s)[k] = s[k]
<1>1. Len(s) \in Nat /\ Len(s) >= 1
    OBVIOUS
<1>2. \A k \in 1..Len(s) : s[k] \in S
    OBVIOUS
<1>3. /\ SubSeq(s, 1, Len(s) - 1) \in Seq(S)
      /\ Len(SubSeq(s, 1, Len(s) - 1)) = Len(s) - 1
      /\ \A k \in 1..(Len(s) - 1) : SubSeq(s, 1, Len(s) - 1)[k] = s[k]
    <2>1. 1 \in 1..(Len(s) + 1) /\ Len(s) - 1 \in (1 - 1)..Len(s) /\ Len(s) - 1 - 1 + 1 = Len(s) - 1
        BY <1>1
    <2>2. SubSeq(s, 1, Len(s) - 1) \in Seq(S)
        BY <2>1, SubSeqProperties
    <2>3. Len(SubSeq(s, 1, Len(s) - 1)) = Len(s) - 1
        BY <1>1
    <2>4. \A k \in 1..(Len(s) - 1) : SubSeq(s, 1, Len(s) - 1)[k] = s[k]
        BY <1>1, <1>2
    <2> QED
        BY <2>2, <2>3, <2>4
<1> QED
    BY <1>1, <1>2, <1>3 DEF Front

LEMMA ReplaceFacts ==
    ASSUME NEW S, NEW s \in Seq(S), s # <<>>, NEW x \in S
    PROVE  /\ [s EXCEPT ![Len(s)] = x] \in Seq(S)
           /\ [s EXCEPT ![Len(s)] = x] # <<>>
           /\ Len([s EXCEPT ![Len(s)] = x]) = Len(s)
           /\ [s EXCEPT ![Len(s)] = x][Len(s)] = x
           /\ \A k \in 1..(Len(s) - 1) : [s EXCEPT ![Len(s)] = x][k] = s[k]
           /\ Front([s EXCEPT ![Len(s)] = x]) = Front(s)
<1> DEFINE u == [s EXCEPT ![Len(s)] = x]
<1>1. Len(s) \in Nat /\ Len(s) >= 1 /\ Len(s) \in 1..Len(s)
    OBVIOUS
<1>2. /\ u \in Seq(S) /\ Len(u) = Len(s) /\ u[Len(s)] = x
      /\ \A k \in 1..(Len(s) - 1) : u[k] = s[k]
    BY <1>1
<1>3. u # <<>>
    <2> HIDE DEF u
    <2> QED
        BY <1>1, <1>2
<1>4. /\ Front(u) \in Seq(S) /\ Len(Front(u)) = Len(s) - 1
      /\ \A k \in 1..(Len(s) - 1) : Front(u)[k] = s[k]
    <2> HIDE DEF u
    <2> QED
        BY <1>2, <1>3, TopFacts
<1>5. /\ Front(s) \in Seq(S) /\ Len(Front(s)) = Len(s) - 1
      /\ \A k \in 1..(Len(s) - 1) : Front(s)[k] = s[k]
    BY TopFacts
<1>6. Front(u) = Front(s)
    <2> HIDE DEF u
    <2> QED
        BY <1>4, <1>5
<1> QED
    BY <1>2, <1>3, <1>6

LEMMA PushFacts ==
    ASSUME NEW S, NEW s \in Seq(S), NEW x \in S
    PROVE  /\ Len(s) \in Nat
           /\ Append(s, x) \in Seq(S) /\ Append(s, x) # <<>>
           /\ Len(Append(s, x)) = Len(s) + 1
           /\ Append(s, x)[Len(s) + 1] = x
           /\ \A k \in 1..Len(s) : Append(s, x)[k] = s[k]
OBVIOUS
-----------------------------------------------------------------------------
\* How one assignment changes the set of references.
LEMMA RetSlot ==
    ASSUME NEW hd, NEW t, NEW s, NEW p, NEW r, NEW x
    PROVE  Swaps(RefSet(hd, t, s, p, r), RefSet(hd, t, s, p, x), <<"ret", 0, r>>, <<"ret", 0, x>>)
<1> DEFINE Others == HandleRefs(hd) \cup ZeroRefs(t) \cup OneRefs(t) \cup H0Refs(s)
                        \cup H1Refs(s) \cup PendingRefs(p)
<1>1. \A y \in Others : y[1] # "ret"
    BY RefTags
<1>2. <<"ret", 0, r>> \notin Others /\ <<"ret", 0, x>> \notin Others
    BY <1>1
<1>3. /\ RefSet(hd, t, s, p, r) = Others \cup {<<"ret", 0, r>>}
      /\ RefSet(hd, t, s, p, x) = Others \cup {<<"ret", 0, x>>}
    BY DEF RefSet
<1> HIDE DEF Others
<1> QED
    BY <1>2, <1>3 DEF Swaps

LEMMA HandleSlot ==
    ASSUME NEW hd, NEW t, NEW s, NEW p, NEW r, NEW V, hd \in [Handles -> V],
           NEW h \in Handles, NEW x
    PROVE  Swaps(RefSet(hd, t, s, p, r), RefSet([hd EXCEPT ![h] = x], t, s, p, r),
                 <<"handle", h, hd[h]>>, <<"handle", h, x>>)
<1> DEFINE Others == ZeroRefs(t) \cup OneRefs(t) \cup H0Refs(s)
                        \cup H1Refs(s) \cup PendingRefs(p) \cup {<<"ret", 0, r>>}
           Rest == {<<"handle", g, hd[g]>> : g \in Handles \ {h}}
<1>1. \A y \in Others : y[1] # "handle"
    BY RefTags
<1>2. <<"handle", h, hd[h]>> \notin Others /\ <<"handle", h, x>> \notin Others
    BY <1>1
<1>3. <<"handle", h, hd[h]>> \notin Rest /\ <<"handle", h, x>> \notin Rest
    OBVIOUS
<1>4. HandleRefs(hd) = Rest \cup {<<"handle", h, hd[h]>>}
    BY DEF HandleRefs
<1>5. HandleRefs([hd EXCEPT ![h] = x]) = Rest \cup {<<"handle", h, x>>}
    BY DEF HandleRefs
<1>6. /\ RefSet(hd, t, s, p, r) = (Others \cup Rest) \cup {<<"handle", h, hd[h]>>}
      /\ RefSet([hd EXCEPT ![h] = x], t, s, p, r) = (Others \cup Rest) \cup {<<"handle", h, x>>}
    BY <1>4, <1>5 DEF RefSet
<1> HIDE DEF Others, Rest
<1> QED
    BY <1>2, <1>3, <1>6 DEF Swaps

\* The call on top takes another frame that differs in h0, or in h1.
LEMMA H0Slot ==
    ASSUME NEW hd, NEW t, NEW s \in Seq(FrameType), s # <<>>, NEW p, NEW r,
           NEW fr \in FrameType, fr.h1 = s[Len(s)].h1
    PROVE  Swaps(RefSet(hd, t, s, p, r), RefSet(hd, t, [s EXCEPT ![Len(s)] = fr], p, r),
                 <<"h0", Len(s), s[Len(s)].h0>>, <<"h0", Len(s), fr.h0>>)
<1> DEFINE u == [s EXCEPT ![Len(s)] = fr]
           m == Len(s)
           Others == HandleRefs(hd) \cup ZeroRefs(t) \cup OneRefs(t)
                        \cup H1Refs(s) \cup PendingRefs(p) \cup {<<"ret", 0, r>>}
           Rest == {<<"h0", k, s[k].h0>> : k \in 1..(m - 1)}
<1>1. /\ m \in Nat /\ m >= 1 /\ Len(u) = m
      /\ u[m] = fr /\ \A k \in 1..(m - 1) : u[k] = s[k]
    BY TopFacts, ReplaceFacts
<1> HIDE DEF u, m
<1>2. 1..m = (1..(m - 1)) \cup {m} /\ m \notin 1..(m - 1)
    BY <1>1
<1>3. \A y \in Others : y[1] # "h0"
    BY RefTags
<1>4. <<"h0", m, s[m].h0>> \notin Others /\ <<"h0", m, fr.h0>> \notin Others
    BY <1>3
<1>5. <<"h0", m, s[m].h0>> \notin Rest /\ <<"h0", m, fr.h0>> \notin Rest
    BY <1>2
<1>6. H0Refs(s) = Rest \cup {<<"h0", m, s[m].h0>>}
    BY <1>2 DEF H0Refs, m
<1>7. H0Refs(u) = Rest \cup {<<"h0", m, fr.h0>>}
    BY <1>1, <1>2 DEF H0Refs
<1>8. H1Refs(u) = H1Refs(s)
    <2>1. Len(u) = Len(s) /\ \A k \in 1..Len(s) : u[k].h1 = s[k].h1
        BY <1>1, <1>2 DEF m
    <2> QED
        BY <2>1 DEF H1Refs
<1>9. /\ RefSet(hd, t, s, p, r) = (Others \cup Rest) \cup {<<"h0", m, s[m].h0>>}
      /\ RefSet(hd, t, u, p, r) = (Others \cup Rest) \cup {<<"h0", m, fr.h0>>}
    BY <1>6, <1>7, <1>8 DEF RefSet
<1> HIDE DEF Others, Rest
<1>10. Swaps(RefSet(hd, t, s, p, r), RefSet(hd, t, u, p, r),
             <<"h0", m, s[m].h0>>, <<"h0", m, fr.h0>>)
    BY <1>4, <1>5, <1>9 DEF Swaps
<1> QED
    BY <1>10 DEF u, m

LEMMA H1Slot ==
    ASSUME NEW hd, NEW t, NEW s \in Seq(FrameType), s # <<>>, NEW p, NEW r,
           NEW fr \in FrameType, fr.h0 = s[Len(s)].h0
    PROVE  Swaps(RefSet(hd, t, s, p, r), RefSet(hd, t, [s EXCEPT ![Len(s)] = fr], p, r),
                 <<"h1", Len(s), s[Len(s)].h1>>, <<"h1", Len(s), fr.h1>>)
<1> DEFINE u == [s EXCEPT ![Len(s)] = fr]
           m == Len(s)
           Others == HandleRefs(hd) \cup ZeroRefs(t) \cup OneRefs(t)
                        \cup H0Refs(s) \cup PendingRefs(p) \cup {<<"ret", 0, r>>}
           Rest == {<<"h1", k, s[k].h1>> : k \in 1..(m - 1)}
<1>1. /\ m \in Nat /\ m >= 1 /\ Len(u) = m
      /\ u[m] = fr /\ \A k \in 1..(m - 1) : u[k] = s[k]
    BY TopFacts, ReplaceFacts
<1> HIDE DEF u, m
<1>2. 1..m = (1..(m - 1)) \cup {m} /\ m \notin 1..(m - 1)
    BY <1>1
<1>3. \A y \in Others : y[1] # "h1"
    BY RefTags
<1>4. <<"h1", m, s[m].h1>> \notin Others /\ <<"h1", m, fr.h1>> \notin Others
    BY <1>3
<1>5. <<"h1", m, s[m].h1>> \notin Rest /\ <<"h1", m, fr.h1>> \notin Rest
    BY <1>2
<1>6. H1Refs(s) = Rest \cup {<<"h1", m, s[m].h1>>}
    BY <1>2 DEF H1Refs, m
<1>7. H1Refs(u) = Rest \cup {<<"h1", m, fr.h1>>}
    BY <1>1, <1>2 DEF H1Refs
<1>8. H0Refs(u) = H0Refs(s)
    <2>1. Len(u) = Len(s) /\ \A k \in 1..Len(s) : u[k].h0 = s[k].h0
        BY <1>1, <1>2 DEF m
    <2> QED
        BY <2>1 DEF H0Refs
<1>9. /\ RefSet(hd, t, s, p, r) = (Others \cup Rest) \cup {<<"h1", m, s[m].h1>>}
      /\ RefSet(hd, t, u, p, r) = (Others \cup Rest) \cup {<<"h1", m, fr.h1>>}
    BY <1>6, <1>7, <1>8 DEF RefSet
<1> HIDE DEF Others, Rest
<1>10. Swaps(RefSet(hd, t, s, p, r), RefSet(hd, t, u, p, r),
             <<"h1", m, s[m].h1>>, <<"h1", m, fr.h1>>)
    BY <1>4, <1>5, <1>9 DEF Swaps
<1> QED
    BY <1>10 DEF u, m

\* A call that holds nothing is pushed, or popped.
LEMMA PushRefs ==
    ASSUME NEW hd, NEW t, NEW s \in Seq(FrameType), NEW p, NEW r,
           NEW fr \in FrameType, fr.h0 = False, fr.h1 = False, Tally(t, RefSet(hd, t, s, p, r)),
           t \in TableType
    PROVE  Tally(t, RefSet(hd, t, Append(s, fr), p, r))
<1> DEFINE m == Len(s) + 1
           u == Append(s, fr)
           R == RefSet(hd, t, s, p, r)
           a == <<"h0", m, False>>
           b == <<"h1", m, False>>
<1>1. /\ Len(s) \in Nat /\ Len(u) = m /\ u[m] = fr
      /\ \A k \in 1..Len(s) : u[k] = s[k]
    BY PushFacts
<1>2. 1..m = (1..Len(s)) \cup {m} /\ m \notin 1..Len(s)
    BY <1>1
<1> HIDE DEF u, m
<1>3. H0Refs(u) = H0Refs(s) \cup {a} /\ H1Refs(u) = H1Refs(s) \cup {b}
    BY <1>1, <1>2 DEF H0Refs, H1Refs
<1>4. a \notin H0Refs(s) /\ b \notin H1Refs(s)
    BY <1>2 DEF H0Refs, H1Refs
<1>5. a \notin R /\ b \notin R /\ a # b
    BY <1>4, RefTags DEF RefSet
<1>6. RefSet(hd, t, u, p, r) = (R \cup {a}) \cup {b}
    BY <1>3 DEF RefSet
<1>7. a[3] = False /\ b[3] = False /\ False \in Values /\ Inc(t, False) = t
    BY ConstantFacts, ValueFacts DEF Inc, Values
<1> HIDE DEF a, b, R
<1>8. Tally(t, R \cup {a})
    BY <1>5, <1>7, TallyAdd DEF R
<1>9. Tally(t, (R \cup {a}) \cup {b})
    BY <1>5, <1>7, <1>8, TallyAdd, ZenonT(40)
<1> QED
    BY <1>6, <1>9 DEF u

LEMMA PopRefs ==
    ASSUME NEW hd, NEW t, NEW s \in Seq(FrameType), s # <<>>, NEW p, NEW r,
           ~Counted(s[Len(s)].h0), ~Counted(s[Len(s)].h1), Tally(t, RefSet(hd, t, s, p, r)),
           t \in TableType
    PROVE  Tally(t, RefSet(hd, t, Front(s), p, r))
<1> DEFINE m == Len(s)
           u == Front(s)
           R == RefSet(hd, t, s, p, r)
           a == <<"h0", m, s[m].h0>>
           b == <<"h1", m, s[m].h1>>
<1>1. /\ m \in Nat /\ m >= 1 /\ s[m] \in FrameType /\ Len(u) = m - 1
      /\ \A k \in 1..(m - 1) : u[k] = s[k]
    BY TopFacts
<1>2. 1..m = (1..(m - 1)) \cup {m} /\ m \notin 1..(m - 1)
    BY <1>1
<1> HIDE DEF u
<1>3. H0Refs(u) = H0Refs(s) \ {a} /\ H1Refs(u) = H1Refs(s) \ {b}
    BY <1>1, <1>2 DEF H0Refs, H1Refs
<1>4. a \in R /\ b \in R /\ a # b
    BY <1>1 DEF RefSet, H0Refs, H1Refs
<1>5. RefSet(hd, t, u, p, r) = (R \ {a}) \ {b}
    <2> DEFINE Others == HandleRefs(hd) \cup ZeroRefs(t) \cup OneRefs(t)
                            \cup PendingRefs(p) \cup {<<"ret", 0, r>>}
    <2>1. \A y \in Others : y[1] # "h0" /\ y[1] # "h1"
        BY RefTags
    <2>2. a \notin Others /\ b \notin Others
        BY <2>1
    <2>3. a \notin H1Refs(s) /\ b \notin H0Refs(s)
        BY RefTags
    <2>4. R = Others \cup H0Refs(s) \cup H1Refs(s)
        BY DEF RefSet
    <2>5. RefSet(hd, t, u, p, r) = Others \cup (H0Refs(s) \ {a}) \cup (H1Refs(s) \ {b})
        BY <1>3 DEF RefSet
    <2> HIDE DEF Others, R, a, b
    <2> QED
        BY <2>2, <2>3, <2>4, <2>5
<1>6. a[3] \in Values /\ b[3] \in Values /\ Dec(t, a[3]) = t /\ Dec(t, b[3]) = t
    BY <1>1 DEF Dec, Values, FrameType
<1> HIDE DEF a, b, R
<1>7. Tally(t, R \ {a})
    BY <1>4, <1>6, TallyDrop DEF R
<1>8. Tally(t, (R \ {a}) \ {b})
    <2>1. b \in R \ {a}
        BY <1>4
    <2> QED
        BY <2>1, <1>6, <1>7, TallyDrop, ZenonT(40)
<1> QED
    BY <1>5, <1>8 DEF u
-----------------------------------------------------------------------------
(***************************************************************************)
(* A table whose free nodes are blank and whose counts are those of R.     *)
(***************************************************************************)
Sound(t, R) == t \in TableType /\ FreeIn(t) /\ Tally(t, R)
SameNodes(t, u) ==
    \A n \in Index : u[n].var = t[n].var /\ u[n].f0 = t[n].f0 /\ u[n].f1 = t[n].f1
UsedEdge(t, f) == Counted(f) => t[Ndx(f)].var # 0

LEMMA SameTrans ==
    ASSUME NEW t, NEW u, NEW w, SameNodes(t, u), SameNodes(u, w)
    PROVE  SameNodes(t, w)
BY DEF SameNodes

\* What is referred to is in use.
LEMMA RefUsed ==
    ASSUME NEW t, NEW R, Sound(t, R), NEW r \in R, r[3] \in Values, Counted(r[3])
    PROVE  t[Ndx(r[3])].rfc >= 1 /\ UsedEdge(t, r[3])
<1>1. t[Ndx(r[3])].rfc >= 1
    BY TallyDrop DEF Sound
<1>2. Ndx(r[3]) \in Index
    BY ValueFacts
<1> QED
    BY <1>1, <1>2 DEF Sound, FreeIn, FreeNode, UsedEdge

LEMMA IncKeeps ==
    ASSUME NEW t \in TableType, FreeIn(t), NEW f \in Values, UsedEdge(t, f)
    PROVE  Inc(t, f) \in TableType /\ FreeIn(Inc(t, f)) /\ SameNodes(t, Inc(t, f))
<1>1. Inc(t, f) \in TableType /\ SameNodes(t, Inc(t, f))
    BY IncFacts DEF SameNodes
<1>2. ASSUME NEW n \in Index, Inc(t, f)[n].var = 0
      PROVE  Inc(t, f)[n] = FreeNode
    <2>1. t[n].var = 0 /\ t[n] = FreeNode
        BY <1>2, IncFacts DEF FreeIn
    <2>2. CASE Counted(f)
        <3>1. Ndx(f) # n /\ Ndx(f) \in Index
            BY <2>1, <2>2, ValueFacts DEF UsedEdge
        <3> QED
            BY <2>1, <2>2, <3>1 DEF Inc, TableType
    <2> QED
        BY <2>1, <2>2 DEF Inc
<1> QED
    BY <1>1, <1>2 DEF FreeIn

LEMMA DecKeeps ==
    ASSUME NEW t \in TableType, FreeIn(t), NEW f \in Values,
           Counted(f) => t[Ndx(f)].rfc >= 1
    PROVE  Dec(t, f) \in TableType /\ FreeIn(Dec(t, f)) /\ SameNodes(t, Dec(t, f))
<1>1. Dec(t, f) \in TableType /\ SameNodes(t, Dec(t, f))
    BY DecFacts DEF SameNodes
<1>2. ASSUME NEW n \in Index, Dec(t, f)[n].var = 0
      PROVE  Dec(t, f)[n] = FreeNode
    <2>1. t[n].var = 0 /\ t[n] = FreeNode
        BY <1>2, DecFacts DEF FreeIn
    <2>2. CASE Counted(f)
        <3>1. Ndx(f) # n /\ Ndx(f) \in Index
            BY <2>1, <2>2, ValueFacts DEF FreeNode
        <3> QED
            BY <2>1, <2>2, <3>1 DEF Dec, TableType
    <2> QED
        BY <2>1, <2>2 DEF Dec
<1> QED
    BY <1>1, <1>2 DEF FreeIn

\* A place is given another reference to the same node,
LEMMA SoundMove ==
    ASSUME NEW t, NEW R, NEW Q, NEW r, NEW q,
           Sound(t, R), Swaps(R, Q, r, q), r[3] \in Values, q[3] \in Values,
           Counted(r[3]) <=> Counted(q[3]), Counted(r[3]) => Ndx(r[3]) = Ndx(q[3])
    PROVE  Sound(t, Q)
BY SwapMove DEF Sound

\* a reference it takes,
LEMMA SoundTake ==
    ASSUME NEW t, NEW R, NEW Q, NEW r, NEW q,
           Sound(t, R), Swaps(R, Q, r, q), r[3] \in Values, q[3] \in Values,
           ~Counted(r[3]), UsedEdge(t, q[3])
    PROVE  Sound(Inc(t, q[3]), Q) /\ SameNodes(t, Inc(t, q[3]))
BY SwapTake, IncKeeps DEF Sound

\* none for one it gives back,
LEMMA SoundGive ==
    ASSUME NEW t, NEW R, NEW Q, NEW r, NEW q,
           Sound(t, R), Swaps(R, Q, r, q), r[3] \in Values, q[3] \in Values,
           ~Counted(q[3])
    PROVE  Sound(Dec(t, r[3]), Q) /\ SameNodes(t, Dec(t, r[3]))
BY SwapGive, DecKeeps DEF Sound

\* one it takes for one it gives back,
LEMMA SoundChange ==
    ASSUME NEW t, NEW R, NEW Q, NEW r, NEW q,
           Sound(t, R), Swaps(R, Q, r, q), r[3] \in Values, q[3] \in Values,
           r # q, UsedEdge(t, q[3])
    PROVE  /\ Sound(Dec(Inc(t, q[3]), r[3]), Q)
           /\ SameNodes(t, Dec(Inc(t, q[3]), r[3]))
<1> DEFINE u == Inc(t, q[3])
<1>1. q \notin R /\ r \in R \cup {q} /\ Q = (R \cup {q}) \ {r}
    BY DEF Swaps
<1>2. u \in TableType /\ FreeIn(u) /\ SameNodes(t, u)
    BY IncKeeps DEF Sound
<1>3. Tally(u, R \cup {q})
    BY <1>1, TallyAdd DEF Sound
<1> HIDE DEF u
<1>4. (Counted(r[3]) => u[Ndx(r[3])].rfc >= 1) /\ Tally(Dec(u, r[3]), Q)
    BY <1>1, <1>2, <1>3, TallyDrop
<1>5. Dec(u, r[3]) \in TableType /\ FreeIn(Dec(u, r[3])) /\ SameNodes(u, Dec(u, r[3]))
    BY <1>2, <1>4, DecKeeps
<1> QED
    BY <1>2, <1>4, <1>5, SameTrans DEF Sound, u

\* or the reference of another place.
LEMMA SoundTwo ==
    ASSUME NEW t, NEW R, NEW Q1, NEW Q, NEW r1, NEW q1, NEW r2, NEW q2,
           Sound(t, R), Swaps(R, Q1, r1, q1), Swaps(Q1, Q, r2, q2),
           r1[3] \in Values, q1[3] \in Values, r2[3] \in Values, q2[3] \in Values,
           r1[1] # r2[1], r2[1] = q2[1], r1[1] = q1[1],
           ~Counted(q1[3]), ~Counted(r2[3]),
           Counted(r1[3]) <=> Counted(q2[3]), Counted(r1[3]) => Ndx(r1[3]) = Ndx(q2[3])
    PROVE  Sound(t, Q)
<1>1. r1 # r2 /\ q2 # r1 /\ q2 # q1 /\ q1 # r2
    OBVIOUS
<1>2. CASE q2 \notin R
    BY <1>1, <1>2, SwapTwo DEF Sound
<1>3. CASE q2 \in R
    <2>1. q2 = r2
        BY <1>1, <1>3 DEF Swaps
    <2>2. Q = Q1
        BY <2>1 DEF Swaps
    <2> QED
        BY <2>1, <2>2, SwapMove DEF Sound
<1> QED
    BY <1>2, <1>3

\* References depend on the count of no node.
LEMMA SameRefs ==
    ASSUME NEW t, NEW u, SameNodes(t, u), NEW hd, NEW s, NEW p, NEW r
    PROVE  RefSet(hd, u, s, p, r) = RefSet(hd, t, s, p, r)
<1>1. UsedIn(u) = UsedIn(t) /\ \A n \in UsedIn(t) : u[n].f0 = t[n].f0 /\ u[n].f1 = t[n].f1
    BY DEF SameNodes, UsedIn
<1>2. ZeroRefs(u) = ZeroRefs(t) /\ OneRefs(u) = OneRefs(t)
    BY <1>1 DEF ZeroRefs, OneRefs
<1> QED
    BY <1>2 DEF RefSet

\* An edge and its complement are the same reference.
LEMMA IncSame ==
    ASSUME NEW t, NEW f, NEW g, Counted(f) <=> Counted(g), Counted(f) => Ndx(f) = Ndx(g)
    PROVE  Inc(t, f) = Inc(t, g)
BY DEF Inc

\* gc1() puts an edge before those still to be followed, or takes the first.
LEMMA PendingPush ==
    ASSUME NEW p \in Seq(Edges), NEW x \in Edges
    PROVE  /\ <<x>> \o p \in Seq(Edges)
           /\ Len(<<x>> \o p) = Len(p) + 1
           /\ (<<x>> \o p)[1] = x
           /\ \A k \in 1..Len(p) : (<<x>> \o p)[k + 1] = p[k]
           /\ PendingRefs(<<x>> \o p) = PendingRefs(p) \cup {<<"pending", Len(p), x>>}
           /\ <<"pending", Len(p), x>> \notin PendingRefs(p)
<1> DEFINE q == <<x>> \o p
           m == Len(p)
<1>1. m \in Nat /\ q \in Seq(Edges) /\ Len(q) = m + 1 /\ q[1] = x
    OBVIOUS
<1>2. \A k \in 1..m : q[k + 1] = p[k]
    OBVIOUS
<1> HIDE DEF q, m
<1>3. PendingRefs(q) = {<<"pending", m + 1 - k, q[k]>> : k \in 1..(m + 1)}
    BY <1>1 DEF PendingRefs
<1>4. PendingRefs(p) = {<<"pending", m - k, p[k]>> : k \in 1..m}
    BY DEF PendingRefs, m
<1>5. ASSUME NEW y \in PendingRefs(q)
      PROVE  y \in PendingRefs(p) \cup {<<"pending", m, x>>}
    <2>1. PICK k \in 1..(m + 1) : y = <<"pending", m + 1 - k, q[k]>>
        BY <1>3
    <2>2. CASE k = 1
        BY <1>1, <2>1, <2>2
    <2>3. CASE k # 1
        <3>1. k - 1 \in 1..m /\ m + 1 - k = m - (k - 1) /\ q[k] = p[k - 1]
            <4>1. k - 1 \in 1..m /\ m + 1 - k = m - (k - 1) /\ k = (k - 1) + 1
                BY <1>1, <2>3
            <4> QED
                BY <1>2, <4>1
        <3> QED
            BY <1>4, <2>1, <3>1
    <2> QED
        BY <2>2, <2>3
<1>6. ASSUME NEW k \in 1..m
      PROVE  <<"pending", m - k, p[k]>> \in PendingRefs(q)
    <2>1. k + 1 \in 1..(m + 1) /\ m + 1 - (k + 1) = m - k /\ q[k + 1] = p[k]
        BY <1>1, <1>2
    <2> QED
        BY <1>3, <2>1
<1>7. <<"pending", m, x>> \in PendingRefs(q)
    <2>1. 1 \in 1..(m + 1) /\ m + 1 - 1 = m
        BY <1>1
    <2> QED
        BY <1>1, <1>3, <2>1
<1>8. <<"pending", m, x>> \notin PendingRefs(p)
    <2>1. ASSUME NEW k \in 1..m PROVE m - k # m
        BY <1>1
    <2> QED
        BY <1>4, <2>1
<1>9. PendingRefs(q) = PendingRefs(p) \cup {<<"pending", m, x>>}
    BY <1>4, <1>5, <1>6, <1>7
<1> QED
    BY <1>1, <1>2, <1>8, <1>9 DEF q, m

LEMMA PendingTail ==
    ASSUME NEW p \in Seq(Edges), p # <<>>
    PROVE  /\ Head(p) \in Edges /\ Head(p) = p[1] /\ Tail(p) \in Seq(Edges)
           /\ Len(Tail(p)) = Len(p) - 1
           /\ \A k \in 1..Len(Tail(p)) : k + 1 \in 1..Len(p) /\ Tail(p)[k] = p[k + 1]
           /\ <<"pending", Len(Tail(p)), Head(p)>> \in PendingRefs(p)
           /\ PendingRefs(Tail(p)) = PendingRefs(p) \ {<<"pending", Len(Tail(p)), Head(p)>>}
<1>1. /\ Head(p) \in Edges /\ Head(p) = p[1] /\ Tail(p) \in Seq(Edges)
      /\ Len(Tail(p)) = Len(p) - 1 /\ Len(p) >= 1
      /\ \A k \in 1..Len(Tail(p)) : k + 1 \in 1..Len(p) /\ Tail(p)[k] = p[k + 1]
    OBVIOUS
<1>2. <<Head(p)>> \o Tail(p) = p
    OBVIOUS
<1>3. /\ PendingRefs(p) = PendingRefs(Tail(p)) \cup {<<"pending", Len(Tail(p)), Head(p)>>}
      /\ <<"pending", Len(Tail(p)), Head(p)>> \notin PendingRefs(Tail(p))
    BY <1>1, <1>2, PendingPush
<1> QED
    BY <1>1, <1>3

\* The reference of a place becomes an edge to be followed, if it counts.
LEMMA FollowMove ==
    ASSUME NEW t \in TableType, NEW S, NEW p \in Seq(Edges), Tally(t, S \cup PendingRefs(p)),
           \A y \in S : y[1] # "pending", NEW r \in S, r[3] \in Edges
    PROVE  /\ Followed(r[3]) \o p \in Seq(Edges)
           /\ (\A k \in 1..Len(p) : ~Cst(p[k])) =>
                \A k \in 1..Len(Followed(r[3]) \o p) : ~Cst((Followed(r[3]) \o p)[k])
           /\ Tally(t, (S \ {r}) \cup PendingRefs(Followed(r[3]) \o p))
<1> DEFINE x == r[3]
           q == <<"pending", Len(p), x>>
<1>1. r \notin PendingRefs(p) /\ q \notin S /\ r # q
    BY RefTags
<1>2. CASE Counted(x)
    <2>1. Followed(x) = <<x>>
        BY <1>2 DEF Followed
    <2>2. /\ <<x>> \o p \in Seq(Edges)
          /\ Len(<<x>> \o p) = Len(p) + 1
          /\ (<<x>> \o p)[1] = x
          /\ \A k \in 1..Len(p) : (<<x>> \o p)[k + 1] = p[k]
          /\ PendingRefs(<<x>> \o p) = PendingRefs(p) \cup {q}
          /\ q \notin PendingRefs(p)
        BY PendingPush
    <2>3. Tally(t, ((S \cup PendingRefs(p)) \ {r}) \cup {q})
        <3>1. q \notin S \cup PendingRefs(p) /\ r \in S \cup PendingRefs(p)
            BY <1>1, <2>2
        <3>2. q[3] = r[3] /\ r[3] \in Values
            BY DEF Values
        <3> HIDE DEF q
        <3> QED
            BY <3>1, <3>2, TallyMove
    <2>4. ((S \cup PendingRefs(p)) \ {r}) \cup {q} = (S \ {r}) \cup PendingRefs(<<x>> \o p)
        <3> HIDE DEF q, x
        <3> QED
            BY <1>1, <2>2
    <2>5. ASSUME \A k \in 1..Len(p) : ~Cst(p[k]), NEW k \in 1..Len(<<x>> \o p)
          PROVE  ~Cst((<<x>> \o p)[k])
        <3>1. Len(p) \in Nat
            OBVIOUS
        <3>2. CASE k = 1
            BY <1>2, <2>2, <3>2 DEF Counted
        <3>3. CASE k # 1
            <4>1. k - 1 \in 1..Len(p) /\ k = (k - 1) + 1
                BY <2>2, <3>1, <3>3
            <4> QED
                BY <2>2, <2>5, <4>1
        <3> QED
            BY <3>2, <3>3
    <2> HIDE DEF x
    <2> QED
        BY <2>1, <2>2, <2>3, <2>4, <2>5 DEF x
<1>3. CASE ~Counted(x)
    <2>1. Followed(x) \o p = p
        BY <1>3 DEF Followed
    <2>2. Dec(t, x) = t
        BY <1>3 DEF Dec
    <2>3. Tally(t, (S \cup PendingRefs(p)) \ {r})
        BY <2>2, TallyDrop DEF Values
    <2>4. (S \cup PendingRefs(p)) \ {r} = (S \ {r}) \cup PendingRefs(p)
        BY <1>1
    <2> QED
        BY <2>1, <2>3, <2>4
<1> QED
    BY <1>2, <1>3

\* A node nothing refers to is given back.
LEMMA CollectSound ==
    ASSUME NEW hd, NEW t, NEW s, NEW p \in Seq(Edges), NEW r,
           Sound(t, RefSet(hd, t, s, p, r)), \A k \in 1..Len(p) : ~Cst(p[k]),
           NEW n \in UsedIn(t), t[n].rfc = 0,
           NEW u, u = [t EXCEPT ![n] = FreeNode],
           NEW w, w = Followed(t[n].f0) \o Followed(t[n].f1) \o p
    PROVE  /\ w \in Seq(Edges)
           /\ \A k \in 1..Len(w) : ~Cst(w[k])
           /\ Sound(u, RefSet(hd, u, s, w, r))
<1> DEFINE S == HandleRefs(hd) \cup ZeroRefs(t) \cup OneRefs(t) \cup H0Refs(s) \cup H1Refs(s)
                    \cup {<<"ret", 0, r>>}
           a == <<"f0", n, t[n].f0>>
           b == <<"f1", n, t[n].f1>>
           p1 == Followed(t[n].f1) \o p
           p0 == Followed(t[n].f0) \o p1
<1>1. n \in Index /\ t[n].f0 \in Edges /\ t[n].f1 \in Edges /\ t \in TableType
    BY DEF Sound, TableType, NodeType, UsedIn
<1>2. a \in S /\ b \in S /\ a # b /\ a[3] = t[n].f0 /\ b[3] = t[n].f1
    BY DEF ZeroRefs, OneRefs
<1>3. \A y \in S : y[1] # "pending"
    BY RefTags
<1>4. RefSet(hd, t, s, p, r) = S \cup PendingRefs(p)
    BY DEF RefSet
<1>5. RefSet(hd, u, s, p0, r) = ((S \ {b}) \ {a}) \cup PendingRefs(p0)
    <2>1. UsedIn(u) = UsedIn(t) \ {n} /\ \A k \in UsedIn(t) \ {n} : u[k] = t[k]
        BY <1>1 DEF UsedIn, FreeNode, TableType
    <2>2. ZeroRefs(u) = ZeroRefs(t) \ {a} /\ OneRefs(u) = OneRefs(t) \ {b}
        <3>1. /\ ZeroRefs(u) = {<<"f0", k, t[k].f0>> : k \in UsedIn(t) \ {n}}
              /\ OneRefs(u) = {<<"f1", k, t[k].f1>> : k \in UsedIn(t) \ {n}}
            BY <2>1 DEF ZeroRefs, OneRefs
        <3>2. ZeroRefs(t) \ {a} = {<<"f0", k, t[k].f0>> : k \in UsedIn(t) \ {n}}
            BY DEF ZeroRefs
        <3>3. OneRefs(t) \ {b} = {<<"f1", k, t[k].f1>> : k \in UsedIn(t) \ {n}}
            BY DEF OneRefs
        <3> QED
            BY <3>1, <3>2, <3>3
    <2> DEFINE Others == HandleRefs(hd) \cup H0Refs(s) \cup H1Refs(s) \cup {<<"ret", 0, r>>}
    <2>3. a \notin Others /\ b \notin Others /\ b \notin ZeroRefs(t) /\ a \notin OneRefs(t)
        BY RefTags
    <2>4. RefSet(hd, u, s, p0, r) = Others \cup ZeroRefs(u) \cup OneRefs(u) \cup PendingRefs(p0)
        BY DEF RefSet
    <2>5. S = Others \cup ZeroRefs(t) \cup OneRefs(t)
        OBVIOUS
    <2> HIDE DEF Others, S, a, b, p0
    <2> QED
        BY <2>2, <2>3, <2>4, <2>5
<1>6. Followed(t[n].f0) \in Seq(Edges) /\ Followed(t[n].f1) \in Seq(Edges)
    BY <1>1 DEF Followed
<1>7. w = p0
    BY <1>6, ConcatAssociative
<1> HIDE DEF S, a, b, p0, p1
<1>8. /\ p1 \in Seq(Edges) /\ \A k \in 1..Len(p1) : ~Cst(p1[k])
      /\ Tally(t, (S \ {b}) \cup PendingRefs(p1))
    BY <1>1, <1>2, <1>3, <1>4, FollowMove DEF Sound, p1
<1>9. /\ p0 \in Seq(Edges) /\ \A k \in 1..Len(p0) : ~Cst(p0[k])
      /\ Tally(t, ((S \ {b}) \ {a}) \cup PendingRefs(p0))
    <2>1. a \in S \ {b} /\ \A y \in S \ {b} : y[1] # "pending"
        BY <1>2, <1>3
    <2> QED
        BY <1>1, <1>2, <1>8, <2>1, FollowMove DEF p0
<1>10. u \in TableType /\ FreeIn(u) /\ \A k \in Index : u[k].rfc = t[k].rfc
    BY <1>1, ConstantFacts DEF Sound, FreeIn, FreeNode, TableType, NodeType
<1>11. Tally(u, RefSet(hd, u, s, p0, r))
    BY <1>5, <1>9, <1>10 DEF Tally
<1> QED
    BY <1>7, <1>9, <1>10, <1>11 DEF Sound

\* A free node takes over the two edges, up to the sign, that the call on
\* top holds.
NodeTakesOver(hd, t, s, p, r, n, v, x, fr, u) ==
    /\ s \in Seq(FrameType) /\ s # <<>> /\ Sound(t, RefSet(hd, t, s, p, r))
    /\ n \in Index /\ t[n].var = 0 /\ v \in Vars
    /\ x \in Edges /\ (Counted(x) <=> Counted(s[Len(s)].h0))
    /\ Counted(x) => Ndx(x) = Ndx(s[Len(s)].h0)
    /\ fr \in FrameType /\ fr.h0 = False /\ fr.h1 = False
    /\ u = [t EXCEPT ![n] = [var |-> v, rfc |-> 0, f0 |-> x, f1 |-> s[Len(s)].h1]]

LEMMA NewNodeSound ==
    ASSUME NEW hd, NEW t, NEW s, NEW p, NEW r, NEW n, NEW v, NEW x, NEW fr, NEW u,
           NodeTakesOver(hd, t, s, p, r, n, v, x, fr, u)
    PROVE  /\ Sound(u, RefSet(hd, u, [s EXCEPT ![Len(s)] = fr], p, r))
           /\ \A k \in Index \ {n} : u[k] = t[k]
<1>0. /\ s \in Seq(FrameType) /\ s # <<>> /\ Sound(t, RefSet(hd, t, s, p, r))
      /\ n \in Index /\ t[n].var = 0 /\ v \in Vars
      /\ x \in Edges /\ (Counted(x) <=> Counted(s[Len(s)].h0))
      /\ Counted(x) => Ndx(x) = Ndx(s[Len(s)].h0)
      /\ fr \in FrameType /\ fr.h0 = False /\ fr.h1 = False
      /\ u = [t EXCEPT ![n] = [var |-> v, rfc |-> 0, f0 |-> x, f1 |-> s[Len(s)].h1]]
    BY DEF NodeTakesOver
<1> USE <1>0
<1> DEFINE m == Len(s)
           y == s[m].h1
           fr1 == [s[m] EXCEPT !.h0 = False]
           s1 == [s EXCEPT ![m] = fr1]
           s2 == [s EXCEPT ![m] = fr]
           R == RefSet(hd, t, s, p, r)
           Q1 == RefSet(hd, t, s1, p, r)
           Q2 == RefSet(hd, t, s2, p, r)
           a == <<"f0", n, x>>
           b == <<"f1", n, y>>
           c == <<"h0", m, s[m].h0>>
           d == <<"h1", m, y>>
           c0 == <<"h0", m, False>>
           d0 == <<"h1", m, False>>
<1>1. t \in TableType /\ m \in Nat /\ m >= 1 /\ s[m] \in FrameType
    BY TopFacts DEF Sound
<1>2. s[m].h0 \in Edges /\ y \in Edges /\ False \in Edges /\ fr1 \in FrameType
    BY <1>1, ConstantFacts DEF FrameType
<1>3. fr1.h0 = False /\ fr1.h1 = y
    BY <1>1 DEF FrameType
<1>4. Swaps(R, Q1, c, c0)
    BY <1>2, <1>3, H0Slot
<1>5. s1 \in Seq(FrameType) /\ s1 # <<>> /\ Len(s1) = m /\ s1[m] = fr1
    BY <1>2, ReplaceFacts
<1>6. [s1 EXCEPT ![m] = fr] = s2
    OBVIOUS
<1>7. Swaps(Q1, Q2, d, d0)
    <2> HIDE DEF s1, fr1
    <2>1. Swaps(RefSet(hd, t, s1, p, r), RefSet(hd, t, [s1 EXCEPT ![Len(s1)] = fr], p, r),
                <<"h1", Len(s1), s1[Len(s1)].h1>>, <<"h1", Len(s1), fr.h1>>)
        BY <1>3, <1>5, H1Slot
    <2> QED
        BY <1>3, <1>5, <1>6, <2>1
<1>8. n \notin UsedIn(t)
    BY DEF UsedIn
<1>9. a \notin R /\ b \notin R /\ a \notin Q2 /\ b \notin Q2 /\ a # b
    <2>1. a \notin ZeroRefs(t) /\ b \notin OneRefs(t)
        BY <1>8 DEF ZeroRefs, OneRefs
    <2> QED
        BY <2>1, RefTags DEF RefSet
<1>10. c # d /\ c # a /\ c # b /\ d # a /\ d # b /\ c0 # d0 /\ c0 # a /\ c0 # b /\ d0 # a /\ d0 # b
       /\ c0 # d /\ d0 # c
    OBVIOUS
<1>11. u \in TableType /\ FreeIn(u) /\ \A k \in Index : u[k].rfc = t[k].rfc
    <2>1. v \in 0..NumVars /\ v # 0 /\ t[n].rfc = 0
        BY ConstantFacts DEF Vars, Sound, FreeIn, FreeNode
    <2> QED
        BY <1>1, <1>2, <2>1 DEF Sound, FreeIn, FreeNode, TableType, NodeType
<1>12. RefSet(hd, u, s2, p, r) = (Q2 \cup {a}) \cup {b}
    <2>1. v # 0
        BY ConstantFacts DEF Vars
    <2>2. UsedIn(u) = UsedIn(t) \cup {n} /\ \A k \in UsedIn(t) : u[k] = t[k]
        BY <1>1, <1>8, <2>1 DEF UsedIn, TableType
    <2>3. u[n].f0 = x /\ u[n].f1 = y
        BY <1>1 DEF TableType
    <2>4. ZeroRefs(u) = ZeroRefs(t) \cup {a} /\ OneRefs(u) = OneRefs(t) \cup {b}
        <3> HIDE <1>0
        <3>1. ZeroRefs(u) = ZeroRefs(t) \cup {a}
            BY <2>2, <2>3 DEF ZeroRefs
        <3>2. OneRefs(u) = OneRefs(t) \cup {b}
            BY <2>2, <2>3 DEF OneRefs
        <3> QED
            BY <3>1, <3>2
    <2> HIDE DEF a, b, s2
    <2> QED
        BY <2>4 DEF RefSet
<1> HIDE DEF s1, s2, fr1, R, Q1, Q2, a, b, c, d, c0, d0
<1>13. /\ a[3] \in Values /\ b[3] \in Values /\ c[3] \in Values /\ d[3] \in Values
       /\ c0[3] \in Values /\ d0[3] \in Values /\ ~Counted(c0[3]) /\ ~Counted(d0[3])
       /\ (Counted(c[3]) <=> Counted(a[3])) /\ (Counted(c[3]) => Ndx(c[3]) = Ndx(a[3]))
       /\ d[3] = b[3] /\ Inc(t, c0[3]) = t /\ Inc(t, d0[3]) = t
    BY <1>2, ValueFacts DEF a, b, c, d, c0, d0, Values, Inc
<1>14. c \in R /\ d \in R \ {c}
    BY <1>4, <1>7, <1>10 DEF Swaps
<1>15. Tally(t, (R \ {c}) \cup {a})
    BY <1>1, <1>9, <1>13, <1>14, TallyMove DEF Sound, R
<1>16. Tally(t, (((R \ {c}) \cup {a}) \ {d}) \cup {b})
    BY <1>1, <1>9, <1>10, <1>13, <1>14, <1>15, TallyMove
<1>17. Q2 = (((R \ {c}) \cup {c0}) \ {d}) \cup {d0} /\ c0 \notin R \ {c} /\ d0 \notin Q1 \ {d}
       /\ Q1 = (R \ {c}) \cup {c0}
    BY <1>4, <1>7 DEF Swaps
<1> DEFINE T == (((R \ {c}) \cup {a}) \ {d}) \cup {b}
<1>18. /\ c0 \notin T /\ d0 \notin T \cup {c0}
       /\ (T \cup {c0}) \cup {d0} = (Q2 \cup {a}) \cup {b}
    BY <1>9, <1>10, <1>17
<1> HIDE DEF T
<1>19. Tally(t, T \cup {c0})
    <2>1. Tally(t, T)
        BY <1>16 DEF T
    <2>2. Tally(Inc(t, c0[3]), T \cup {c0})
        BY <1>1, <1>13, <1>18, <2>1, TallyAdd
    <2> QED
        BY <1>13, <2>2, Zenon
<1>20. Tally(t, (T \cup {c0}) \cup {d0})
    <2>1. Tally(Inc(t, d0[3]), (T \cup {c0}) \cup {d0})
        BY <1>1, <1>13, <1>18, <1>19, TallyAdd
    <2> QED
        BY <1>13, <2>1, Zenon
<1>21. Tally(u, RefSet(hd, u, s2, p, r))
    BY <1>11, <1>12, <1>18, <1>20 DEF Tally
<1>22. \A k \in Index \ {n} : u[k] = t[k]
    BY <1>1 DEF TableType
<1> QED
    BY <1>11, <1>21, <1>22 DEF Sound, s2
-----------------------------------------------------------------------------
(***************************************************************************)
(* What the objects reach.                                                 *)
(***************************************************************************)
LEMMA LiveClosed ==
    ASSUME handle \in [Handles -> Edges \cup {Null}], node \in TableType
    PROVE  /\ \A h \in Handles : LiveEdge(handle[h])
           /\ \A n \in Live : LiveEdge(node[n].f0) /\ LiveEdge(node[n].f1)
<1>1. ASSUME NEW h \in Handles
      PROVE  LiveEdge(handle[h])
    <2>1. CASE Counted(handle[h])
        <3>1. Ndx(handle[h]) \in Index
            BY <2>1, ValueFacts DEF Values
        <3> QED
            BY <2>1, <3>1 DEF LiveEdge, Live, ClosedFrom
    <2>2. CASE ~Counted(handle[h])
        BY <2>2, ConstantFacts DEF LiveEdge, Counted, Cst
    <2> QED
        BY <2>1, <2>2
<1>2. ASSUME NEW n \in Live
      PROVE  LiveEdge(node[n].f0) /\ LiveEdge(node[n].f1)
    <2>1. n \in Index /\ node[n].f0 \in Edges /\ node[n].f1 \in Edges
        BY DEF Live, TableType, NodeType
    <2>2. /\ ~Cst(node[n].f0) => Ndx(node[n].f0) \in Index
          /\ ~Cst(node[n].f1) => Ndx(node[n].f1) \in Index
        BY <2>1, EdgeFacts
    <2>3. \A C \in SUBSET Index : ClosedFrom(C) =>
            /\ ~Cst(node[n].f0) => Ndx(node[n].f0) \in C
            /\ ~Cst(node[n].f1) => Ndx(node[n].f1) \in C
        BY DEF Live, ClosedFrom
    <2> QED
        BY <2>2, <2>3 DEF LiveEdge, Live
<1> QED
    BY <1>1, <1>2

\* The objects and the nodes refer to whatever is live.
LEMMA LiveCounted ==
    ASSUME handle \in [Handles -> Edges \cup {Null}],
           NEW t, SameNodes(node, t), NEW R, Sound(t, R),
           HandleRefs(handle) \subseteq R, ZeroRefs(t) \subseteq R, OneRefs(t) \subseteq R
    PROVE  \A n \in Live : t[n].rfc >= 1 /\ t[n].var # 0
<1> DEFINE C == {n \in Index : t[n].rfc >= 1}
<1>1. \A n \in C : t[n].var # 0
    BY DEF Sound, FreeIn, FreeNode
<1>2. ASSUME NEW h \in Handles, Counted(handle[h])
      PROVE  Ndx(handle[h]) \in C
    <2>1. <<"handle", h, handle[h]>> \in R /\ handle[h] \in Values
        BY DEF HandleRefs, Values
    <2> QED
        BY <1>2, <2>1, RefUsed, ValueFacts
<1>3. ASSUME NEW n \in C
      PROVE  /\ ~Cst(t[n].f0) => Ndx(t[n].f0) \in C
             /\ ~Cst(t[n].f1) => Ndx(t[n].f1) \in C
    <2>1. <<"f0", n, t[n].f0>> \in R /\ <<"f1", n, t[n].f1>> \in R
        BY <1>1 DEF ZeroRefs, OneRefs, UsedIn
    <2>2. t[n].f0 \in Edges /\ t[n].f1 \in Edges
        BY DEF Sound, TableType, NodeType
    <2>3. ~Cst(t[n].f0) => t[Ndx(t[n].f0)].rfc >= 1
        BY <2>1, <2>2, RefUsed, EdgeFacts DEF Values
    <2>4. ~Cst(t[n].f1) => t[Ndx(t[n].f1)].rfc >= 1
        BY <2>1, <2>2, RefUsed, EdgeFacts DEF Values
    <2> QED
        BY <2>2, <2>3, <2>4, EdgeFacts
<1>4. ClosedFrom(C)
    BY <1>2, <1>3 DEF ClosedFrom, SameNodes
<1>5. \A n \in Live : n \in C
    BY <1>4 DEF Live
<1> QED
    BY <1>1, <1>5

\* What was live is, as long as the objects and the live nodes stay.
LEMMA LiveKept ==
    ASSUME handle' = handle,
           \A n \in Live : node'[n].f0 = node[n].f0 /\ node'[n].f1 = node[n].f1,
           node \in TableType, handle \in [Handles -> Edges \cup {Null}]
    PROVE  Live \subseteq Live'
<1> SUFFICES ASSUME NEW n \in Live, NEW C \in SUBSET Index, ClosedFrom(C)'
             PROVE  n \in C
    BY DEF Live, Index
<1>1. ClosedFrom(C \cap Live)
    <2>1. ASSUME NEW h \in Handles, Counted(handle[h])
          PROVE  Ndx(handle[h]) \in C \cap Live
        <3>1. Ndx(handle[h]) \in C
            BY <2>1 DEF ClosedFrom
        <3>2. ~Cst(handle[h])
            BY <2>1 DEF Counted
        <3> QED
            BY <3>1, <3>2, LiveClosed DEF LiveEdge
    <2>2. ASSUME NEW k \in C \cap Live
          PROVE  /\ ~Cst(node[k].f0) => Ndx(node[k].f0) \in C \cap Live
                 /\ ~Cst(node[k].f1) => Ndx(node[k].f1) \in C \cap Live
        <3>1. /\ ~Cst(node[k].f0) => Ndx(node[k].f0) \in C
              /\ ~Cst(node[k].f1) => Ndx(node[k].f1) \in C
            BY DEF ClosedFrom
        <3> QED
            BY <3>1, LiveClosed DEF LiveEdge
    <2> QED
        BY <2>1, <2>2 DEF ClosedFrom
<1>2. C \cap Live \in SUBSET Index
    OBVIOUS
<1> QED
    BY <1>1, <1>2 DEF Live
-----------------------------------------------------------------------------
\* What an edge stands for, if B is what the edges below it stand for.
Toggled(f, F) == IF Neg(f) THEN ToggleEmpty(F) ELSE F
Joined(t, n, B) == B[Abs(t[n].f0)] \cup {s \cup {t[n].var} : s \in B[t[n].f1]}
Over(t, B, l) ==
    [f \in Edges |-> Toggled(f, IF Cst(f) \/ l = 0 THEN {} ELSE Joined(t, Ndx(f), B))]
-----------------------------------------------------------------------------
LEMMA LayersUnfold ==
    ASSUME NEW t
    PROVE  \A l \in 0..NumVars : Layers(t)[l] = Over(t, Layers(t)[l - 1], l)
<1> DEFINE Defined == {m \in 0..NumVars : \E B : B = [l \in 0..m |-> Over(t, B[l - 1], l)]}
<1>1. NumVars \in Nat /\ 0 \in 0..NumVars
    BY ConstantFacts
<1>2. \A B, C : Over(t, B, 0) = Over(t, C, 0)
    BY DEF Over
<1>3. 0 \in Defined
    <2> DEFINE B == [l \in 0..0 |-> Over(t, {}, 0)]
    <2>1. \A l \in 0..0 : B[l] = Over(t, B[l - 1], l)
        <3>1. \A l \in 0..0 : l = 0
            OBVIOUS
        <3> QED
            BY <1>2, <3>1
    <2>2. B = [l \in 0..0 |-> B[l]]
        OBVIOUS
    <2> HIDE DEF B
    <2>3. B = [l \in 0..0 |-> Over(t, B[l - 1], l)]
        BY <2>1, <2>2
    <2> QED
        BY <1>1, <2>3
<1>4. ASSUME NEW m \in 0..(NumVars - 1), m \in Defined
      PROVE  m + 1 \in Defined
    <2>1. PICK B : B = [l \in 0..m |-> Over(t, B[l - 1], l)]
        BY <1>4
    <2> DEFINE C == [l \in 0..(m + 1) |-> IF l \in 0..m THEN B[l] ELSE Over(t, B[m], l)]
    <2>2. \A l \in 0..m : C[l] = B[l] /\ B[l] = Over(t, B[l - 1], l) /\ l \in 0..(m + 1)
        BY <2>1
    <2>3. ASSUME NEW l \in 0..(m + 1) PROVE C[l] = Over(t, C[l - 1], l)
        <3>1. CASE l = 0
            BY <1>2, <2>2, <3>1
        <3>2. CASE l # 0 /\ l # m + 1
            <4>1. l \in 0..m /\ l - 1 \in 0..m
                BY <3>2
            <4> QED
                BY <2>2, <4>1
        <3>3. CASE l = m + 1
            <4>1. l - 1 = m /\ m \in 0..m /\ l \notin 0..m
                BY <3>3
            <4>2. C[l] = Over(t, B[m], l) /\ C[m] = B[m]
                BY <2>2, <4>1
            <4> HIDE DEF C
            <4> QED
                BY <4>1, <4>2
        <3> QED
            BY <3>1, <3>2, <3>3
    <2>4. C = [l \in 0..(m + 1) |-> C[l]]
        OBVIOUS
    <2> HIDE DEF C
    <2>5. C = [l \in 0..(m + 1) |-> Over(t, C[l - 1], l)]
        BY <2>3, <2>4
    <2>6. m + 1 \in 0..NumVars
        BY <1>1
    <2> QED
        BY <2>5, <2>6
<1>5. NumVars \in Defined
    <2>1. Defined \in SUBSET Nat /\ NumVars \in 0..NumVars
        BY <1>1
    <2> HIDE DEF Defined
    <2> QED
        BY <1>1, <1>3, <1>4, <2>1, InductionTo
<1>6. \E B : B = [l \in 0..NumVars |-> Over(t, B[l - 1], l)]
    BY <1>5
<1>7. Layers(t) = [l \in 0..NumVars |-> Over(t, Layers(t)[l - 1], l)]
    BY <1>6, Zenon DEF Layers, Over, Toggled, Joined
<1> QED
    BY <1>7
-----------------------------------------------------------------------------
(***************************************************************************)
(* A table in order: below a node stand nodes of the table of lower        *)
(* levels, its 0-edge is negative, its 1-edge is not the empty family, and *)
(* no node is there twice.                                                 *)
(***************************************************************************)
InTab(t, f) == Cst(f) \/ t[Ndx(f)].var # 0
Height(t, f) == IF Cst(f) THEN 0 ELSE t[Ndx(f)].var
Alike(t, m, n) == t[m].var = t[n].var /\ t[m].f0 = t[n].f0 /\ t[m].f1 = t[n].f1

NodeOrdered(t, n) ==
    /\ Neg(t[n].f0) /\ t[n].f1 # False
    /\ InTab(t, t[n].f0) /\ Height(t, t[n].f0) < t[n].var
    /\ InTab(t, t[n].f1) /\ Height(t, t[n].f1) < t[n].var
Structured(t) ==
    /\ t \in TableType
    /\ \A n \in UsedIn(t) : NodeOrdered(t, n)
    /\ \A m, n \in UsedIn(t) : Alike(t, m, n) => m = n

\* The nodes below an edge.
LEMMA BelowFacts ==
    ASSUME NEW t, Structured(t), NEW f \in Edges, ~Cst(f), InTab(t, f)
    PROVE  /\ Ndx(f) \in UsedIn(t) /\ Height(t, f) \in 1..NumVars /\ t[Ndx(f)].var = Height(t, f)
           /\ t[Ndx(f)].f0 \in Edges /\ t[Ndx(f)].f1 \in Edges
           /\ Neg(t[Ndx(f)].f0) /\ t[Ndx(f)].f1 # False
           /\ InTab(t, t[Ndx(f)].f0) /\ Height(t, t[Ndx(f)].f0) \in 0..(Height(t, f) - 1)
           /\ InTab(t, t[Ndx(f)].f1) /\ Height(t, t[Ndx(f)].f1) \in 0..(Height(t, f) - 1)
<1> DEFINE n == Ndx(f)
<1>1. n \in Index /\ t \in TableType /\ n \in UsedIn(t)
    BY EdgeFacts DEF Structured, InTab, UsedIn
<1>2. t[n].var \in 1..NumVars /\ t[n].f0 \in Edges /\ t[n].f1 \in Edges
    BY <1>1, ConstantFacts DEF TableType, NodeType, UsedIn
<1>3. \A g \in Edges : Height(t, g) \in 0..NumVars
    BY <1>1, EdgeFacts, ConstantFacts DEF Height, TableType, NodeType
<1>4. NodeOrdered(t, n)
    BY <1>1 DEF Structured
<1>5. Height(t, f) = t[n].var
    BY DEF Height
<1> HIDE DEF n
<1>6. /\ Height(t, t[n].f0) \in 0..(Height(t, f) - 1)
      /\ Height(t, t[n].f1) \in 0..(Height(t, f) - 1)
    <2>1. \A a \in 0..NumVars, v \in 1..NumVars : a < v => a \in 0..(v - 1)
        BY ConstantFacts
    <2>2. /\ Height(t, t[n].f0) \in 0..NumVars /\ Height(t, t[n].f0) < t[n].var
          /\ Height(t, t[n].f1) \in 0..NumVars /\ Height(t, t[n].f1) < t[n].var
        BY <1>2, <1>3, <1>4 DEF NodeOrdered
    <2> QED
        BY <1>2, <1>5, <2>1, <2>2
<1> QED
    BY <1>1, <1>2, <1>4, <1>5, <1>6 DEF NodeOrdered, n

LEMMA SignFacts ==
    ASSUME NEW t, NEW f \in Edges
    PROVE  /\ InTab(t, Not(f)) <=> InTab(t, f)
           /\ InTab(t, Abs(f)) <=> InTab(t, f)
           /\ Height(t, Not(f)) = Height(t, f)
           /\ Height(t, Abs(f)) = Height(t, f)
           /\ Cst(f) => InTab(t, f) /\ Height(t, f) = 0
           /\ Neg(f) => Abs(f) = Not(f)
           /\ ~Neg(f) => Abs(f) = f
BY EdgeFacts DEF InTab, Height, Not, Abs

LEMMA HeightFacts ==
    ASSUME NEW t, Structured(t), NEW f \in Edges
    PROVE  Height(t, f) \in 0..NumVars /\ (InTab(t, f) => (Height(t, f) = 0 <=> Cst(f)))
BY BelowFacts, SignFacts, EdgeFacts, ConstantFacts DEF Height, Structured, TableType, NodeType

\* From the level of an edge on, its meaning is the same.
LEMMA LayersSettle ==
    ASSUME NEW t, Structured(t)
    PROVE  \A l \in 0..NumVars : \A f \in Edges :
                InTab(t, f) /\ Height(t, f) <= l => Layers(t)[l][f] = Meaning(t)[f]
<1> DEFINE L == Layers(t)
           Same(l) == \A f \in Edges : InTab(t, f) /\ Height(t, f) <= l =>
                            \A m \in l..NumVars : L[m][f] = L[l][f]
           Settled == {l \in 0..NumVars : Same(l)}
<1>1. NumVars \in Nat /\ NumVars >= 1 /\ 0 \in 0..NumVars /\ NumVars \in 0..NumVars
    BY ConstantFacts
<1>2. /\ \A l \in 0..NumVars : L[l] = Over(t, L[l - 1], l)
      /\ Meaning(t) = L[NumVars]
    BY LayersUnfold DEF Meaning
<1> HIDE DEF L
<1>3. ASSUME NEW f \in Edges, Cst(f), NEW l \in 0..NumVars
      PROVE  L[l][f] = Toggled(f, {})
    BY <1>2, <1>3 DEF Over
<1>4. 0 \in Settled
    <2>1. Same(0)
        BY <1>1, <1>3, HeightFacts
    <2> QED
        BY <1>1, <2>1
<1>5. ASSUME NEW l \in 0..(NumVars - 1), l \in Settled
      PROVE  l + 1 \in Settled
    <2>1. l + 1 \in 0..NumVars /\ l \in Nat
        BY <1>1
    <2>2. Same(l)
        BY <1>5
    <2>3. ASSUME NEW f \in Edges, InTab(t, f), Height(t, f) <= l + 1, NEW m \in (l + 1)..NumVars
          PROVE  L[m][f] = L[l + 1][f]
        <3>1. CASE Cst(f)
            BY <1>1, <1>3, <2>1, <3>1
        <3>2. CASE ~Cst(f)
            <4> DEFINE g == Abs(t[Ndx(f)].f0)
                       h == t[Ndx(f)].f1
            <4>1. /\ g \in Edges /\ InTab(t, g) /\ Height(t, g) <= l
                  /\ h \in Edges /\ InTab(t, h) /\ Height(t, h) <= l
                BY <2>1, <2>3, <3>2, BelowFacts, SignFacts, EdgeFacts
            <4>2. m - 1 \in l..NumVars /\ m \in 0..NumVars /\ m # 0 /\ l + 1 # 0 /\ (l + 1) - 1 = l
                BY <1>1, <2>1
            <4> HIDE DEF g, h
            <4>3. L[m - 1][g] = L[l][g] /\ L[m - 1][h] = L[l][h]
                BY <2>2, <4>1, <4>2
            <4>4. Joined(t, Ndx(f), L[m - 1]) = Joined(t, Ndx(f), L[l])
                BY <4>3 DEF Joined, g, h
            <4>5. /\ L[m][f] = Toggled(f, Joined(t, Ndx(f), L[m - 1]))
                  /\ L[l + 1][f] = Toggled(f, Joined(t, Ndx(f), L[l]))
                <5>1. L[m] = Over(t, L[m - 1], m) /\ L[l + 1] = Over(t, L[l], l + 1)
                    BY <1>2, <2>1, <4>2
                <5>2. \A B, k : k # 0 => Over(t, B, k)[f] = Toggled(f, Joined(t, Ndx(f), B))
                    BY <3>2 DEF Over
                <5> QED
                    BY <4>2, <5>1, <5>2
            <4> QED
                BY <4>4, <4>5
        <3> QED
            BY <3>1, <3>2
    <2> QED
        BY <2>1, <2>3
<1>6. 0..NumVars \subseteq Settled
    <2>1. Settled \in SUBSET Nat
        OBVIOUS
    <2> HIDE DEF Settled
    <2> QED
        BY <1>1, <1>4, <1>5, <2>1, InductionTo
<1>7. \A l \in 0..NumVars : Same(l) /\ NumVars \in l..NumVars
    BY <1>1, <1>6
<1> QED
    BY <1>2, <1>7 DEF L

LEMMA MeaningUnfold ==
    ASSUME NEW t, Structured(t), NEW f \in Edges
    PROVE  /\ Cst(f) => Meaning(t)[f] = Toggled(f, {})
           /\ ~Cst(f) /\ InTab(t, f) =>
                Meaning(t)[f] = Toggled(f, Joined(t, Ndx(f), Meaning(t)))
<1> DEFINE L == Layers(t)
<1>1. NumVars \in Nat /\ NumVars >= 1 /\ NumVars \in 0..NumVars /\ NumVars - 1 \in 0..NumVars
      /\ NumVars # 0
    BY ConstantFacts
<1>2. Meaning(t) = Over(t, L[NumVars - 1], NumVars)
    BY <1>1, LayersUnfold DEF Meaning
<1>3. \A g \in Edges : InTab(t, g) /\ Height(t, g) <= NumVars - 1 =>
            L[NumVars - 1][g] = Meaning(t)[g]
    BY <1>1, LayersSettle
<1> HIDE DEF L
<1>4. CASE Cst(f)
    BY <1>2, <1>4 DEF Over
<1>5. CASE ~Cst(f) /\ InTab(t, f)
    <2> DEFINE g == Abs(t[Ndx(f)].f0)
               h == t[Ndx(f)].f1
    <2>1. /\ g \in Edges /\ InTab(t, g) /\ Height(t, g) <= NumVars - 1
          /\ h \in Edges /\ InTab(t, h) /\ Height(t, h) <= NumVars - 1
        BY <1>1, <1>5, BelowFacts, SignFacts, EdgeFacts
    <2>2. Meaning(t)[f] = Toggled(f, Joined(t, Ndx(f), L[NumVars - 1]))
        BY <1>1, <1>2, <1>5 DEF Over
    <2> HIDE DEF g, h
    <2>3. L[NumVars - 1][g] = Meaning(t)[g] /\ L[NumVars - 1][h] = Meaning(t)[h]
        BY <1>3, <2>1
    <2>4. Joined(t, Ndx(f), L[NumVars - 1]) = Joined(t, Ndx(f), Meaning(t))
        BY <2>3 DEF Joined, g, h
    <2> QED
        BY <1>5, <2>2, <2>4
<1> QED
    BY <1>4, <1>5
-----------------------------------------------------------------------------
(***************************************************************************)
(* The families edges stand for.                                           *)
(***************************************************************************)
Without(v, F) == {s \in F : v \notin s}
With(v, F) == {s \ {v} : s \in {x \in F : v \in x}}

LEMMA ToggleFacts ==
    ASSUME NEW F
    PROVE  /\ ToggleEmpty(ToggleEmpty(F)) = F
           /\ {} \in ToggleEmpty(F) <=> {} \notin F
           /\ \A s : s # {} => (s \in ToggleEmpty(F) <=> s \in F)
           /\ \A v : Without(v, ToggleEmpty(F)) = ToggleEmpty(Without(v, F))
           /\ \A v : With(v, ToggleEmpty(F)) = With(v, F)
<1>1. {} \in ToggleEmpty(F) <=> {} \notin F
    BY DEF ToggleEmpty
<1>2. \A s : s # {} => (s \in ToggleEmpty(F) <=> s \in F)
    BY DEF ToggleEmpty
<1>3. ToggleEmpty(ToggleEmpty(F)) = F
    BY DEF ToggleEmpty
<1>4. ASSUME NEW v PROVE Without(v, ToggleEmpty(F)) = ToggleEmpty(Without(v, F))
    BY DEF ToggleEmpty, Without
<1>5. ASSUME NEW v PROVE With(v, ToggleEmpty(F)) = With(v, F)
    <2>1. {x \in ToggleEmpty(F) : v \in x} = {x \in F : v \in x}
        BY <1>2
    <2> QED
        BY <2>1 DEF With
<1> QED
    BY <1>1, <1>2, <1>3, <1>4, <1>5

\* A negative edge stands for the family with the empty set put in or taken
\* out; it is there just when the edge is negative.
LEMMA MeaningFacts ==
    ASSUME NEW t, Structured(t)
    PROVE  \A f \in Edges : InTab(t, f) =>
                /\ \A s \in Meaning(t)[f] : s \in SUBSET (1..Height(t, f))
                /\ {} \in Meaning(t)[f] <=> Neg(f)
<1> DEFINE M == Meaning(t)
           Fine(f) == /\ \A s \in M[f] : s \in SUBSET (1..Height(t, f))
                      /\ {} \in M[f] <=> Neg(f)
           S == {l \in 0..NumVars : \A f \in Edges : InTab(t, f) /\ Height(t, f) <= l => Fine(f)}
<1>1. NumVars \in Nat /\ 0 \in 0..NumVars
    BY ConstantFacts
<1> HIDE DEF M
<1>2. ASSUME NEW f \in Edges, Cst(f) PROVE Fine(f)
    <2>1. M[f] = IF Neg(f) THEN {{}} ELSE {}
        BY <1>2, MeaningUnfold DEF M, Toggled, ToggleEmpty
    <2> QED
        BY <2>1
<1>3. 0 \in S
    BY <1>1, <1>2, HeightFacts
<1>4. ASSUME NEW l \in 0..(NumVars - 1), l \in S
      PROVE  l + 1 \in S
    <2>1. l + 1 \in 0..NumVars /\ l \in Nat
        BY <1>1
    <2>2. \A f \in Edges : InTab(t, f) /\ Height(t, f) <= l => Fine(f)
        BY <1>4
    <2>3. ASSUME NEW f \in Edges, InTab(t, f), Height(t, f) <= l + 1, ~Cst(f)
          PROVE  Fine(f)
        <3> DEFINE n == Ndx(f)
                   g == Abs(t[n].f0)
                   h == t[n].f1
                   v == Height(t, f)
                   J == Joined(t, n, M)
        <3>1. /\ g \in Edges /\ InTab(t, g) /\ Height(t, g) <= l /\ ~Neg(g)
              /\ h \in Edges /\ InTab(t, h) /\ Height(t, h) <= l
              /\ v \in 1..NumVars /\ Height(t, g) \in 0..(v - 1) /\ Height(t, h) \in 0..(v - 1)
              /\ t[n].var = v
            BY <2>1, <2>3, BelowFacts, SignFacts, EdgeFacts
        <3>2. M[f] = Toggled(f, J)
            BY <2>3, MeaningUnfold DEF M
        <3>3. J = M[g] \cup {s \cup {v} : s \in M[h]}
            BY <3>1 DEF Joined
        <3> HIDE DEF J, g, h, v, n
        <3>4. Fine(g) /\ Fine(h)
            BY <2>2, <3>1
        <3>5. 1..Height(t, g) \subseteq 1..v /\ 1..Height(t, h) \subseteq 1..v
            BY <3>1
        <3>6. \A s \in J : s \in SUBSET (1..v)
            BY <3>1, <3>3, <3>4, <3>5
        <3>7. {} \notin J
            BY <3>1, <3>3, <3>4
        <3>8. {} \in M[f] <=> Neg(f)
            BY <3>2, <3>7, ToggleFacts DEF Toggled
        <3>9. \A s \in M[f] : s = {} \/ s \in J
            BY <3>2, ToggleFacts DEF Toggled
        <3>10. \A s \in M[f] : s \in SUBSET (1..v)
            BY <3>6, <3>9
        <3> QED
            BY <3>8, <3>10 DEF v
    <2>4. \A f \in Edges : InTab(t, f) /\ Height(t, f) <= l + 1 => Fine(f)
        BY <1>2, <2>3
    <2> QED
        BY <2>1, <2>4
<1>5. 0..NumVars \subseteq S
    <2>1. S \in SUBSET Nat
        OBVIOUS
    <2> HIDE DEF S
    <2> QED
        BY <1>1, <1>3, <1>4, <2>1, InductionTo
<1>6. NumVars \in S
    BY <1>1, <1>5
<1>7. \A f \in Edges : Height(t, f) <= NumVars
    BY <1>1, HeightFacts
<1> QED
    BY <1>6, <1>7 DEF M

\* The halves of an edge.
HalfZero(t, f) ==
    LET f0 == t[Ndx(f)].f0 IN IF Neg(f) # Neg(f0) THEN Not(f0) ELSE f0
HalfOne(t, f) == t[Ndx(f)].f1

LEMMA NegatedMeaning ==
    ASSUME NEW t, Structured(t), NEW f \in Edges, InTab(t, f)
    PROVE  Meaning(t)[Not(f)] = ToggleEmpty(Meaning(t)[f])
<1>1. /\ Not(f) \in Edges /\ Ndx(Not(f)) = Ndx(f) /\ (Cst(Not(f)) <=> Cst(f))
      /\ (Neg(Not(f)) <=> ~Neg(f)) /\ InTab(t, Not(f))
    BY EdgeFacts, SignFacts
<1>2. ASSUME NEW F PROVE Toggled(Not(f), F) = ToggleEmpty(Toggled(f, F))
    BY <1>1, ToggleFacts DEF Toggled
<1>3. CASE Cst(f)
    BY <1>1, <1>2, <1>3, MeaningUnfold
<1>4. CASE ~Cst(f)
    <2>1. /\ Meaning(t)[f] = Toggled(f, Joined(t, Ndx(f), Meaning(t)))
          /\ Meaning(t)[Not(f)] = Toggled(Not(f), Joined(t, Ndx(f), Meaning(t)))
        BY <1>1, <1>4, MeaningUnfold
    <2> QED
        BY <1>2, <2>1
<1> QED
    BY <1>3, <1>4

\* They stand for the sets without and with the variable of the node.
LEMMA HalfFacts ==
    ASSUME NEW t, Structured(t), NEW f \in Edges, ~Cst(f), InTab(t, f)
    PROVE  /\ HalfZero(t, f) \in Edges /\ InTab(t, HalfZero(t, f))
           /\ Height(t, HalfZero(t, f)) \in 0..(Height(t, f) - 1)
           /\ HalfOne(t, f) \in Edges /\ InTab(t, HalfOne(t, f))
           /\ Height(t, HalfOne(t, f)) \in 0..(Height(t, f) - 1)
           /\ Meaning(t)[HalfZero(t, f)] = Without(Height(t, f), Meaning(t)[f])
           /\ Meaning(t)[HalfOne(t, f)] = With(Height(t, f), Meaning(t)[f])
<1> DEFINE n == Ndx(f)
           z == t[n].f0
           g == Abs(z)
           h == t[n].f1
           v == Height(t, f)
           M == Meaning(t)
           J == Joined(t, n, M)
<1>1. /\ z \in Edges /\ InTab(t, z) /\ Height(t, z) \in 0..(v - 1) /\ Neg(z)
      /\ h \in Edges /\ InTab(t, h) /\ Height(t, h) \in 0..(v - 1)
      /\ t[n].var = v /\ v \in 1..NumVars
    BY BelowFacts
<1>2. /\ g \in Edges /\ InTab(t, g) /\ Height(t, g) = Height(t, z) /\ g = Not(z) /\ ~Neg(g)
      /\ Not(g) = z
    BY <1>1, SignFacts, EdgeFacts
<1>3. HalfZero(t, f) = (IF Neg(f) THEN z ELSE g) /\ HalfOne(t, f) = h
    BY <1>1, <1>2 DEF HalfZero, HalfOne
<1>4. M[z] = ToggleEmpty(M[g])
    BY <1>2, NegatedMeaning
<1>5. M[f] = Toggled(f, J)
    BY MeaningUnfold
<1>6. J = M[g] \cup {s \cup {v} : s \in M[h]}
    BY <1>1 DEF Joined
<1>7. /\ \A s \in M[g] : s \in SUBSET (1..(v - 1))
      /\ \A s \in M[h] : s \in SUBSET (1..(v - 1))
    <2>1. /\ \A s \in M[g] : s \in SUBSET (1..Height(t, g))
          /\ \A s \in M[h] : s \in SUBSET (1..Height(t, h))
        BY <1>1, <1>2, MeaningFacts
    <2>2. 1..Height(t, g) \subseteq 1..(v - 1) /\ 1..Height(t, h) \subseteq 1..(v - 1)
        BY <1>1, <1>2
    <2> QED
        BY <2>1, <2>2
<1> HIDE DEF J, M, g, h, z, n, v
<1>8. v \notin 1..(v - 1)
    BY <1>1
<1>9. Without(v, J) = M[g]
    BY <1>6, <1>7, <1>8 DEF Without
<1>10. With(v, J) = M[h]
    <2>1. \A s \in M[h] : v \notin s /\ (s \cup {v}) \ {v} = s
        BY <1>7, <1>8
    <2>2. \A s \in M[g] : v \notin s
        BY <1>7, <1>8
    <2>3. {x \in J : v \in x} = {s \cup {v} : s \in M[h]}
        BY <1>6, <2>2
    <2>4. With(v, J) = {(s \cup {v}) \ {v} : s \in M[h]}
        BY <2>3 DEF With
    <2>5. \A s \in M[h] : s \in With(v, J)
        BY <2>1, <2>4
    <2>6. ASSUME NEW x \in With(v, J) PROVE x \in M[h]
        <3>1. PICK s \in M[h] : x = (s \cup {v}) \ {v}
            BY <2>4
        <3> QED
            BY <2>1, <3>1
    <2> QED
        BY <2>5, <2>6
<1>11. M[HalfOne(t, f)] = With(v, M[f])
    BY <1>3, <1>5, <1>10, ToggleFacts DEF Toggled
<1>12. M[HalfZero(t, f)] = Without(v, M[f])
    BY <1>3, <1>4, <1>5, <1>9, ToggleFacts DEF Toggled
<1> QED
    BY <1>1, <1>2, <1>3, <1>11, <1>12 DEF M, v, g, h, z, n
-----------------------------------------------------------------------------
(***************************************************************************)
(* Different edges into a table in order stand for different families.     *)
(***************************************************************************)
LEMMA HalfInjective ==
    ASSUME NEW t, Structured(t),
           NEW f \in Edges, ~Cst(f), InTab(t, f), NEW g \in Edges, ~Cst(g), InTab(t, g),
           Neg(f) <=> Neg(g), Height(t, f) = Height(t, g),
           HalfZero(t, f) = HalfZero(t, g), HalfOne(t, f) = HalfOne(t, g)
    PROVE  f = g
<1> DEFINE m == Ndx(f)
           n == Ndx(g)
<1>1. /\ m \in UsedIn(t) /\ t[m].f0 \in Edges /\ Neg(t[m].f0) /\ t[m].var = Height(t, f)
      /\ n \in UsedIn(t) /\ t[n].f0 \in Edges /\ Neg(t[n].f0) /\ t[n].var = Height(t, g)
    BY BelowFacts
<1>2. Not(Not(t[m].f0)) = t[m].f0 /\ Not(Not(t[n].f0)) = t[n].f0
    BY <1>1, EdgeFacts
<1>3. t[m].f0 = t[n].f0 /\ t[m].f1 = t[n].f1
    BY <1>1, <1>2 DEF HalfZero, HalfOne
<1>4. m = n
    BY <1>1, <1>3 DEF Structured, Alike
<1>5. \A k \in Index : ~Neg(2 * k) /\ Neg(2 * k + 1)
    BY NodeEdgeFacts
<1>6. /\ m \in Index /\ (f = 2 * m \/ f = 2 * m + 1)
      /\ (g = 2 * n \/ g = 2 * n + 1)
    BY EdgeFacts
<1> HIDE DEF m, n
<1> QED
    BY <1>4, <1>5, <1>6

LEMMA MeaningInjective ==
    ASSUME NEW t, Structured(t), NEW f \in Edges, InTab(t, f), NEW g \in Edges, InTab(t, g),
           Meaning(t)[f] = Meaning(t)[g]
    PROVE  f = g
<1> DEFINE M == Meaning(t)
           Upto(l) == {e \in Edges : InTab(t, e) /\ Height(t, e) <= l}
           S == {l \in 0..NumVars : \A d, e \in Upto(l) : M[d] = M[e] => d = e}
<1>1. NumVars \in Nat /\ 0 \in 0..NumVars
    BY ConstantFacts
<1>2. /\ Cst(False) /\ False \in Edges /\ ~Neg(False) /\ Neg(True)
      /\ \A e \in Edges : Cst(e) => e = False \/ e = True
    BY ValueFacts, ConstantFacts, EdgeFacts
<1>3. \A e \in Edges : InTab(t, e) => /\ \A s \in M[e] : s \in SUBSET (1..Height(t, e))
                                      /\ {} \in M[e] <=> Neg(e)
    BY MeaningFacts
<1>4. M[False] = {}
    BY <1>2, MeaningUnfold DEF Toggled
<1> HIDE DEF M
<1>5. 0 \in S
    <2>1. \A d \in Upto(0) : Cst(d) /\ d \in Edges /\ InTab(t, d)
        BY HeightFacts
    <2>2. ASSUME NEW d \in Upto(0), NEW e \in Upto(0), M[d] = M[e] PROVE d = e
        BY <1>2, <1>3, <2>1, <2>2
    <2> QED
        BY <1>1, <2>2
<1>6. ASSUME NEW l \in 0..(NumVars - 1), l \in S
      PROVE  l + 1 \in S
    <2>1. l + 1 \in 0..NumVars /\ l \in Nat
        BY <1>1
    <2>2. \A d, e \in Upto(l) : M[d] = M[e] => d = e
        BY <1>6
    \* An edge of the new level stands for a set with its variable.
    <2>3. ASSUME NEW e \in Upto(l + 1), Height(t, e) = l + 1
          PROVE  /\ ~Cst(e) /\ HalfZero(t, e) \in Upto(l) /\ HalfOne(t, e) \in Upto(l)
                 /\ M[HalfZero(t, e)] = Without(l + 1, M[e])
                 /\ M[HalfOne(t, e)] = With(l + 1, M[e])
                 /\ \E s \in M[e] : l + 1 \in s
        <3>1. ~Cst(e) /\ e \in Edges /\ InTab(t, e)
            BY <2>1, <2>3, SignFacts
        <3>2. /\ HalfZero(t, e) \in Upto(l) /\ HalfOne(t, e) \in Upto(l)
              /\ M[HalfZero(t, e)] = Without(l + 1, M[e])
              /\ M[HalfOne(t, e)] = With(l + 1, M[e])
            <4>1. /\ HalfZero(t, e) \in Edges /\ InTab(t, HalfZero(t, e))
                  /\ Height(t, HalfZero(t, e)) \in 0..((l + 1) - 1)
                  /\ HalfOne(t, e) \in Edges /\ InTab(t, HalfOne(t, e))
                  /\ Height(t, HalfOne(t, e)) \in 0..((l + 1) - 1)
                  /\ M[HalfZero(t, e)] = Without(l + 1, M[e])
                  /\ M[HalfOne(t, e)] = With(l + 1, M[e])
                BY <2>3, <3>1, HalfFacts, Zenon DEF M
            <4>2. \A k \in 0..((l + 1) - 1) : k <= l
                BY <2>1
            <4> QED
                BY <4>1, <4>2
        <3>3. HalfOne(t, e) # False
            BY <3>1, BelowFacts DEF HalfOne
        <3>4. False \in Upto(l)
            BY <1>2, <2>1, SignFacts
        <3>5. M[HalfOne(t, e)] # {}
            BY <1>4, <2>2, <3>2, <3>3, <3>4
        <3>6. \E s \in M[e] : l + 1 \in s
            BY <3>2, <3>5 DEF With
        <3> QED
            BY <3>1, <3>2, <3>6
    <2>4. ASSUME NEW d \in Upto(l + 1), NEW e \in Upto(l + 1), M[d] = M[e],
                 Height(t, d) = l + 1
          PROVE  Height(t, e) = l + 1
        <3>1. PICK s \in M[e] : l + 1 \in s
            BY <2>3, <2>4
        <3>2. s \in SUBSET (1..Height(t, e)) /\ Height(t, e) \in 0..NumVars /\ Height(t, e) <= l + 1
            BY <1>3, HeightFacts
        <3>3. l + 1 \in 1..Height(t, e)
            BY <3>1, <3>2
        <3> QED
            BY <2>1, <3>2, <3>3
    <2>5. ASSUME NEW d \in Upto(l + 1), NEW e \in Upto(l + 1), M[d] = M[e]
          PROVE  d = e
        <3>1. CASE Height(t, d) = l + 1 /\ Height(t, e) = l + 1
            <4>1. /\ M[HalfZero(t, d)] = M[HalfZero(t, e)]
                  /\ M[HalfOne(t, d)] = M[HalfOne(t, e)]
                  /\ HalfZero(t, d) \in Upto(l) /\ HalfZero(t, e) \in Upto(l)
                  /\ HalfOne(t, d) \in Upto(l) /\ HalfOne(t, e) \in Upto(l)
                  /\ ~Cst(d) /\ ~Cst(e)
                BY <2>3, <2>5, <3>1
            <4>2. HalfZero(t, d) = HalfZero(t, e) /\ HalfOne(t, d) = HalfOne(t, e)
                BY <2>2, <4>1
            <4>3. Neg(d) <=> Neg(e)
                BY <1>3, <2>5
            <4>4. d \in Edges /\ InTab(t, d) /\ e \in Edges /\ InTab(t, e)
                OBVIOUS
            <4>5. Height(t, d) = Height(t, e)
                BY <3>1
            <4> HIDE DEF Upto
            <4> QED
                BY <4>1, <4>2, <4>3, <4>4, <4>5, HalfInjective
        <3>2. CASE ~(Height(t, d) = l + 1) /\ ~(Height(t, e) = l + 1)
            <4>1. d \in Upto(l) /\ e \in Upto(l)
                BY <2>1, <3>2, HeightFacts
            <4> QED
                BY <2>2, <2>5, <4>1
        <3> QED
            BY <2>4, <2>5, <3>1, <3>2
    <2> QED
        BY <2>1, <2>5
<1>7. 0..NumVars \subseteq S
    <2>1. S \in SUBSET Nat
        OBVIOUS
    <2> HIDE DEF S
    <2> QED
        BY <1>1, <1>5, <1>6, <2>1, InductionTo
<1>8. NumVars \in S
    BY <1>1, <1>7
<1>9. f \in Upto(NumVars) /\ g \in Upto(NumVars)
    BY <1>1, HeightFacts
<1> QED
    BY <1>8, <1>9 DEF M

\* An edge that stands for sets of low variables is a low edge.
LEMMA MeaningHeight ==
    ASSUME NEW t, Structured(t), NEW f \in Edges, InTab(t, f), NEW l \in Nat,
           \A s \in Meaning(t)[f] : s \in SUBSET (1..l)
    PROVE  Height(t, f) <= l
<1>1. Height(t, f) \in 0..NumVars /\ NumVars \in Nat
    BY HeightFacts, ConstantFacts
<1>2. CASE Cst(f)
    BY <1>2, SignFacts
<1>3. CASE ~Cst(f)
    <2> DEFINE v == Height(t, f)
               h == HalfOne(t, f)
    <2>1. /\ h \in Edges /\ InTab(t, h) /\ h # False
          /\ Meaning(t)[h] = With(v, Meaning(t)[f])
        BY <1>3, HalfFacts, BelowFacts DEF HalfOne
    <2>2. False \in Edges /\ InTab(t, False) /\ Meaning(t)[False] = {}
        BY ValueFacts, ConstantFacts, MeaningUnfold DEF Toggled, InTab
    <2>3. Meaning(t)[h] # {}
        BY <2>1, <2>2, MeaningInjective
    <2> HIDE DEF v, h
    <2>4. PICK s \in Meaning(t)[f] : v \in s
        BY <2>1, <2>3 DEF With
    <2>5. v \in 1..l
        BY <2>4
    <2> QED
        BY <2>5 DEF v
<1> QED
    BY <1>2, <1>3
-----------------------------------------------------------------------------
(***************************************************************************)
(* Tables that change.                                                     *)
(***************************************************************************)
\* The nodes of u are nodes of t.
PartOf(u, t) ==
    \A n \in UsedIn(u) : /\ n \in UsedIn(t) /\ u[n].var = t[n].var
                         /\ u[n].f0 = t[n].f0 /\ u[n].f1 = t[n].f1

LEMMA PartFacts ==
    ASSUME NEW t, NEW u, PartOf(u, t), NEW f \in Edges, InTab(u, f)
    PROVE  InTab(t, f) /\ Height(t, f) = Height(u, f)
<1>1. CASE Cst(f)
    BY <1>1 DEF InTab, Height
<1>2. CASE ~Cst(f)
    <2>1. Ndx(f) \in UsedIn(u)
        BY <1>2, EdgeFacts DEF InTab, UsedIn
    <2> QED
        BY <2>1 DEF PartOf, UsedIn, InTab, Height
<1> QED
    BY <1>1, <1>2

\* Nodes no other node refers to can be taken out of a table in order,
LEMMA PartStructured ==
    ASSUME NEW t, Structured(t), NEW u \in TableType, PartOf(u, t),
           \A n \in UsedIn(u) : InTab(u, u[n].f0) /\ InTab(u, u[n].f1)
    PROVE  Structured(u)
<1>1. ASSUME NEW n \in UsedIn(u) PROVE NodeOrdered(u, n)
    <2>1. /\ n \in UsedIn(t) /\ u[n].var = t[n].var /\ u[n].f0 = t[n].f0 /\ u[n].f1 = t[n].f1
          /\ n \in Index
        BY DEF PartOf, UsedIn
    <2>2. u[n].f0 \in Edges /\ u[n].f1 \in Edges
        BY <2>1 DEF TableType, NodeType
    <2>3. NodeOrdered(t, n)
        BY <2>1 DEF Structured
    <2>4. /\ Height(t, u[n].f0) = Height(u, u[n].f0) /\ InTab(u, u[n].f0)
          /\ Height(t, u[n].f1) = Height(u, u[n].f1) /\ InTab(u, u[n].f1)
        BY <2>2, PartFacts
    <2> QED
        BY <2>1, <2>3, <2>4 DEF NodeOrdered
<1>2. ASSUME NEW m \in UsedIn(u), NEW n \in UsedIn(u), Alike(u, m, n) PROVE m = n
    <2>1. m \in UsedIn(t) /\ n \in UsedIn(t) /\ Alike(t, m, n)
        BY <1>2 DEF PartOf, Alike
    <2> QED
        BY <2>1 DEF Structured
<1> QED
    BY <1>1, <1>2 DEF Structured

\* and a node that is not there yet put in.
LEMMA NewNodeStructured ==
    ASSUME NEW t, Structured(t), NEW n \in Index, t[n].var = 0,
           NEW x \in NodeType, x.var # 0, Neg(x.f0), x.f1 # False,
           InTab(t, x.f0), Height(t, x.f0) < x.var, InTab(t, x.f1), Height(t, x.f1) < x.var,
           \A m \in UsedIn(t) : ~(t[m].var = x.var /\ t[m].f0 = x.f0 /\ t[m].f1 = x.f1),
           NEW u, u = [t EXCEPT ![n] = x]
    PROVE  Structured(u) /\ PartOf(t, u)
<1>1. t \in TableType /\ n \notin UsedIn(t)
    BY DEF Structured, UsedIn
<1>2. u \in TableType /\ u[n] = x /\ \A m \in Index : m # n => u[m] = t[m]
    BY <1>1 DEF TableType
<1>3. UsedIn(u) = UsedIn(t) \cup {n}
    BY <1>2 DEF UsedIn
<1>4. PartOf(t, u)
    BY <1>1, <1>2, <1>3 DEF PartOf, UsedIn
<1>5. \A f \in Edges : InTab(t, f) => InTab(u, f) /\ Height(u, f) = Height(t, f)
    BY <1>4, PartFacts
<1>6. ASSUME NEW m \in UsedIn(u) PROVE NodeOrdered(u, m)
    <2>1. CASE m = n
        <3>1. x.f0 \in Edges /\ x.f1 \in Edges
            BY DEF NodeType
        <3> QED
            BY <1>2, <1>5, <2>1, <3>1 DEF NodeOrdered
    <2>2. CASE m # n
        <3>1. m \in UsedIn(t) /\ m \in Index /\ u[m] = t[m]
            BY <1>2, <1>3, <2>2 DEF UsedIn
        <3>2. NodeOrdered(t, m) /\ t[m].f0 \in Edges /\ t[m].f1 \in Edges
            BY <1>1, <3>1 DEF Structured, TableType, NodeType
        <3> QED
            BY <1>5, <3>1, <3>2 DEF NodeOrdered
    <2> QED
        BY <2>1, <2>2
<1>7. ASSUME NEW k \in UsedIn(u), NEW m \in UsedIn(u), Alike(u, k, m) PROVE k = m
    <2>1. \A j \in UsedIn(u) : (j = n /\ u[j] = x) \/ (j \in UsedIn(t) /\ u[j] = t[j])
        BY <1>2, <1>3 DEF UsedIn
    <2>2. CASE k = n /\ u[k] = x
        BY <1>7, <2>1, <2>2 DEF Alike
    <2>3. CASE m = n /\ u[m] = x
        BY <1>7, <2>1, <2>3 DEF Alike
    <2>4. CASE k \in UsedIn(t) /\ u[k] = t[k] /\ m \in UsedIn(t) /\ u[m] = t[m]
        BY <1>7, <2>4 DEF Structured, Alike
    <2> QED
        BY <2>1, <2>2, <2>3, <2>4
<1> QED
    BY <1>2, <1>4, <1>6, <1>7 DEF Structured

\* Either way edges stand for what they stood for.
LEMMA MeaningStays ==
    ASSUME NEW t, Structured(t), NEW u, Structured(u), PartOf(u, t)
    PROVE  \A f \in Edges : InTab(u, f) => Meaning(u)[f] = Meaning(t)[f]
<1> DEFINE T == Meaning(t)
           U == Meaning(u)
           S == {l \in 0..NumVars :
                    \A f \in Edges : InTab(u, f) /\ Height(u, f) <= l => U[f] = T[f]}
<1>1. NumVars \in Nat /\ 0 \in 0..NumVars
    BY ConstantFacts
<1>2. ASSUME NEW f \in Edges, Cst(f) PROVE U[f] = T[f]
    BY <1>2, MeaningUnfold
<1>3. ASSUME NEW f \in Edges, ~Cst(f), InTab(u, f)
      PROVE  /\ U[f] = Toggled(f, Joined(u, Ndx(f), U))
             /\ T[f] = Toggled(f, Joined(u, Ndx(f), T))
    <2>1. InTab(t, f) /\ Ndx(f) \in UsedIn(u)
        BY <1>3, PartFacts, BelowFacts
    <2>2. Joined(u, Ndx(f), T) = Joined(t, Ndx(f), T)
        BY <2>1 DEF PartOf, Joined
    <2> QED
        BY <1>3, <2>1, <2>2, MeaningUnfold
<1> HIDE DEF T, U
<1>4. 0 \in S
    BY <1>1, <1>2, HeightFacts
<1>5. ASSUME NEW l \in 0..(NumVars - 1), l \in S
      PROVE  l + 1 \in S
    <2>1. l + 1 \in 0..NumVars /\ l \in Nat
        BY <1>1
    <2>2. \A f \in Edges : InTab(u, f) /\ Height(u, f) <= l => U[f] = T[f]
        BY <1>5
    <2>3. ASSUME NEW f \in Edges, InTab(u, f), Height(u, f) <= l + 1, ~Cst(f)
          PROVE  U[f] = T[f]
        <3> DEFINE g == Abs(u[Ndx(f)].f0)
                   h == u[Ndx(f)].f1
        <3>1. /\ g \in Edges /\ InTab(u, g) /\ Height(u, g) <= l
              /\ h \in Edges /\ InTab(u, h) /\ Height(u, h) <= l
            BY <2>1, <2>3, BelowFacts, SignFacts, EdgeFacts
        <3> HIDE DEF g, h
        <3>2. U[g] = T[g] /\ U[h] = T[h]
            BY <2>2, <3>1
        <3>3. Joined(u, Ndx(f), U) = Joined(u, Ndx(f), T)
            BY <3>2 DEF Joined, g, h
        <3> QED
            BY <1>3, <2>3, <3>3
    <2> QED
        BY <1>2, <2>1, <2>3
<1>6. 0..NumVars \subseteq S
    <2>1. S \in SUBSET Nat
        OBVIOUS
    <2> HIDE DEF S
    <2> QED
        BY <1>1, <1>4, <1>5, <2>1, InductionTo
<1>7. NumVars \in S
    BY <1>1, <1>6
<1>8. \A f \in Edges : Height(u, f) <= NumVars
    BY <1>1, HeightFacts
<1> QED
    BY <1>7, <1>8 DEF T, U

\* A family is made of its halves.
LEMMA HalvesDetermine ==
    ASSUME NEW v, NEW F, NEW G, Without(v, F) = Without(v, G), With(v, F) = With(v, G)
    PROVE  F = G
<1>1. ASSUME NEW A, NEW B, Without(v, A) = Without(v, B), With(v, A) = With(v, B), NEW s \in A
      PROVE  s \in B
    <2>1. CASE v \notin s
        BY <1>1, <2>1 DEF Without
    <2>2. CASE v \in s
        <3>1. s \ {v} \in With(v, A)
            BY <2>2 DEF With
        <3>2. PICK x \in B : v \in x /\ s \ {v} = x \ {v}
            BY <1>1, <3>1 DEF With
        <3>3. s = x
            BY <2>2, <3>2
        <3> QED
            BY <3>2, <3>3
    <2> QED
        BY <2>1, <2>2
<1> QED
    BY <1>1

\* What getzbddp() returns for the node n with 0-edge h0 stands for the
\* family whose halves its edges stand for.
StoredEdge(h) == IF Neg(h) THEN h ELSE Not(h)
EdgeTo(n, h) == IF Neg(h) THEN 2 * n + 1 ELSE 2 * n

LEMMA NodeMeaning ==
    ASSUME NEW t, Structured(t), NEW n \in UsedIn(t), NEW h \in Edges,
           t[n].f0 = StoredEdge(h), NEW e, e = EdgeTo(n, h),
           NEW F, Meaning(t)[h] = Without(t[n].var, F), Meaning(t)[t[n].f1] = With(t[n].var, F)
    PROVE  e \in Edges /\ ~Cst(e) /\ InTab(t, e) /\ Meaning(t)[e] = F
<1>1. n \in Index
    BY DEF UsedIn
<1>2. e \in Edges /\ ~Cst(e) /\ Ndx(e) = n /\ (Neg(e) <=> Neg(h))
    BY <1>1, NodeEdgeFacts DEF EdgeTo
<1>3. InTab(t, e) /\ Height(t, e) = t[n].var
    BY <1>2 DEF UsedIn, InTab, Height
<1>4. HalfZero(t, e) = h /\ HalfOne(t, e) = t[n].f1
    <2>1. /\ Neg(Not(h)) <=> ~Neg(h)
          /\ Not(Not(h)) = h
        BY EdgeFacts
    <2>2. CASE Neg(h)
        BY <1>2, <2>1, <2>2 DEF HalfZero, HalfOne, Neg, StoredEdge
    <2>3. CASE ~Neg(h)
        BY <1>2, <2>1, <2>3 DEF HalfZero, HalfOne, Neg, StoredEdge
    <2> QED
        BY <2>2, <2>3
<1>5. /\ Meaning(t)[HalfZero(t, e)] = Without(Height(t, e), Meaning(t)[e])
      /\ Meaning(t)[HalfOne(t, e)] = With(Height(t, e), Meaning(t)[e])
    BY <1>2, <1>3, HalfFacts
<1> DEFINE G == Meaning(t)[e]
           v == t[n].var
<1>6. Without(v, G) = Without(v, F) /\ With(v, G) = With(v, F)
    BY <1>3, <1>4, <1>5
<1> HIDE DEF G, v
<1>7. G = F
    BY <1>6, HalvesDetermine
<1> QED
    BY <1>2, <1>3, <1>7 DEF G
-----------------------------------------------------------------------------
(***************************************************************************)
(* The operations on families, and how they go into halves.                *)
(***************************************************************************)
Changed(v, F) == {IF v \in s THEN s \ {v} ELSE s \cup {v} : s \in F}

LEMMA MeantFacts ==
    ASSUME NEW F, NEW G
    PROVE  /\ Families!Meant("INTERSEC", F, G) = F \cap G
           /\ Families!Meant("UNION", F, G) = F \cup G
           /\ Families!Meant("SUBTRACT", F, G) = F \ G
           /\ Families!Meant("OFFSET", F, G) = Without(G, F)
           /\ Families!Meant("ONSET", F, G) = With(G, F)
           /\ Families!Meant("CHANGE", F, G) = Changed(G, F)
BY DEF Families!Meant, Without, With, Changed

LEMMA WithMember ==
    ASSUME NEW v, NEW F, NEW s
    PROVE  s \in With(v, F) <=> v \notin s /\ s \cup {v} \in F
<1>1. ASSUME s \in With(v, F) PROVE v \notin s /\ s \cup {v} \in F
    <2>1. PICK x \in F : v \in x /\ s = x \ {v}
        BY <1>1 DEF With
    <2>2. s \cup {v} = x /\ v \notin s
        BY <2>1
    <2> QED
        BY <2>1, <2>2
<1>2. ASSUME v \notin s, s \cup {v} \in F PROVE s \in With(v, F)
    <2>1. s = (s \cup {v}) \ {v} /\ v \in s \cup {v}
        BY <1>2
    <2> QED
        BY <1>2, <2>1 DEF With
<1> QED
    BY <1>1, <1>2

LEMMA ChangedMember ==
    ASSUME NEW v, NEW F, NEW s
    PROVE  /\ v \in s => (s \in Changed(v, F) <=> s \ {v} \in F)
           /\ v \notin s => (s \in Changed(v, F) <=> s \cup {v} \in F)
<1> DEFINE y == IF v \in s THEN s \ {v} ELSE s \cup {v}
<1>1. ASSUME s \in Changed(v, F) PROVE y \in F
    <2>1. PICK x \in F : s = IF v \in x THEN x \ {v} ELSE x \cup {v}
        BY <1>1 DEF Changed
    <2>2. x = y
        BY <2>1
    <2> QED
        BY <2>1, <2>2
<1>2. ASSUME y \in F PROVE s \in Changed(v, F)
    <2>1. s = IF v \in y THEN y \ {v} ELSE y \cup {v}
        OBVIOUS
    <2> HIDE DEF y
    <2> QED
        BY <1>2, <2>1 DEF Changed
<1> QED
    BY <1>1, <1>2

LEMMA BinaryHalves ==
    ASSUME NEW v, NEW F, NEW G, NEW op \in BinaryOps
    PROVE  /\ Without(v, Families!Meant(op, F, G)) =
                    Families!Meant(op, Without(v, F), Without(v, G))
           /\ With(v, Families!Meant(op, F, G)) = Families!Meant(op, With(v, F), With(v, G))
<1> DEFINE Half(s, x) == /\ \A H : s \in With(v, H) <=> v \notin s /\ x \in H
                         /\ \A H : s \in Without(v, H) <=> v \notin s /\ s \in H
<1>1. \A s : Half(s, s \cup {v})
    BY WithMember DEF Without
<1>2. ASSUME NEW s, NEW x, NEW A, NEW B, Half(s, x), op = "INTERSEC" => A = F \cap G,
             op = "UNION" => A = F \cup G, op = "SUBTRACT" => A = F \ G
      PROVE  /\ s \in Without(v, A) <=> s \in Families!Meant(op, Without(v, F), Without(v, G))
             /\ s \in With(v, A) <=> s \in Families!Meant(op, With(v, F), With(v, G))
    <2> DEFINE C == Without(v, F)
               D == Without(v, G)
               I == With(v, F)
               J == With(v, G)
    <2>1. /\ s \in With(v, A) <=> v \notin s /\ x \in A
          /\ s \in Without(v, A) <=> v \notin s /\ s \in A
          /\ s \in C <=> v \notin s /\ s \in F
          /\ s \in D <=> v \notin s /\ s \in G
          /\ s \in I <=> v \notin s /\ x \in F
          /\ s \in J <=> v \notin s /\ x \in G
        BY <1>2
    <2> HIDE DEF C, D, I, J, Half
    <2>2. CASE op = "INTERSEC"
        BY <1>2, <2>1, <2>2, MeantFacts DEF C, D, I, J
    <2>3. CASE op = "UNION"
        BY <1>2, <2>1, <2>3, MeantFacts DEF C, D, I, J
    <2>4. CASE op = "SUBTRACT"
        BY <1>2, <2>1, <2>4, MeantFacts DEF C, D, I, J
    <2> QED
        BY <2>2, <2>3, <2>4 DEF BinaryOps
<1> DEFINE A == Families!Meant(op, F, G)
<1>3. /\ op = "INTERSEC" => A = F \cap G
      /\ op = "UNION" => A = F \cup G
      /\ op = "SUBTRACT" => A = F \ G
    BY MeantFacts
<1> HIDE DEF A, Half
<1>4. \A s : /\ s \in Without(v, A) <=> s \in Families!Meant(op, Without(v, F), Without(v, G))
             /\ s \in With(v, A) <=> s \in Families!Meant(op, With(v, F), With(v, G))
    BY <1>1, <1>2, <1>3
<1>5. Without(v, A) = Families!Meant(op, Without(v, F), Without(v, G))
    BY <1>4
<1>6. With(v, A) = Families!Meant(op, With(v, F), With(v, G))
    BY <1>4
<1> QED
    BY <1>5, <1>6 DEF A

LEMMA UnaryHalves ==
    ASSUME NEW v, NEW w, v # w, NEW F
    PROVE  /\ Without(v, Without(w, F)) = Without(w, Without(v, F))
           /\ With(v, Without(w, F)) = Without(w, With(v, F))
           /\ Without(v, With(w, F)) = With(w, Without(v, F))
           /\ With(v, With(w, F)) = With(w, With(v, F))
           /\ Without(v, Changed(w, F)) = Changed(w, Without(v, F))
           /\ With(v, Changed(w, F)) = Changed(w, With(v, F))
<1>1. ASSUME NEW s
      PROVE  /\ s \in Without(v, Without(w, F)) <=> s \in Without(w, Without(v, F))
             /\ s \in With(v, Without(w, F)) <=> s \in Without(w, With(v, F))
             /\ s \in Without(v, With(w, F)) <=> s \in With(w, Without(v, F))
             /\ s \in With(v, With(w, F)) <=> s \in With(w, With(v, F))
             /\ s \in Without(v, Changed(w, F)) <=> s \in Changed(w, Without(v, F))
             /\ s \in With(v, Changed(w, F)) <=> s \in Changed(w, With(v, F))
    <2> DEFINE a == s \cup {w}
               b == s \cup {v}
               c == s \ {w}
               d == b \cup {w}
               e == b \ {w}
    <2>1. /\ d = a \cup {v} /\ e = c \cup {v}
          /\ v \in a <=> v \in s
          /\ w \in b <=> w \in s
          /\ v \in c <=> v \in s
        OBVIOUS
    <2>2. \A u, H, x : x \in Without(u, H) <=> u \notin x /\ x \in H
        BY DEF Without
    <2>3. /\ \A H : s \in With(v, H) <=> v \notin s /\ b \in H
          /\ \A H : s \in With(w, H) <=> w \notin s /\ a \in H
          /\ \A H : b \in With(w, H) <=> w \notin b /\ d \in H
        BY WithMember
    <2>4. /\ \A H : a \in With(v, H) <=> v \notin a /\ d \in H
          /\ \A H : c \in With(v, H) <=> v \notin c /\ e \in H
        <3> HIDE DEF a, c, d, e
        <3> QED
            BY <2>1, WithMember
    <2>5. /\ \A H : w \in s => (s \in Changed(w, H) <=> c \in H)
          /\ \A H : w \notin s => (s \in Changed(w, H) <=> a \in H)
        BY ChangedMember
    <2>6. /\ \A H : w \in b => (b \in Changed(w, H) <=> e \in H)
          /\ \A H : w \notin b => (b \in Changed(w, H) <=> d \in H)
        <3> HIDE DEF b
        <3> QED
            BY ChangedMember
    <2> HIDE DEF a, b, c, d, e
    <2>7. s \in Without(v, Without(w, F)) <=> s \in Without(w, Without(v, F))
        BY <2>2
    <2>8. s \in With(v, Without(w, F)) <=> s \in Without(w, With(v, F))
        BY <2>1, <2>2, <2>3
    <2>9. s \in Without(v, With(w, F)) <=> s \in With(w, Without(v, F))
        BY <2>1, <2>2, <2>3
    <2>10. s \in With(v, With(w, F)) <=> s \in With(w, With(v, F))
        BY <2>1, <2>3, <2>4
    <2>11. s \in Without(v, Changed(w, F)) <=> s \in Changed(w, Without(v, F))
        <3>1. CASE w \in s
            BY <2>1, <2>2, <2>5, <3>1
        <3>2. CASE w \notin s
            BY <2>1, <2>2, <2>5, <3>2
        <3> QED
            BY <3>1, <3>2
    <2>12. s \in With(v, Changed(w, F)) <=> s \in Changed(w, With(v, F))
        <3>1. CASE w \in s
            BY <2>1, <2>3, <2>4, <2>5, <2>6, <3>1
        <3>2. CASE w \notin s
            BY <2>1, <2>3, <2>4, <2>5, <2>6, <3>2
        <3> QED
            BY <3>1, <3>2
    <2> QED
        BY <2>7, <2>8, <2>9, <2>10, <2>11, <2>12
<1>2. Without(v, Without(w, F)) = Without(w, Without(v, F))
    BY <1>1
<1>3. With(v, Without(w, F)) = Without(w, With(v, F))
    BY <1>1
<1>4. Without(v, With(w, F)) = With(w, Without(v, F))
    BY <1>1
<1>5. With(v, With(w, F)) = With(w, With(v, F))
    BY <1>1
<1>6. Without(v, Changed(w, F)) = Changed(w, Without(v, F))
    BY <1>1
<1>7. With(v, Changed(w, F)) = Changed(w, With(v, F))
    BY <1>1
<1> QED
    BY <1>2, <1>3, <1>4, <1>5, <1>6, <1>7

LEMMA ChangedHalves ==
    ASSUME NEW v, NEW F
    PROVE  /\ Without(v, Changed(v, F)) = With(v, F)
           /\ With(v, Changed(v, F)) = Without(v, F)
<1>1. ASSUME NEW s
      PROVE  /\ s \in Without(v, Changed(v, F)) <=> s \in With(v, F)
             /\ s \in With(v, Changed(v, F)) <=> s \in Without(v, F)
    <2> DEFINE a == s \cup {v}
    <2>1. \A u, H, x : x \in Without(u, H) <=> u \notin x /\ x \in H
        BY DEF Without
    <2>2. \A H : s \in With(v, H) <=> v \notin s /\ a \in H
        BY WithMember
    <2>3. v \notin s => (s \in Changed(v, F) <=> a \in F)
        BY ChangedMember
    <2>4. a \in Changed(v, F) <=> a \ {v} \in F
        <3>1. v \in a
            OBVIOUS
        <3> HIDE DEF a
        <3> QED
            BY <3>1, ChangedMember
    <2>5. v \notin s => a \ {v} = s
        OBVIOUS
    <2> HIDE DEF a
    <2>6. v \in a
        BY DEF a
    <2>7. s \in Without(v, Changed(v, F)) <=> s \in With(v, F)
        BY <2>1, <2>2, <2>3
    <2>8. s \in With(v, Changed(v, F)) <=> s \in Without(v, F)
        BY <2>1, <2>2, <2>4, <2>5
    <2> QED
        BY <2>7, <2>8
<1>2. Without(v, Changed(v, F)) = With(v, F)
    BY <1>1
<1>3. With(v, Changed(v, F)) = Without(v, F)
    BY <1>1
<1> QED
    BY <1>2, <1>3
-----------------------------------------------------------------------------
(***************************************************************************)
(* What an operation of apply() on edges into the table t should give.     *)
(***************************************************************************)
Applied(t, op, f, g) ==
    Families!Meant(op, Meaning(t)[f], IF op \in BinaryOps THEN Meaning(t)[g] ELSE g)

LEMMA AppliedFacts ==
    ASSUME NEW t, NEW f, NEW g
    PROVE  /\ Applied(t, "INTERSEC", f, g) = Meaning(t)[f] \cap Meaning(t)[g]
           /\ Applied(t, "UNION", f, g) = Meaning(t)[f] \cup Meaning(t)[g]
           /\ Applied(t, "SUBTRACT", f, g) = Meaning(t)[f] \ Meaning(t)[g]
           /\ Applied(t, "OFFSET", f, g) = Without(g, Meaning(t)[f])
           /\ Applied(t, "ONSET", f, g) = With(g, Meaning(t)[f])
           /\ Applied(t, "CHANGE", f, g) = Changed(g, Meaning(t)[f])
<1> DEFINE F == Meaning(t)[f]
           G == Meaning(t)[g]
<1>1. \A H : /\ Families!Meant("INTERSEC", F, H) = F \cap H
             /\ Families!Meant("UNION", F, H) = F \cup H
             /\ Families!Meant("SUBTRACT", F, H) = F \ H
             /\ Families!Meant("OFFSET", F, H) = Without(H, F)
             /\ Families!Meant("ONSET", F, H) = With(H, F)
             /\ Families!Meant("CHANGE", F, H) = Changed(H, F)
    BY MeantFacts
<1> HIDE DEF F, G
<1>2. /\ "INTERSEC" \in BinaryOps /\ "UNION" \in BinaryOps /\ "SUBTRACT" \in BinaryOps
      /\ "OFFSET" \notin BinaryOps /\ "ONSET" \notin BinaryOps /\ "CHANGE" \notin BinaryOps
    BY DEF BinaryOps
<1> QED
    BY <1>1, <1>2 DEF Applied, F, G

\* The constants stand for no set and for the empty set.
LEMMA ConstantMeaning ==
    ASSUME NEW t, Structured(t)
    PROVE  /\ Meaning(t)[False] = {} /\ Meaning(t)[True] = {{}}
           /\ InTab(t, False) /\ InTab(t, True)
<1>1. False \in Edges /\ True \in Edges /\ Cst(False) /\ Cst(True) /\ ~Neg(False) /\ Neg(True)
    BY ConstantFacts, ValueFacts
<1> QED
    BY <1>1, MeaningUnfold DEF Toggled, ToggleEmpty, InTab

\* An edge without its sign stands for the family without the empty set.
LEMMA SignMeaning ==
    ASSUME NEW t, Structured(t), NEW f \in Edges, InTab(t, f)
    PROVE  /\ Meaning(t)[Abs(f)] = Meaning(t)[f] \ {{}}
           /\ {} \in Meaning(t)[f] <=> Neg(f)
           /\ Meaning(t)[Not(f)] = IF Neg(f) THEN Meaning(t)[f] \ {{}} ELSE Meaning(t)[f] \cup {{}}
<1>1. {} \in Meaning(t)[f] <=> Neg(f)
    BY MeaningFacts
<1>2. Meaning(t)[Not(f)] = ToggleEmpty(Meaning(t)[f])
    BY NegatedMeaning
<1>3. Abs(f) = IF Neg(f) THEN Not(f) ELSE f
    BY SignFacts
<1> QED
    BY <1>1, <1>2, <1>3 DEF ToggleEmpty

LEMMA TrivialBinary ==
    ASSUME Structured(node), NEW op \in BinaryOps,
           NEW f \in Edges, InTab(node, f), NEW g \in Edges, InTab(node, g),
           Trivial(op, f, g) # NoRet
    PROVE  Meaning(node)[Trivial(op, f, g)] = Applied(node, op, f, g)
<1> DEFINE M == Meaning(node)
           h == Trivial(op, f, g)
<1>1. M[False] = {} /\ M[True] = {{}}
    BY ConstantMeaning
<1>2. /\ M[Abs(f)] = M[f] \ {{}} /\ ({} \in M[f] <=> Neg(f))
      /\ M[Not(f)] = IF Neg(f) THEN M[f] \ {{}} ELSE M[f] \cup {{}}
      /\ M[Abs(g)] = M[g] \ {{}} /\ ({} \in M[g] <=> Neg(g))
      /\ M[Not(g)] = IF Neg(g) THEN M[g] \ {{}} ELSE M[g] \cup {{}}
    BY SignMeaning
<1> HIDE DEF M
<1>3. CASE op = "INTERSEC"
    <2>1. h = IF f = False \/ g = False THEN False
              ELSE IF f = True THEN IF Neg(g) THEN True ELSE False
              ELSE IF g = True THEN IF Neg(f) THEN True ELSE False
              ELSE IF f = g THEN f
              ELSE IF f = Not(g) THEN Abs(f)
              ELSE NoRet
        BY <1>3 DEF Trivial
    <2>2. h # NoRet
        OBVIOUS
    <2> HIDE DEF h
    <2>3. M[h] = M[f] \cap M[g]
        <3>1. CASE f = False \/ g = False
            BY <1>1, <2>1, <3>1
        <3>2. CASE f # False /\ g # False /\ f = True
            BY <1>1, <1>2, <2>1, <3>2
        <3>3. CASE f # False /\ g # False /\ f # True /\ g = True
            BY <1>1, <1>2, <2>1, <3>3
        <3>4. CASE f # False /\ g # False /\ f # True /\ g # True /\ f = g
            BY <2>1, <3>4
        <3>5. CASE f # False /\ g # False /\ f # True /\ g # True /\ f # g /\ f = Not(g)
            <4>1. M[h] = M[f] \ {{}}
                BY <1>2, <2>1, <3>5
            <4>2. M[f] = IF Neg(g) THEN M[g] \ {{}} ELSE M[g] \cup {{}}
                BY <1>2, <3>5
            <4> QED
                BY <1>2, <4>1, <4>2
        <3> QED
            BY <2>1, <2>2, <3>1, <3>2, <3>3, <3>4, <3>5
    <2> QED
        BY <1>3, <2>3, AppliedFacts DEF M, h
<1>4. CASE op = "UNION"
    <2>1. h = IF f = False THEN g
              ELSE IF f = True THEN IF Neg(g) THEN g ELSE Not(g)
              ELSE IF g = False \/ f = g THEN f
              ELSE IF g = True \/ f = Not(g) THEN IF Neg(f) THEN f ELSE Not(f)
              ELSE NoRet
        BY <1>4 DEF Trivial
    <2>2. h # NoRet
        OBVIOUS
    <2> HIDE DEF h
    <2>3. M[h] = M[f] \cup M[g]
        <3>1. CASE f = False
            BY <1>1, <2>1, <3>1
        <3>2. CASE f # False /\ f = True
            BY <1>1, <1>2, <2>1, <3>2
        <3>3. CASE f # False /\ f # True /\ (g = False \/ f = g)
            BY <1>1, <2>1, <3>3
        <3>4. CASE f # False /\ f # True /\ g # False /\ f # g /\ g = True
            BY <1>1, <1>2, <2>1, <3>4
        <3>5. CASE f # False /\ f # True /\ g # False /\ f # g /\ f = Not(g)
            <4>1. M[h] = M[f] \cup {{}}
                BY <1>2, <2>1, <3>5
            <4>2. M[f] = IF Neg(g) THEN M[g] \ {{}} ELSE M[g] \cup {{}}
                BY <1>2, <3>5
            <4> QED
                BY <1>2, <4>1, <4>2
        <3> QED
            BY <2>1, <2>2, <3>1, <3>2, <3>3, <3>4, <3>5
    <2> QED
        BY <1>4, <2>3, AppliedFacts DEF M, h
<1>5. CASE op = "SUBTRACT"
    <2>1. h = IF f = False \/ f = g THEN False
              ELSE IF f = True \/ f = Not(g) THEN IF Neg(g) THEN False ELSE True
              ELSE IF g = False THEN f
              ELSE IF g = True THEN Abs(f)
              ELSE NoRet
        BY <1>5 DEF Trivial
    <2>2. h # NoRet
        OBVIOUS
    <2> HIDE DEF h
    <2>3. M[h] = M[f] \ M[g]
        <3>1. CASE f = False \/ f = g
            BY <1>1, <2>1, <3>1
        <3>2. CASE f # False /\ f # g /\ f = True
            BY <1>1, <1>2, <2>1, <3>2
        <3>3. CASE f # False /\ f # g /\ f = Not(g)
            <4>1. M[h] = IF Neg(g) THEN {} ELSE {{}}
                BY <1>1, <2>1, <3>3
            <4>2. M[f] = IF Neg(g) THEN M[g] \ {{}} ELSE M[g] \cup {{}}
                BY <1>2, <3>3
            <4> QED
                BY <1>2, <4>1, <4>2
        <3>4. CASE f # False /\ f # g /\ f # True /\ f # Not(g) /\ g = False
            BY <1>1, <2>1, <3>4
        <3>5. CASE f # False /\ f # g /\ f # True /\ f # Not(g) /\ g # False /\ g = True
            BY <1>1, <1>2, <2>1, <3>5
        <3> QED
            BY <2>1, <2>2, <3>1, <3>2, <3>3, <3>4, <3>5
    <2> QED
        BY <1>5, <2>3, AppliedFacts DEF M, h
<1> QED
    BY <1>3, <1>4, <1>5 DEF BinaryOps

\* Levels and halves as apply() reads them.
LEMMA LevFacts ==
    ASSUME NEW f
    PROVE  Lev(f) = Height(node, f) /\ Cofactor0(f) = HalfZero(node, f) /\ Cofactor1(f) = HalfOne(node, f)
BY DEF Lev, Height, Cofactor0, Cofactor1, HalfZero, HalfOne

\* A family of sets of lower variables has no set with the variable v.
LEMMA LowFamily ==
    ASSUME NEW t, Structured(t), NEW f \in Edges, InTab(t, f), NEW v \in Nat, Height(t, f) < v
    PROVE  /\ Without(v, Meaning(t)[f]) = Meaning(t)[f] /\ With(v, Meaning(t)[f]) = {}
           /\ Without(v, Changed(v, Meaning(t)[f])) = {}
           /\ With(v, Changed(v, Meaning(t)[f])) = Meaning(t)[f]
<1> DEFINE F == Meaning(t)[f]
<1>1. \A s \in F : s \in SUBSET (1..Height(t, f))
    BY MeaningFacts
<1>2. Height(t, f) \in Nat
    BY HeightFacts, ConstantFacts
<1>3. v \notin 1..Height(t, f)
    BY <1>2
<1> HIDE DEF F
<1>4. \A s \in F : v \notin s
    BY <1>1, <1>3
<1>5. Without(v, F) = F /\ With(v, F) = {}
    BY <1>4 DEF Without, With
<1>6. Without(v, Changed(v, F)) = {} /\ With(v, Changed(v, F)) = F
    BY <1>5, ChangedHalves
<1> QED
    BY <1>5, <1>6 DEF F

LEMMA TrivialUnary ==
    ASSUME Structured(node), NEW op \in UnaryOps,
           NEW f \in Edges, InTab(node, f), NEW g \in Vars, Trivial(op, f, g) # NoRet
    PROVE  Meaning(node)[Trivial(op, f, g)] = Applied(node, op, f, g)
<1> DEFINE M == Meaning(node)
           h == Trivial(op, f, g)
<1>1. M[False] = {}
    BY ConstantMeaning
<1>2. g \in Nat /\ g >= 1 /\ Lev(f) = Height(node, f) /\ Height(node, f) \in Nat
    BY LevFacts, HeightFacts, ConstantFacts DEF Vars
<1>3. Lev(f) < g => Without(g, M[f]) = M[f] /\ With(g, M[f]) = {}
    BY <1>2, LowFamily
<1>4. Lev(f) = g => Without(g, M[f]) = M[Cofactor0(f)] /\ With(g, M[f]) = M[Cofactor1(f)]
    <2>1. Lev(f) = g => ~Cst(f)
        BY <1>2 DEF Height
    <2> QED
        BY <1>2, <2>1, HalfFacts, LevFacts
<1> HIDE DEF M
<1>5. CASE op = "OFFSET"
    <2>1. h = IF Lev(f) < g THEN f ELSE IF Lev(f) = g THEN Cofactor0(f) ELSE NoRet
        BY <1>5 DEF Trivial
    <2>2. M[h] = Without(g, M[f])
        BY <1>3, <1>4, <2>1
    <2> QED
        BY <1>5, <2>2, AppliedFacts DEF M
<1>6. CASE op = "ONSET"
    <2>1. h = IF Lev(f) < g THEN False ELSE IF Lev(f) = g THEN Cofactor1(f) ELSE NoRet
        BY <1>6 DEF Trivial
    <2>2. M[h] = With(g, M[f])
        BY <1>1, <1>3, <1>4, <2>1
    <2> QED
        BY <1>6, <2>2, AppliedFacts DEF M
<1>7. CASE op = "CHANGE"
    <2>1. h = False /\ f = False
        BY <1>7 DEF Trivial
    <2>2. M[h] = Changed(g, M[f])
        BY <1>1, <2>1 DEF Changed
    <2> QED
        BY <1>7, <2>2, AppliedFacts DEF M
<1> QED
    BY <1>5, <1>6, <1>7 DEF UnaryOps

\* The families of f without and with the variable v, the highest.
LowerZero(t, f, v) == IF Height(t, f) = v THEN HalfZero(t, f) ELSE f
LowerOne(t, f, v) == IF Height(t, f) = v THEN HalfOne(t, f) ELSE False

LEMMA LowerFacts ==
    ASSUME NEW t, Structured(t), NEW f \in Edges, InTab(t, f), NEW v \in Vars, Height(t, f) <= v
    PROVE  /\ LowerZero(t, f, v) \in Edges /\ InTab(t, LowerZero(t, f, v))
           /\ LowerOne(t, f, v) \in Edges /\ InTab(t, LowerOne(t, f, v))
           /\ Meaning(t)[LowerZero(t, f, v)] = Without(v, Meaning(t)[f])
           /\ Meaning(t)[LowerOne(t, f, v)] = With(v, Meaning(t)[f])
<1>1. v \in Nat /\ v # 0 /\ Height(t, f) \in Nat
    BY HeightFacts, ConstantFacts DEF Vars
<1>2. CASE Height(t, f) = v
    <2>1. ~Cst(f)
        BY <1>1, <1>2, SignFacts
    <2> QED
        BY <1>2, <2>1, HalfFacts DEF LowerZero, LowerOne
<1>3. CASE Height(t, f) # v
    <2>1. Height(t, f) < v
        BY <1>1, <1>3
    <2>2. Without(v, Meaning(t)[f]) = Meaning(t)[f] /\ With(v, Meaning(t)[f]) = {}
        BY <1>1, <2>1, LowFamily
    <2>3. False \in Edges /\ Meaning(t)[False] = {} /\ InTab(t, False)
        BY ConstantFacts, ConstantMeaning
    <2> QED
        BY <1>3, <2>2, <2>3 DEF LowerZero, LowerOne
<1> QED
    BY <1>2, <1>3

\* The recursion: the halves of the result are the results for the halves.
LEMMA AppliedHalves ==
    ASSUME NEW t, NEW v, NEW op \in BinaryOps \cup UnaryOps,
           NEW f, NEW g, op \in UnaryOps => g # v, NEW f0, NEW f1, NEW g0, NEW g1,
           Meaning(t)[f0] = Without(v, Meaning(t)[f]), Meaning(t)[f1] = With(v, Meaning(t)[f]),
           op \in BinaryOps => /\ Meaning(t)[g0] = Without(v, Meaning(t)[g])
                               /\ Meaning(t)[g1] = With(v, Meaning(t)[g]),
           op \in UnaryOps => g0 = g /\ g1 = g
    PROVE  /\ Applied(t, op, f0, g0) = Without(v, Applied(t, op, f, g))
           /\ Applied(t, op, f1, g1) = With(v, Applied(t, op, f, g))
<1> DEFINE F == Meaning(t)[f]
           G == Meaning(t)[g]
<1>1. CASE op \in BinaryOps
    BY <1>1, BinaryHalves DEF Applied
<1>2. CASE op \in UnaryOps
    <2> DEFINE F0 == Meaning(t)[f0]
               F1 == Meaning(t)[f1]
    <2>1. F0 = Without(v, F) /\ F1 = With(v, F) /\ g0 = g /\ g1 = g /\ v # g
        BY <1>2
    <2>2. /\ op = "OFFSET" => /\ Applied(t, op, f, g) = Without(g, F)
                              /\ Applied(t, op, f0, g) = Without(g, F0)
                              /\ Applied(t, op, f1, g) = Without(g, F1)
          /\ op = "ONSET" => /\ Applied(t, op, f, g) = With(g, F)
                             /\ Applied(t, op, f0, g) = With(g, F0)
                             /\ Applied(t, op, f1, g) = With(g, F1)
          /\ op = "CHANGE" => /\ Applied(t, op, f, g) = Changed(g, F)
                              /\ Applied(t, op, f0, g) = Changed(g, F0)
                              /\ Applied(t, op, f1, g) = Changed(g, F1)
        BY AppliedFacts
    <2> HIDE DEF F, G, F0, F1
    <2> QED
        BY <1>2, <2>1, <2>2, UnaryHalves DEF UnaryOps
<1> QED
    BY <1>1, <1>2

\* No set of the result has a variable above those of the operands.
LEMMA AppliedBound ==
    ASSUME NEW t, Structured(t), NEW op \in BinaryOps \cup UnaryOps, NEW v \in Vars,
           NEW f \in Edges, InTab(t, f), Height(t, f) <= v,
           NEW g, op \in BinaryOps => g \in Edges /\ InTab(t, g) /\ Height(t, g) <= v,
           op \in UnaryOps => g \in 1..v
    PROVE  \A s \in Applied(t, op, f, g) : s \in SUBSET (1..v)
<1> DEFINE F == Meaning(t)[f]
           G == Meaning(t)[g]
<1>1. \A e \in Edges : InTab(t, e) /\ Height(t, e) <= v =>
            \A s \in Meaning(t)[e] : s \in SUBSET (1..v)
    <2>1. ASSUME NEW e \in Edges, InTab(t, e), Height(t, e) <= v
          PROVE  \A s \in Meaning(t)[e] : s \in SUBSET (1..v)
        <3>1. Height(t, e) \in Nat /\ v \in Nat
            BY HeightFacts, ConstantFacts DEF Vars
        <3>2. 1..Height(t, e) \subseteq 1..v
            BY <2>1, <3>1
        <3>3. \A s \in Meaning(t)[e] : s \in SUBSET (1..Height(t, e))
            BY <2>1, MeaningFacts
        <3> QED
            BY <3>2, <3>3
    <2> QED
        BY <2>1
<1>2. \A s \in F : s \in SUBSET (1..v)
    BY <1>1
<1>3. op \in BinaryOps => \A s \in G : s \in SUBSET (1..v)
    BY <1>1
<1>4. /\ op = "INTERSEC" => Applied(t, op, f, g) = F \cap G
      /\ op = "UNION" => Applied(t, op, f, g) = F \cup G
      /\ op = "SUBTRACT" => Applied(t, op, f, g) = F \ G
      /\ op = "OFFSET" => Applied(t, op, f, g) = Without(g, F)
      /\ op = "ONSET" => Applied(t, op, f, g) = With(g, F)
      /\ op = "CHANGE" => Applied(t, op, f, g) = Changed(g, F)
    BY AppliedFacts
<1> HIDE DEF F, G
<1>5. CASE op \in BinaryOps
    <2>1. Applied(t, op, f, g) \subseteq F \cup G
        BY <1>4, <1>5 DEF BinaryOps
    <2> QED
        BY <1>2, <1>3, <1>5, <2>1
<1>6. CASE op = "OFFSET"
    BY <1>2, <1>4, <1>6 DEF Without
<1>7. CASE op = "ONSET"
    BY <1>2, <1>4, <1>7 DEF With
<1>8. CASE op = "CHANGE"
    <2>1. g \in 1..v
        BY <1>8 DEF UnaryOps
    <2> QED
        BY <1>2, <1>4, <1>8, <2>1 DEF Changed
<1> QED
    BY <1>5, <1>6, <1>7, <1>8 DEF UnaryOps
-----------------------------------------------------------------------------
(***************************************************************************)
(* The machine that works on the table.                                    *)
(***************************************************************************)
\* The operation the program waits for.
CallType ==
    [op : BinaryOps \cup UnaryOps, to : Handles, a : Handles, g : Handles \cup Vars,
     failed : BOOLEAN]

\* The variables TypeOK does not speak of.
TypesInv ==
    /\ TypeOK
    /\ cache # <<>>
    /\ stack \in Seq(FrameType)
    /\ call = NoCall \/ call \in CallType
    /\ gc \in [on : BOOLEAN, used : Nat, pending : Seq(Edges)]

\* The second operand is an edge or a variable, as the operation has it.
OperandFits(op, g) == g \in IF op \in BinaryOps THEN Edges ELSE Vars

\* Only the call on top works; below it, calls wait for the 0- or 1-edges.
ControlInv ==
    /\ \A k \in 1..(Len(stack) - 1) : stack[k].pc \in {"h0", "h1"}
    /\ stack # <<>> => Top.pc \in IF ret = NoRet THEN {"enter", "make", "allocate"}
                                                 ELSE {"h0", "h1"}
    /\ call = NoCall => stack = <<>> /\ ret = NoRet
    /\ call # NoCall /\ stack = <<>> => ret # NoRet
    /\ gc.on => stack # <<>> /\ ret = NoRet /\ Top.pc = "make" /\ Top.h1 # False
    /\ ~gc.on => gc = NoGc

\* What a call holds in each of its states.
FrameInv(fr) ==
    /\ OperandFits(fr.op, fr.g)
    /\ fr.pc = "h0" => OperandFits(fr.op, fr.g1)
    /\ fr.pc \in {"enter", "h0"} => fr.h0 = False
    /\ fr.pc \in {"enter", "h0", "h1"} => fr.h1 = False
    /\ fr.pc # "enter" => fr.v \in Vars
    /\ fr.key <= Len(cache)

FramesInv == \A k \in 1..Len(stack) : FrameInv(stack[k])

\* A free node is blank, and gc1() follows no constant.
FreeInv == FreeIn(node)
PendingInv == \A k \in 1..Len(gc.pending) : ~Cst(gc.pending[k])

(***************************************************************************)
(* The operands of the calls are not counted.  They are reachable from the *)
(* objects, which do not change before the operation ends.                 *)
(***************************************************************************)
OperandsLive(fr) ==
    /\ LiveEdge(fr.f) /\ LiveEdge(fr.f1)
    /\ fr.op \in BinaryOps => LiveEdge(fr.g)
    /\ fr.op \in BinaryOps /\ fr.pc = "h0" => LiveEdge(fr.g1)
OperandsInv == \A k \in 1..Len(stack) : OperandsLive(stack[k])

\* The counts are those of the references.
TallyInv == Tally(node, References)

\* The free list; one node more is free once the table was enlarged or
\* collected.
AvailInv ==
    /\ \A k \in 1..Len(avail) : avail[k] < nodeSpc /\ node[avail[k]].var = 0
    /\ \A n \in Index : node[n].var = 0 /\ n < nodeSpc =>
            \E k \in 1..Len(avail) : avail[k] = n
    /\ \A k, l \in 1..Len(avail) : avail[k] = avail[l] => k = l
    /\ \A n \in Used : n < nodeSpc
    /\ NodeUsed + Len(avail) = nodeSpc
    /\ Len(avail) >= 1
    /\ stack # <<>> /\ Top.pc = "allocate" => Len(avail) >= 2
    /\ gc.on => NodeUsed <= gc.used /\ gc.used < nodeSpc

\* No entry of the cache outlives the nodes it names; the cache is put in
\* order at the end of a collection, if anything was collected.
InTable(f) == Cst(f) \/ node[Ndx(f)].var # 0
EntryInv(e) ==
    /\ InTable(e.f)
    /\ e.op \in BinaryOps => InTable(e.g)
    /\ e.h # Null => InTable(e.h)
Within(f) == Cst(f) \/ Ndx(f) < nodeSpc
EntryWithin(e) ==
    /\ OperandFits(e.op, e.g)
    /\ Within(e.f)
    /\ e.op \in BinaryOps => Within(e.g)
    /\ Within(e.h)
CacheInv ==
    /\ \A k \in 1..Len(cache) : cache[k].op # "NULL" => EntryWithin(cache[k])
    /\ ~gc.on \/ NodeUsed = gc.used =>
        \A k \in 1..Len(cache) : cache[k].op # "NULL" => EntryInv(cache[k])

IInv == /\ TypesInv
        /\ ControlInv
        /\ FramesInv
        /\ FreeInv
        /\ PendingInv
        /\ OperandsInv
        /\ TallyInv
        /\ AvailInv
        /\ CacheInv

\* An entry of the cache.
EntryType == [op : BinaryOps \cup UnaryOps \cup {"NULL"},
              f : Edges, g : Operands, h : Edges \cup {Null}]
-----------------------------------------------------------------------------
\* What the invariant says of the references of a state.
LEMMA StateFacts ==
    ASSUME IInv
    PROVE  /\ node \in TableType
           /\ handle \in [Handles -> Edges \cup {Null}]
           /\ ret \in Values
           /\ stack \in Seq(FrameType)
           /\ gc.pending \in Seq(Edges)
           /\ Sound(node, RefSet(handle, node, stack, gc.pending, ret))
           /\ \A h \in Handles : handle[h] \in Values /\ UsedEdge(node, handle[h])
           /\ UsedEdge(node, ret)
           /\ \A n \in Live : node[n].var # 0
           /\ \A f \in Edges : LiveEdge(f) => UsedEdge(node, f)
<1>1. /\ node \in TableType
      /\ handle \in [Handles -> Edges \cup {Null}]
      /\ ret \in Values
      /\ stack \in Seq(FrameType)
      /\ gc.pending \in Seq(Edges)
    BY DEF IInv, TypesInv, TypeOK, TableType, NodeType, Values
<1>2. Sound(node, RefSet(handle, node, stack, gc.pending, ret))
    BY <1>1, ReferencesSet DEF IInv, FreeInv, TallyInv, Sound
<1>3. \A h \in Handles : handle[h] \in Values /\ UsedEdge(node, handle[h])
    <2>1. ASSUME NEW h \in Handles
          PROVE  handle[h] \in Values /\ UsedEdge(node, handle[h])
        <3>1. <<"handle", h, handle[h]>> \in RefSet(handle, node, stack, gc.pending, ret)
            BY DEF RefSet, HandleRefs
        <3>2. handle[h] \in Values
            BY <1>1 DEF Values
        <3> QED
            BY <1>2, <3>1, <3>2, RefUsed DEF UsedEdge
    <2> QED
        BY <2>1
<1>4. UsedEdge(node, ret)
    <2>1. <<"ret", 0, ret>> \in RefSet(handle, node, stack, gc.pending, ret)
        BY DEF RefSet
    <2> QED
        BY <1>1, <1>2, <2>1, RefUsed DEF UsedEdge
<1>5. \A n \in Live : node[n].var # 0
    <2>1. SameNodes(node, node)
        BY DEF SameNodes
    <2> QED
        BY <1>1, <1>2, <2>1, LiveCounted DEF RefSet
<1>6. \A f \in Edges : LiveEdge(f) => UsedEdge(node, f)
    BY <1>5 DEF LiveEdge, UsedEdge, Counted
<1> QED
    BY <1>1, <1>2, <1>3, <1>4, <1>5, <1>6

\* Of the call on top.
LEMMA TopState ==
    ASSUME IInv, stack # <<>>
    PROVE  /\ Len(stack) \in Nat /\ Len(stack) >= 1
           /\ Top \in FrameType /\ FrameInv(Top) /\ OperandsLive(Top)
           /\ UsedEdge(node, Top.h0) /\ UsedEdge(node, Top.h1)
<1>1. /\ stack \in Seq(FrameType)
      /\ Sound(node, RefSet(handle, node, stack, gc.pending, ret))
    BY StateFacts
<1>2. Len(stack) \in Nat /\ Len(stack) >= 1 /\ Top \in FrameType /\ Len(stack) \in 1..Len(stack)
    BY <1>1, TopFacts DEF Top
<1>3. FrameInv(Top) /\ OperandsLive(Top)
    BY <1>2 DEF IInv, FramesInv, OperandsInv, Top
<1>4. /\ <<"h0", Len(stack), Top.h0>> \in RefSet(handle, node, stack, gc.pending, ret)
      /\ <<"h1", Len(stack), Top.h1>> \in RefSet(handle, node, stack, gc.pending, ret)
    BY <1>2 DEF RefSet, H0Refs, H1Refs, Top
<1>5. Top.h0 \in Values /\ Top.h1 \in Values
    BY <1>2 DEF FrameType, Values
<1>6. UsedEdge(node, Top.h0)
    BY <1>1, <1>4, <1>5, RefUsed DEF UsedEdge
<1>7. UsedEdge(node, Top.h1)
    BY <1>1, <1>4, <1>5, RefUsed DEF UsedEdge
<1> QED
    BY <1>2, <1>3, <1>6, <1>7

\* Both halves of a live node are live.
LEMMA CofactorLive ==
    ASSUME IInv, NEW f \in Edges, LiveEdge(f), ~Cst(f)
    PROVE  /\ Cofactor0(f) \in Edges /\ LiveEdge(Cofactor0(f))
           /\ Cofactor1(f) \in Edges /\ LiveEdge(Cofactor1(f))
           /\ Lev(f) \in Vars
<1> DEFINE n == Ndx(f)
<1>1. n \in Index /\ n \in Live
    BY EdgeFacts DEF LiveEdge
<1>2. node \in TableType /\ node[n].var # 0 /\ LiveEdge(node[n].f0) /\ LiveEdge(node[n].f1)
    BY <1>1, StateFacts, LiveClosed
<1>3. node[n].f0 \in Edges /\ node[n].f1 \in Edges /\ node[n].var \in 0..NumVars
    BY <1>1, <1>2 DEF TableType, NodeType
<1>4. Not(node[n].f0) \in Edges /\ LiveEdge(Not(node[n].f0))
    BY <1>2, <1>3, EdgeFacts DEF LiveEdge
<1>5. Lev(f) \in Vars
    BY <1>2, <1>3, ConstantFacts DEF Lev, Vars
<1> HIDE DEF n
<1> QED
    BY <1>2, <1>3, <1>4, <1>5 DEF Cofactor0, Cofactor1, n

\* The result without a new node is an operand, a half of one or a constant.
LEMMA TrivialFacts ==
    ASSUME IInv, NEW op \in BinaryOps \cup UnaryOps, NEW f \in Edges, NEW g \in Operands,
           OperandFits(op, g), LiveEdge(f), op \in BinaryOps => LiveEdge(g),
           NEW h, h = Trivial(op, f, g)
    PROVE  /\ h # NoRet => h \in Edges /\ LiveEdge(h)
           /\ h = NoRet =>
                /\ op \in BinaryOps => ~Cst(f) /\ ~Cst(g)
                /\ op \in {"OFFSET", "ONSET"} => ~Cst(f)
           /\ ~Cst(f) => Lev(f) \in Vars
           /\ op \in BinaryOps /\ ~Cst(g) => Lev(g) \in Vars
           /\ Cst(f) => Lev(f) = 0
           /\ op \notin BinaryOps => g \in Vars
<1>1. /\ False \in Edges /\ True \in Edges /\ NoRet \notin Edges
      /\ LiveEdge(False) /\ LiveEdge(True)
    BY ConstantFacts, ValueFacts DEF LiveEdge
<1>2. ASSUME NEW e \in Edges, LiveEdge(e)
      PROVE  /\ Not(e) \in Edges /\ LiveEdge(Not(e))
             /\ Abs(e) \in Edges /\ LiveEdge(Abs(e))
             /\ Cst(e) => e = False \/ e = True
    BY EdgeFacts, <1>2 DEF LiveEdge
<1>3. Cst(f) => Lev(f) = 0
    BY DEF Lev
<1>4. ~Cst(f) => Lev(f) \in Vars
    BY CofactorLive
<1>5. CASE op = "INTERSEC"
    <2>1. g \in Edges /\ LiveEdge(g)
        BY <1>5 DEF OperandFits, BinaryOps
    <2>2. h \in {False, True, f, Abs(f), NoRet}
        BY <1>5 DEF Trivial
    <2>3. h = NoRet => f \notin {False, True} /\ g \notin {False, True}
        BY <1>1, <1>2, <1>5 DEF Trivial
    <2>4. ~Cst(g) => Lev(g) \in Vars
        BY <2>1, CofactorLive
    <2> QED
        BY <1>1, <1>2, <1>3, <1>4, <1>5, <2>1, <2>2, <2>3, <2>4 DEF BinaryOps
<1>6. CASE op = "UNION"
    <2>1. g \in Edges /\ LiveEdge(g)
        BY <1>6 DEF OperandFits, BinaryOps
    <2>2. h \in {f, g, Not(f), Not(g), NoRet}
        BY <1>6 DEF Trivial
    <2>3. h = NoRet => f \notin {False, True} /\ g \notin {False, True}
        BY <1>1, <1>2, <1>6, <2>1 DEF Trivial
    <2>4. ~Cst(g) => Lev(g) \in Vars
        BY <2>1, CofactorLive
    <2> QED
        BY <1>1, <1>2, <1>3, <1>4, <1>6, <2>1, <2>2, <2>3, <2>4 DEF BinaryOps
<1>7. CASE op = "SUBTRACT"
    <2>1. g \in Edges /\ LiveEdge(g)
        BY <1>7 DEF OperandFits, BinaryOps
    <2>2. h \in {False, True, f, Abs(f), NoRet}
        BY <1>7 DEF Trivial
    <2>3. h = NoRet => f \notin {False, True} /\ g \notin {False, True}
        BY <1>1, <1>2, <1>7 DEF Trivial
    <2>4. ~Cst(g) => Lev(g) \in Vars
        BY <2>1, CofactorLive
    <2> QED
        BY <1>1, <1>2, <1>3, <1>4, <1>7, <2>1, <2>2, <2>3, <2>4 DEF BinaryOps
<1>8. CASE op \in {"OFFSET", "ONSET"}
    <2>1. g \in Vars /\ op \notin BinaryOps
        BY <1>8 DEF OperandFits, BinaryOps
    <2>2. h \in {False, f, NoRet} \/ (~Cst(f) /\ h \in {Cofactor0(f), Cofactor1(f)})
        BY <1>3, <1>8, <2>1, ConstantFacts DEF Trivial, Vars
    <2>3. h = NoRet => ~Cst(f)
        BY <1>1, <1>3, <1>8, <2>1, ConstantFacts DEF Trivial, Vars
    <2> QED
        BY <1>1, <1>3, <1>4, <1>8, <2>1, <2>2, <2>3, CofactorLive
<1>9. CASE op = "CHANGE"
    <2>1. g \in Vars /\ op \notin BinaryOps
        BY <1>9 DEF OperandFits, BinaryOps
    <2>2. h \in {False, NoRet}
        BY <1>9 DEF Trivial
    <2> QED
        BY <1>1, <1>3, <1>4, <1>9, <2>1, <2>2
<1> QED
    BY <1>5, <1>6, <1>7, <1>8, <1>9 DEF BinaryOps, UnaryOps
-----------------------------------------------------------------------------
(***************************************************************************)
(* Action by action: the counts stay those of the references.              *)
(***************************************************************************)
RefSetNow == RefSet(handle, node, stack, gc.pending, ret)
RefSetNext == RefSet(handle', node', stack', gc'.pending, ret')

LEMMA AssignSound ==
    ASSUME IInv, NEW h \in Handles, NEW f \in Values, UsedEdge(node, f), Assign(h, f)
    PROVE  Sound(node', RefSetNext) /\ SameNodes(node, node')
<1> DEFINE Q == RefSet(handle', node, stack, gc.pending, ret)
<1>1. /\ Sound(node, RefSetNow)
      /\ handle \in [Handles -> Edges \cup {Null}]
      /\ handle[h] \in Values
    BY StateFacts DEF RefSetNow
<1>2. Swaps(RefSetNow, Q, <<"handle", h, handle[h]>>, <<"handle", h, f>>)
    BY <1>1, HandleSlot DEF Assign, Store, RefSetNow
<1>3. <<"handle", h, handle[h]>> # <<"handle", h, f>>
    BY DEF Assign
<1> HIDE DEF Q
<1>4. Sound(Dec(Inc(node, f), handle[h]), Q) /\ SameNodes(node, Dec(Inc(node, f), handle[h]))
    BY <1>1, <1>2, <1>3, SoundChange
<1>5. Sound(node', Q) /\ SameNodes(node, node')
    BY <1>4 DEF Assign, Store
<1>6. RefSetNext = Q
    BY <1>5, SameRefs DEF RefSetNext, Q, Assign
<1> QED
    BY <1>5, <1>6

LEMMA CallSound ==
    ASSUME IInv, NEW op \in BinaryOps \cup UnaryOps, NEW h \in Handles, NEW a \in Handles,
           NEW g \in Handles \cup Vars, Call(op, h, a, g), stack' \in Seq(FrameType)
    PROVE  Sound(node', RefSetNext) /\ SameNodes(node, node')
<1>1. Sound(node, RefSetNow)
    BY StateFacts DEF RefSetNow
<1>2. stack = <<>> /\ ret = NoRet
    BY DEF IInv, ControlInv, Call, Idle
<1>3. SameNodes(node, node) /\ node' = node
    BY DEF SameNodes, Call
<1>4. CASE ret' = Null /\ stack' = stack
    <2>1. Swaps(RefSetNow, RefSetNext, <<"ret", 0, ret>>, <<"ret", 0, ret'>>)
        BY <1>4, RetSlot DEF RefSetNow, RefSetNext, Call
    <2> QED
        BY <1>1, <1>2, <1>3, <1>4, <2>1, SoundMove, ValueFacts DEF Values
<1>5. CASE /\ ret' = ret
           /\ stack' = <<Frame(op, handle[a], IF op \in BinaryOps THEN handle[g] ELSE g)>>
    <2> DEFINE fr == Frame(op, handle[a], IF op \in BinaryOps THEN handle[g] ELSE g)
    <2>1. stack' = <<fr>> /\ fr.h0 = False /\ fr.h1 = False
        BY <1>5 DEF Frame
    <2> HIDE DEF fr
    <2>2. stack' = Append(stack, fr)
        BY <1>2, <2>1
    <2>3. fr \in FrameType
        BY <2>1
    <2>4. stack \in Seq(FrameType)
        BY <1>2
    <2>5. Tally(node, RefSet(handle, node, Append(stack, fr), gc.pending, ret))
        BY <1>1, <2>1, <2>3, <2>4, PushRefs DEF RefSetNow, Sound
    <2> QED
        BY <1>1, <1>3, <1>5, <2>2, <2>5 DEF RefSetNext, Sound, Call
<1> QED
    BY <1>4, <1>5 DEF Call

LEMMA FinishSound ==
    ASSUME IInv, Finish
    PROVE  Sound(node', RefSetNext) /\ SameNodes(node, node')
<1> DEFINE h == call.to
           hd0 == [handle EXCEPT ![h] = False]
           P == gc.pending
           t == Dec(node, handle[h])
<1>1. /\ Sound(node, RefSetNow)
      /\ handle \in [Handles -> Edges \cup {Null}]
      /\ ret \in Values
    BY StateFacts DEF RefSetNow
<1>2. h \in Handles
    BY DEF Finish, IInv, TypesInv, CallType
<1>3. handle[h] \in Values /\ False \in Values /\ ~Counted(False) /\ NoRet \in Values /\ ~Counted(NoRet)
    BY <1>1, <1>2, ValueFacts, ConstantFacts DEF Values
<1>4. Swaps(RefSetNow, RefSet(hd0, node, stack, P, ret),
            <<"handle", h, handle[h]>>, <<"handle", h, False>>)
    BY <1>1, <1>2, HandleSlot DEF RefSetNow
<1>5. hd0 \in [Handles -> Edges \cup {Null}] /\ hd0[h] = False
    BY <1>1, <1>2, ConstantFacts
<1>6. [hd0 EXCEPT ![h] = ret] = handle'
    BY <1>1, <1>2 DEF Finish
<1> HIDE DEF h, P, hd0
<1>7. Sound(t, RefSet(hd0, node, stack, P, ret)) /\ SameNodes(node, t)
    BY <1>1, <1>3, <1>4, SoundGive
<1>8. Swaps(RefSet(hd0, node, stack, P, ret), RefSet(hd0, node, stack, P, NoRet),
            <<"ret", 0, ret>>, <<"ret", 0, NoRet>>)
    BY RetSlot
<1>9. Swaps(RefSet(hd0, node, stack, P, NoRet), RefSet(handle', node, stack, P, NoRet),
            <<"handle", h, False>>, <<"handle", h, ret>>)
    <2>1. Swaps(RefSet(hd0, node, stack, P, NoRet),
                RefSet([hd0 EXCEPT ![h] = ret], node, stack, P, NoRet),
                <<"handle", h, hd0[h]>>, <<"handle", h, ret>>)
        BY <1>2, <1>5, HandleSlot
    <2> QED
        BY <1>5, <1>6, <2>1, Zenon
<1> HIDE DEF t
<1>10. Sound(t, RefSet(handle', node, stack, P, NoRet))
    BY <1>1, <1>3, <1>7, <1>8, <1>9, SoundTwo
<1>11. /\ node' = t /\ stack' = stack /\ gc' = gc /\ ret' = NoRet
    BY DEF Finish, t, h
<1>12. RefSetNext = RefSet(handle', node, stack, P, NoRet)
    BY <1>7, <1>11, SameRefs DEF RefSetNext, P
<1> QED
    BY <1>7, <1>10, <1>11, <1>12

\* The call on top returns r; it holds nothing any more.
LEMMA ReturnSound ==
    ASSUME NEW n, NEW t, NEW s \in Seq(FrameType), s # <<>>, SameNodes(n, t),
           NEW r \in Values, NEW r0 \in Values,
           ~Counted(s[Len(s)].h0), ~Counted(s[Len(s)].h1), ~Counted(r0), UsedEdge(t, r),
           Sound(t, RefSet(handle, n, s, gc.pending, r0)),
           node' = Inc(t, r), stack' = Front(s), ret' = r, handle' = handle,
           gc'.pending = gc.pending
    PROVE  Sound(node', RefSetNext) /\ SameNodes(n, node')
<1>1. Swaps(RefSet(handle, n, s, gc.pending, r0), RefSet(handle, n, s, gc.pending, r),
            <<"ret", 0, r0>>, <<"ret", 0, r>>)
    BY RetSlot
<1>2. Sound(node', RefSet(handle, n, s, gc.pending, r)) /\ SameNodes(t, node')
    BY <1>1, SoundTake
<1>3. SameNodes(n, node')
    BY <1>2, SameTrans
<1>4. RefSet(handle, n, s, gc.pending, r) = RefSet(handle, node', s, gc.pending, r)
    BY <1>3, SameRefs
<1>5. Tally(node', RefSet(handle, node', Front(s), gc.pending, r))
    BY <1>2, <1>4, PopRefs DEF Sound
<1> QED
    BY <1>2, <1>3, <1>5 DEF RefSetNext, Sound

LEMMA InvertedFacts ==
    ASSUME NEW fr, NEW h \in Edges \cup {Null}
    PROVE  /\ Inverted(fr, h) \in Edges \cup {Null}
           /\ Counted(Inverted(fr, h)) <=> Counted(h)
           /\ Counted(h) => Ndx(Inverted(fr, h)) = Ndx(h)
           /\ Inverted(fr, h) = Null <=> h = Null
<1>1. CASE h = Null
    BY <1>1 DEF Inverted
<1>2. CASE h # Null
    <2>1. /\ Not(h) \in Edges /\ Ndx(Not(h)) = Ndx(h) /\ (Cst(Not(h)) <=> Cst(h))
          /\ (Counted(h) <=> ~Cst(h)) /\ (Counted(Not(h)) <=> ~Cst(Not(h)))
          /\ Not(h) # Null
        <3>1. h \in Edges
            BY <1>2
        <3>2. /\ Not(h) \in Edges /\ Ndx(Not(h)) = Ndx(h) /\ (Cst(Not(h)) <=> Cst(h))
              /\ (Counted(h) <=> ~Cst(h))
            BY <3>1, EdgeFacts
        <3>3. Counted(Not(h)) <=> ~Cst(Not(h))
            BY <3>2, EdgeFacts
        <3> QED
            BY <3>2, <3>3, ConstantFacts
    <2> QED
        BY <1>2, <2>1 DEF Inverted
<1> QED
    BY <1>1, <1>2

LEMMA CacheFacts ==
    ASSUME TypesInv
    PROVE  /\ cache \in Seq(EntryType) /\ Len(cache) \in Nat /\ Len(cache) >= 1
           /\ \A k \in 1..Len(cache) : cache[k] \in EntryType
<1>1. cache \in Seq(EntryType) /\ cache # <<>>
    BY DEF TypesInv, TypeOK, EntryType
<1>2. Len(cache) \in Nat /\ Len(cache) >= 1
    BY <1>1
<1>3. \A k \in 1..Len(cache) : cache[k] \in EntryType
    BY <1>1
<1> QED
    BY <1>1, <1>2, <1>3

LEMMA SlotFacts ==
    ASSUME TypesInv, NEW op \in BinaryOps \cup UnaryOps, NEW f \in Edges, NEW g \in Operands
    PROVE  Slot(op, f, g) \in 1..Len(cache)
<1>1. Len(cache) \in Nat /\ Len(cache) >= 1
    BY DEF TypesInv, TypeOK
<1>2. CacheKey(op, f, g) \in Nat
    BY CacheKeyAssumption
<1>3. \A k \in Nat, n \in Nat : n >= 1 => 1 + (k % n) \in 1..n
    OBVIOUS
<1> QED
    BY <1>1, <1>2, <1>3 DEF Slot

\* The operands put in order are the operands.
LEMMA NormalFacts ==
    ASSUME IInv, stack # <<>>, Top.pc = "enter", NEW fr, fr = Normal(Top)
    PROVE  /\ fr \in FrameType /\ FrameInv(fr) /\ OperandsLive(fr)
           /\ fr.op = Top.op /\ fr.pc = "enter" /\ fr.h0 = False /\ fr.h1 = False
           /\ Cst(fr.f) \/ (fr.op \in BinaryOps /\ Cst(fr.g)) =>
                Cst(Top.f) \/ (Top.op \in BinaryOps /\ Cst(Top.g))
           /\ Key(fr) \in 0..Len(cache)
<1>1. Top \in FrameType /\ FrameInv(Top) /\ OperandsLive(Top)
    BY TopState
<1>2. Top.f \in Edges /\ Not(Top.f) \in Edges /\ (Cst(Not(Top.f)) <=> Cst(Top.f))
      /\ Ndx(Not(Top.f)) = Ndx(Top.f)
    BY <1>1, EdgeFacts DEF FrameType
<1>3. /\ fr \in FrameType /\ FrameInv(fr) /\ OperandsLive(fr)
      /\ fr.op = Top.op /\ fr.pc = "enter" /\ fr.h0 = False /\ fr.h1 = False
      /\ Cst(fr.f) \/ (fr.op \in BinaryOps /\ Cst(fr.g)) =>
            Cst(Top.f) \/ (Top.op \in BinaryOps /\ Cst(Top.g))
    <2>1. CASE Top.op \in {"INTERSEC", "UNION"} /\ Top.f < Top.g
        <3>1. fr = [Top EXCEPT !.f = Top.g, !.g = Top.f] /\ Top.op \in BinaryOps
            BY <2>1 DEF Normal, BinaryOps
        <3>2. Top.g \in Edges
            BY <1>1, <3>1 DEF FrameInv, OperandFits
        <3> QED
            BY <1>1, <1>2, <3>1, <3>2 DEF FrameType, FrameInv, OperandsLive, OperandFits, Operands
    <2>2. CASE Top.op \in {"OFFSET", "ONSET"} /\ Neg(Top.f)
        <3>1. fr = [Top EXCEPT !.f = Not(Top.f), !.inv = (Top.op = "OFFSET")]
            BY <2>2 DEF Normal
        <3>2. Top.op \notin BinaryOps
            BY <2>2 DEF BinaryOps
        <3> QED
            BY <1>1, <1>2, <3>1, <3>2 DEF FrameType, FrameInv, OperandsLive, OperandFits, LiveEdge
    <2>3. CASE fr = Top
        BY <1>1, <2>3 DEF FrameInv
    <2> QED
        BY <2>1, <2>2, <2>3 DEF Normal
<1>4. Key(fr) \in 0..Len(cache)
    <2>1. Slot(fr.op, fr.f, fr.g) \in 1..Len(cache)
        BY <1>3, SlotFacts DEF FrameType, IInv
    <2>2. Len(cache) \in Nat
        BY DEF IInv, TypesInv, TypeOK
    <2> QED
        BY <2>1, <2>2 DEF Key
<1> QED
    BY <1>3, <1>4

\* What the cache answers is in the table.
LEMMA HitInTable ==
    ASSUME IInv, ~gc.on, NEW fr \in FrameType, Key(fr) \in 0..Len(cache), Hit(fr),
           NEW h, h = cache[Key(fr)].h
    PROVE  h \in Edges \cup {Null} /\ UsedEdge(node, h)
<1>1. Key(fr) \in 1..Len(cache)
    BY DEF Hit, IInv, TypesInv, TypeOK
<1>2. cache[Key(fr)].op \in BinaryOps \cup UnaryOps /\ h \in Edges \cup {Null}
    <2>1. cache[Key(fr)] \in EntryType
        BY <1>1, CacheFacts DEF IInv
    <2> QED
        BY <2>1 DEF FrameType, EntryType, Hit
<1>3. cache[Key(fr)].op # "NULL"
    BY <1>2 DEF BinaryOps, UnaryOps
<1>4. h # Null => InTable(h)
    BY <1>1, <1>3 DEF IInv, CacheInv, EntryInv
<1> QED
    BY <1>2, <1>4 DEF UsedEdge, InTable, Counted

LEMMA ReturnTrivialSound ==
    ASSUME IInv, ReturnTrivial
    PROVE  Sound(node', RefSetNext) /\ SameNodes(node, node')
<1> DEFINE h == Trivial(Top.op, Top.f, Top.g)
<1>1. /\ Sound(node, RefSetNow) /\ stack \in Seq(FrameType) /\ stack # <<>>
      /\ ret = NoRet /\ SameNodes(node, node)
    BY StateFacts DEF RefSetNow, ReturnTrivial, Running, SameNodes
<1>2. Top \in FrameType /\ FrameInv(Top) /\ OperandsLive(Top) /\ Top.pc = "enter"
    BY <1>1, TopState DEF ReturnTrivial, Running
<1>3. h # NoRet
    BY DEF ReturnTrivial
<1>4. h \in Edges /\ LiveEdge(h)
    <2> HIDE DEF h
    <2>1. h = Trivial(Top.op, Top.f, Top.g)
        BY DEF h
    <2> QED
        BY <1>2, <1>3, <2>1, TrivialFacts DEF FrameType, FrameInv, OperandsLive
<1>5. UsedEdge(node, h)
    BY <1>4, StateFacts
<1>6. node' = Inc(node, h) /\ stack' = Front(stack) /\ ret' = h /\ handle' = handle /\ gc' = gc
    BY DEF ReturnTrivial
<1> HIDE DEF h
<1>7. ~Counted(Top.h0) /\ ~Counted(Top.h1) /\ NoRet \in Values /\ ~Counted(NoRet) /\ h \in Values
    BY <1>2, <1>4, ValueFacts DEF FrameInv, Values
<1> QED
    BY <1>1, <1>5, <1>6, <1>7, ReturnSound DEF RefSetNow, Top

LEMMA ReturnCachedSound ==
    ASSUME IInv, ReturnCached
    PROVE  Sound(node', RefSetNext) /\ SameNodes(node, node')
<1> DEFINE fr == Normal(Top)
           h == cache[Key(fr)].h
           r == Inverted(fr, h)
<1>1. /\ Sound(node, RefSetNow) /\ stack \in Seq(FrameType) /\ stack # <<>>
      /\ ret = NoRet /\ SameNodes(node, node) /\ ~gc.on /\ Top.pc = "enter"
    BY StateFacts DEF RefSetNow, ReturnCached, Running, SameNodes
<1>2. Top \in FrameType /\ FrameInv(Top)
    BY <1>1, TopState
<1>3. /\ node' = Inc(node, h) /\ stack' = Front(stack) /\ ret' = r /\ Hit(fr)
      /\ handle' = handle /\ gc' = gc
    BY DEF ReturnCached
<1> HIDE DEF fr
<1>4. fr \in FrameType /\ Key(fr) \in 0..Len(cache)
    BY <1>1, NormalFacts DEF fr
<1>5. h \in Edges \cup {Null} /\ UsedEdge(node, h)
    BY <1>1, <1>3, <1>4, HitInTable
<1> HIDE DEF h
<1>6. /\ r \in Values /\ UsedEdge(node, r) /\ (Counted(r) <=> Counted(h))
      /\ Counted(r) => Ndx(r) = Ndx(h)
    BY <1>5, InvertedFacts DEF UsedEdge, Values
<1> HIDE DEF r
<1>7. node' = Inc(node, r)
    BY <1>3, <1>6, IncSame
<1>8. ~Counted(Top.h0) /\ ~Counted(Top.h1) /\ NoRet \in Values /\ ~Counted(NoRet)
    BY <1>1, <1>2, ValueFacts DEF FrameInv, Values
<1> QED
    BY <1>1, <1>3, <1>6, <1>7, <1>8, ReturnSound DEF RefSetNow, Top

\* The call on top takes another frame that holds the same,
LEMMA SameTop ==
    ASSUME NEW s \in Seq(FrameType), s # <<>>, NEW fr \in FrameType,
           fr.h0 = s[Len(s)].h0, fr.h1 = s[Len(s)].h1, NEW hd, NEW t, NEW p, NEW r
    PROVE  RefSet(hd, t, [s EXCEPT ![Len(s)] = fr], p, r) = RefSet(hd, t, s, p, r)
<1>1. Swaps(RefSet(hd, t, s, p, r), RefSet(hd, t, [s EXCEPT ![Len(s)] = fr], p, r),
            <<"h0", Len(s), s[Len(s)].h0>>, <<"h0", Len(s), s[Len(s)].h0>>)
    BY H0Slot
<1> QED
    BY <1>1 DEF Swaps

\* takes two references,
LEMMA TakeBoth ==
    ASSUME NEW t, NEW s \in Seq(FrameType), s # <<>>, NEW fr \in FrameType,
           NEW hd, NEW n, NEW p, NEW r, Sound(t, RefSet(hd, n, s, p, r)),
           ~Counted(s[Len(s)].h0), ~Counted(s[Len(s)].h1),
           UsedEdge(t, fr.h0), UsedEdge(t, fr.h1)
    PROVE  /\ Sound(Inc(Inc(t, fr.h0), fr.h1), RefSet(hd, n, [s EXCEPT ![Len(s)] = fr], p, r))
           /\ SameNodes(t, Inc(Inc(t, fr.h0), fr.h1))
<1> DEFINE m == Len(s)
           fr1 == [s[m] EXCEPT !.h0 = fr.h0]
           s1 == [s EXCEPT ![m] = fr1]
           s2 == [s EXCEPT ![m] = fr]
           u == Inc(t, fr.h0)
<1>1. m \in Nat /\ m >= 1 /\ s[m] \in FrameType
    BY TopFacts
<1>2. /\ fr.h0 \in Values /\ fr.h1 \in Values /\ s[m].h0 \in Values /\ s[m].h1 \in Values
      /\ fr1 \in FrameType /\ fr1.h0 = fr.h0 /\ fr1.h1 = s[m].h1
    BY <1>1 DEF FrameType, Values
<1>3. Swaps(RefSet(hd, n, s, p, r), RefSet(hd, n, s1, p, r),
            <<"h0", m, s[m].h0>>, <<"h0", m, fr.h0>>)
    BY <1>2, H0Slot
<1>4. s1 \in Seq(FrameType) /\ s1 # <<>> /\ Len(s1) = m /\ s1[m] = fr1
    BY <1>2, ReplaceFacts
<1>5. [s1 EXCEPT ![m] = fr] = s2
    OBVIOUS
<1> HIDE DEF s1, s2, fr1
<1>6. Swaps(RefSet(hd, n, s1, p, r), RefSet(hd, n, s2, p, r),
            <<"h1", m, s[m].h1>>, <<"h1", m, fr.h1>>)
    <2>1. Swaps(RefSet(hd, n, s1, p, r), RefSet(hd, n, [s1 EXCEPT ![Len(s1)] = fr], p, r),
                <<"h1", Len(s1), s1[Len(s1)].h1>>, <<"h1", Len(s1), fr.h1>>)
        BY <1>2, <1>4, H1Slot
    <2> QED
        BY <1>2, <1>4, <1>5, <2>1
<1>7. Sound(u, RefSet(hd, n, s1, p, r)) /\ SameNodes(t, u)
    BY <1>2, <1>3, SoundTake
<1>8. UsedEdge(u, fr.h1)
    BY <1>2, <1>7, ValueFacts DEF UsedEdge, SameNodes
<1> HIDE DEF u
<1>9. /\ Sound(Inc(u, fr.h1), RefSet(hd, n, s2, p, r))
      /\ SameNodes(u, Inc(u, fr.h1))
    BY <1>2, <1>6, <1>7, <1>8, SoundTake
<1> QED
    BY <1>7, <1>9, SameTrans DEF u, s2

\* or gives up the two it has.
Emptied(s) == [s EXCEPT ![Len(s)] = [@ EXCEPT !.h0 = False, !.h1 = False]]

LEMMA GiveBoth ==
    ASSUME NEW t, NEW s \in Seq(FrameType), s # <<>>,
           NEW hd, NEW n, NEW p, NEW r, Sound(t, RefSet(hd, n, s, p, r)),
           NEW w, w = Dec(Dec(t, s[Len(s)].h0), s[Len(s)].h1)
    PROVE  /\ Sound(w, RefSet(hd, n, Emptied(s), p, r))
           /\ SameNodes(t, w)
<1> DEFINE m == Len(s)
           fr1 == [s[m] EXCEPT !.h0 = False]
           fr == [s[m] EXCEPT !.h0 = False, !.h1 = False]
           s1 == [s EXCEPT ![m] = fr1]
           s2 == [s EXCEPT ![m] = fr]
           u == Dec(t, s[m].h0)
<1>1. m \in Nat /\ m >= 1 /\ s[m] \in FrameType
    BY TopFacts
<1>2. /\ s[m].h0 \in Values /\ s[m].h1 \in Values /\ False \in Values /\ ~Counted(False)
      /\ fr1 \in FrameType /\ fr1.h0 = False /\ fr1.h1 = s[m].h1
      /\ fr \in FrameType /\ fr.h0 = False /\ fr.h1 = False
    BY <1>1, ValueFacts, ConstantFacts DEF FrameType, Values
<1>3. Swaps(RefSet(hd, n, s, p, r), RefSet(hd, n, s1, p, r),
            <<"h0", m, s[m].h0>>, <<"h0", m, False>>)
    BY <1>2, H0Slot
<1>4. s1 \in Seq(FrameType) /\ s1 # <<>> /\ Len(s1) = m /\ s1[m] = fr1
    BY <1>2, ReplaceFacts
<1>5. [s1 EXCEPT ![m] = fr] = s2
    OBVIOUS
<1>6. s2 = Emptied(s)
    BY DEF Emptied
<1> HIDE DEF s1, s2, fr1, fr
<1>7. Swaps(RefSet(hd, n, s1, p, r), RefSet(hd, n, s2, p, r),
            <<"h1", m, s[m].h1>>, <<"h1", m, False>>)
    <2>1. Swaps(RefSet(hd, n, s1, p, r), RefSet(hd, n, [s1 EXCEPT ![Len(s1)] = fr], p, r),
                <<"h1", Len(s1), s1[Len(s1)].h1>>, <<"h1", Len(s1), fr.h1>>)
        BY <1>2, <1>4, H1Slot
    <2> QED
        BY <1>2, <1>4, <1>5, <2>1
<1>8. Sound(u, RefSet(hd, n, s1, p, r)) /\ SameNodes(t, u)
    BY <1>2, <1>3, SoundGive
<1> HIDE DEF u
<1>9. Sound(Dec(u, s[m].h1), RefSet(hd, n, s2, p, r)) /\ SameNodes(u, Dec(u, s[m].h1))
    BY <1>2, <1>7, <1>8, SoundGive
<1> QED
    BY <1>6, <1>8, <1>9, SameTrans DEF u

LEMMA EmptiedFacts ==
    ASSUME NEW s \in Seq(FrameType), s # <<>>
    PROVE  /\ Emptied(s) \in Seq(FrameType) /\ Emptied(s) # <<>>
           /\ Len(Emptied(s)) = Len(s)
           /\ Emptied(s)[Len(s)].h0 = False /\ Emptied(s)[Len(s)].h1 = False
           /\ Front(Emptied(s)) = Front(s)
<1> DEFINE fr == [s[Len(s)] EXCEPT !.h0 = False, !.h1 = False]
<1>1. fr \in FrameType /\ fr.h0 = False /\ fr.h1 = False
    <2>1. s[Len(s)] \in FrameType
        BY TopFacts
    <2> QED
        BY <2>1, ConstantFacts DEF FrameType
<1>2. Emptied(s) = [s EXCEPT ![Len(s)] = fr]
    BY DEF Emptied
<1> HIDE DEF fr
<1>3. /\ [s EXCEPT ![Len(s)] = fr] \in Seq(FrameType)
      /\ [s EXCEPT ![Len(s)] = fr] # <<>>
      /\ Len([s EXCEPT ![Len(s)] = fr]) = Len(s)
      /\ [s EXCEPT ![Len(s)] = fr][Len(s)] = fr
      /\ Front([s EXCEPT ![Len(s)] = fr]) = Front(s)
    BY <1>1, ReplaceFacts
<1> QED
    BY <1>1, <1>2, <1>3
-----------------------------------------------------------------------------
(***************************************************************************)
(* The calls that the steps of apply() leave on the stack.                 *)
(***************************************************************************)
GoodFrame(fr) == fr \in FrameType /\ FrameInv(fr) /\ OperandsLive(fr)

LEMMA NewFrame ==
    ASSUME IInv, NEW op \in BinaryOps \cup UnaryOps, NEW f \in Edges, NEW g,
           OperandFits(op, g), LiveEdge(f), op \in BinaryOps => LiveEdge(g),
           NEW fr, fr = Frame(op, f, g)
    PROVE  GoodFrame(fr) /\ fr.pc = "enter" /\ fr.h0 = False /\ fr.h1 = False
<1>1. False \in Edges /\ Cst(False) /\ 0 \in 0..NumVars
    BY ConstantFacts, ValueFacts
<1>2. g \in Operands
    BY DEF OperandFits, Operands
<1>3. fr = [op |-> op, f |-> f, g |-> g, v |-> 0, f1 |-> False, g1 |-> False,
            h0 |-> False, h1 |-> False, key |-> 0, inv |-> FALSE, pc |-> "enter"]
    BY DEF Frame
<1>4. fr \in FrameType
    BY <1>1, <1>2, <1>3 DEF FrameType, Operands
<1>5. 0 <= Len(cache)
    BY CacheFacts DEF IInv
<1> QED
    BY <1>1, <1>3, <1>4, <1>5 DEF GoodFrame, FrameInv, OperandsLive, LiveEdge

LEMMA CallFacts ==
    ASSUME IInv, NEW op \in BinaryOps \cup UnaryOps, NEW h, NEW a \in Handles,
           NEW g, g \in IF op \in BinaryOps THEN Handles ELSE Vars, Call(op, h, a, g)
    PROVE  /\ stack = <<>> /\ ret = NoRet
           /\ \/ ret' = Null /\ stack' = stack
              \/ ret' = ret /\ \E fr : /\ stack' = <<fr>> /\ GoodFrame(fr) /\ fr.pc = "enter"
                                       /\ fr.h0 = False /\ fr.h1 = False
<1> DEFINE arg == IF op \in BinaryOps THEN handle[g] ELSE g
           fr == Frame(op, handle[a], arg)
<1>1. stack = <<>> /\ ret = NoRet
    BY DEF IInv, ControlInv, Call, Idle
<1>2. CASE handle[a] = Null \/ (op \in BinaryOps /\ arg = Null)
    BY <1>1, <1>2 DEF Call
<1>3. CASE ~(handle[a] = Null \/ (op \in BinaryOps /\ arg = Null))
    <2>1. handle[a] \in Edges /\ LiveEdge(handle[a])
        BY <1>3, StateFacts, LiveClosed
    <2>2. op \in BinaryOps => arg \in Edges /\ LiveEdge(arg)
        BY <1>3, StateFacts, LiveClosed
    <2>3. OperandFits(op, arg)
        BY <2>2 DEF OperandFits
    <2>4. stack' = <<fr>> /\ ret' = ret
        BY <1>3 DEF Call
    <2> HIDE DEF arg
    <2>5. GoodFrame(fr) /\ fr.pc = "enter" /\ fr.h0 = False /\ fr.h1 = False
        BY <2>1, <2>2, <2>3, NewFrame
    <2> QED
        BY <1>1, <2>4, <2>5
<1> QED
    BY <1>2, <1>3

LEMMA ChangeAtTopFacts ==
    ASSUME IInv, ChangeAtTop
    PROVE  \E fr : /\ stack' = Replaced(fr) /\ GoodFrame(fr) /\ fr.pc = "make"
                   /\ node' = Inc(Inc(node, fr.h0), fr.h1)
                   /\ fr.h0 \in Edges /\ LiveEdge(fr.h0) /\ fr.h1 \in Edges /\ LiveEdge(fr.h1)
                   /\ fr.op = "CHANGE" /\ fr.f = Top.f /\ fr.g = Top.g
<1> DEFINE h0 == IF Lev(Top.f) < Top.g THEN False ELSE Cofactor1(Top.f)
           h1 == IF Lev(Top.f) < Top.g THEN Top.f ELSE Cofactor0(Top.f)
           fr == [Top EXCEPT !.v = Top.g, !.h0 = h0, !.h1 = h1, !.pc = "make"]
<1>1. stack # <<>> /\ Top.pc = "enter" /\ Top.op = "CHANGE" /\ Lev(Top.f) <= Top.g
    BY DEF ChangeAtTop, Running, Direct
<1>2. Top \in FrameType /\ FrameInv(Top) /\ OperandsLive(Top)
    BY <1>1, TopState
<1>3. /\ Top.f \in Edges /\ LiveEdge(Top.f) /\ Top.g \in Vars /\ Top.op \notin BinaryOps
      /\ Top.g \in 0..NumVars
    BY <1>1, <1>2, ConstantFacts
        DEF FrameType, FrameInv, OperandFits, OperandsLive, BinaryOps, Vars
<1>4. h0 \in Edges /\ LiveEdge(h0) /\ h1 \in Edges /\ LiveEdge(h1)
    <2>1. CASE Lev(Top.f) < Top.g
        BY <1>3, <2>1, ConstantFacts, ValueFacts DEF LiveEdge
    <2>2. CASE ~(Lev(Top.f) < Top.g)
        <3>1. ~Cst(Top.f)
            BY <1>3, <2>2, ConstantFacts DEF Lev, Vars
        <3> QED
            BY <1>3, <2>2, <3>1, CofactorLive
    <2> QED
        BY <2>1, <2>2
<1>5. stack' = Replaced(fr) /\ node' = Inc(Inc(node, h0), h1)
    BY DEF ChangeAtTop
<1> HIDE DEF h0, h1
<1>6. /\ fr.h0 = h0 /\ fr.h1 = h1 /\ fr.pc = "make" /\ fr.op = Top.op
      /\ fr.f = Top.f /\ fr.g = Top.g
    BY <1>2 DEF FrameType
<1>7. GoodFrame(fr)
    BY <1>1, <1>2, <1>3, <1>4 DEF FrameType, GoodFrame, FrameInv, OperandsLive
<1> HIDE DEF fr
<1> QED
    BY <1>1, <1>4, <1>5, <1>6, <1>7

LEMMA DescendFacts ==
    ASSUME IInv, Descend
    PROVE  \E fr, top : /\ stack' = Append(Replaced(fr), top)
                        /\ GoodFrame(fr) /\ fr.pc = "h0" /\ fr.h0 = False /\ fr.h1 = False
                        /\ GoodFrame(top) /\ top.pc = "enter" /\ top.h0 = False /\ top.h1 = False
<1> DEFINE nf == Normal(Top)
           binary == nf.op \in BinaryOps
           flev == Lev(nf.f)
           glev == IF binary THEN Lev(nf.g) ELSE 0
           f0 == IF flev >= glev THEN Cofactor0(nf.f) ELSE nf.f
           f1 == IF flev >= glev THEN Cofactor1(nf.f) ELSE False
           g0 == IF binary /\ flev <= glev THEN Cofactor0(nf.g) ELSE nf.g
           g1 == IF ~binary THEN nf.g ELSE IF flev <= glev THEN Cofactor1(nf.g) ELSE False
           fr == [nf EXCEPT !.v = IF flev >= glev THEN flev ELSE glev,
                            !.f1 = f1, !.g1 = g1, !.key = Key(nf), !.pc = "h0"]
           top == Frame(nf.op, f0, g0)
<1>1. stack # <<>> /\ Top.pc = "enter" /\ Trivial(Top.op, Top.f, Top.g) = NoRet /\ ~Direct(Top)
    BY DEF Descend, Running
<1>2. Top \in FrameType /\ FrameInv(Top) /\ OperandsLive(Top)
    BY <1>1, TopState
<1>3. ~Cst(Top.f) /\ (Top.op \in BinaryOps => ~Cst(Top.g))
    <2>1. /\ Top.op \in BinaryOps => ~Cst(Top.f) /\ ~Cst(Top.g)
          /\ Top.op \in {"OFFSET", "ONSET"} => ~Cst(Top.f)
          /\ Cst(Top.f) => Lev(Top.f) = 0
          /\ Top.op \notin BinaryOps => Top.g \in Vars
        BY <1>1, <1>2, TrivialFacts DEF FrameType, FrameInv, OperandsLive
    <2>2. Top.op = "CHANGE" => ~Cst(Top.f)
        <3>1. Top.op = "CHANGE" => Top.g \in Vars
            BY <2>1 DEF BinaryOps
        <3> QED
            BY <1>1, <2>1, <3>1, ConstantFacts DEF Direct, Vars
    <2> QED
        BY <1>2, <2>1, <2>2 DEF FrameType, BinaryOps, UnaryOps
<1>4. stack' = Append(Replaced(fr), top)
    BY DEF Descend
<1>5. /\ nf \in FrameType /\ FrameInv(nf) /\ OperandsLive(nf)
      /\ nf.pc = "enter" /\ nf.h0 = False /\ nf.h1 = False
      /\ ~Cst(nf.f) /\ (binary => ~Cst(nf.g)) /\ Key(nf) \in 0..Len(cache)
    BY <1>1, <1>3, NormalFacts
<1> HIDE DEF nf
<1>6. /\ nf.op \in BinaryOps \cup UnaryOps /\ nf.f \in Edges /\ LiveEdge(nf.f)
      /\ binary => nf.g \in Edges /\ LiveEdge(nf.g)
      /\ ~binary => nf.g \in Vars
    BY <1>5 DEF FrameType, FrameInv, OperandFits, OperandsLive
<1>7. flev \in Vars /\ glev \in 0..NumVars
    <2>1. flev \in Vars /\ (binary => Lev(nf.g) \in Vars)
        BY <1>5, <1>6, CofactorLive
    <2> HIDE DEF flev, binary
    <2> QED
        BY <2>1, ConstantFacts DEF Vars
<1>8. f0 \in Edges /\ LiveEdge(f0) /\ f1 \in Edges /\ LiveEdge(f1)
    BY <1>5, <1>6, CofactorLive, ValueFacts, ConstantFacts DEF LiveEdge
<1>9. OperandFits(nf.op, g0) /\ OperandFits(nf.op, g1) /\ (binary => LiveEdge(g0) /\ LiveEdge(g1))
    <2>1. CASE binary
        <3>1. g0 \in Edges /\ LiveEdge(g0) /\ g1 \in Edges /\ LiveEdge(g1)
            BY <1>5, <1>6, <2>1, CofactorLive, ValueFacts, ConstantFacts DEF LiveEdge
        <3> QED
            BY <2>1, <3>1 DEF OperandFits
    <2>2. CASE ~binary
        BY <1>6, <2>2 DEF OperandFits
    <2> QED
        BY <2>1, <2>2
<1>10. (IF flev >= glev THEN flev ELSE glev) \in Vars
    BY <1>7, ConstantFacts DEF Vars
<1> DEFINE v == IF flev >= glev THEN flev ELSE glev
<1> HIDE DEF flev, glev, f0, f1, g0, g1, v
<1>11. GoodFrame(top) /\ top.pc = "enter" /\ top.h0 = False /\ top.h1 = False
    BY <1>6, <1>8, <1>9, NewFrame
<1>12. /\ fr = [nf EXCEPT !.v = v, !.f1 = f1, !.g1 = g1, !.key = Key(nf), !.pc = "h0"]
       /\ v \in Vars
    BY <1>10 DEF v
<1> HIDE DEF fr, top
<1>13. Key(nf) \in Nat /\ Key(nf) <= Len(cache) /\ v \in 0..NumVars
    BY <1>5, <1>12, CacheFacts, ConstantFacts DEF IInv, Vars
<1>14. g1 \in Operands
    BY <1>9 DEF OperandFits, Operands
<1>15. /\ fr.op = nf.op /\ fr.f = nf.f /\ fr.g = nf.g /\ fr.v = v /\ fr.f1 = f1 /\ fr.g1 = g1
       /\ fr.h0 = False /\ fr.h1 = False /\ fr.key = Key(nf) /\ fr.pc = "h0"
       /\ fr \in FrameType
    BY <1>5, <1>8, <1>12, <1>13, <1>14 DEF FrameType
<1>16. GoodFrame(fr)
    BY <1>5, <1>8, <1>9, <1>12, <1>13, <1>15 DEF GoodFrame, FrameInv, OperandsLive
<1> QED
    BY <1>4, <1>11, <1>15, <1>16

LEMMA SecondHalfFacts ==
    ASSUME IInv, SecondHalf
    PROVE  \E fr, top : /\ stack' = Append(Replaced(fr), top)
                        /\ GoodFrame(fr) /\ fr.pc = "h1" /\ fr.h0 = ret /\ fr.h1 = Top.h1
                        /\ GoodFrame(top) /\ top.pc = "enter" /\ top.h0 = False /\ top.h1 = False
                        /\ Top.h0 = False /\ ret \in Edges
<1> DEFINE fr == [Top EXCEPT !.h0 = ret, !.pc = "h1"]
           top == Frame(Top.op, Top.f1, Top.g1)
<1>1. stack # <<>> /\ Top.pc = "h0" /\ ret \in Edges
    BY StateFacts DEF SecondHalf, Resumed, Values
<1>2. Top \in FrameType /\ FrameInv(Top) /\ OperandsLive(Top)
    BY <1>1, TopState
<1>3. stack' = Append(Replaced(fr), top)
    BY DEF SecondHalf
<1>4. GoodFrame(top) /\ top.pc = "enter" /\ top.h0 = False /\ top.h1 = False
    BY <1>1, <1>2, NewFrame DEF FrameType, FrameInv, OperandsLive
<1>5. GoodFrame(fr) /\ fr.pc = "h1" /\ fr.h0 = ret /\ fr.h1 = Top.h1 /\ Top.h0 = False
    BY <1>1, <1>2 DEF FrameType, GoodFrame, FrameInv, OperandsLive
<1> HIDE DEF fr, top
<1> QED
    BY <1>1, <1>3, <1>4, <1>5

LEMMA BothHalvesFacts ==
    ASSUME IInv, BothHalves
    PROVE  \E fr : /\ stack' = Replaced(fr) /\ GoodFrame(fr) /\ fr.pc = "make"
                   /\ fr.h0 = Top.h0 /\ fr.h1 = ret /\ Top.h1 = False /\ ret \in Edges
<1> DEFINE fr == [Top EXCEPT !.h1 = ret, !.pc = "make"]
<1>1. stack # <<>> /\ Top.pc = "h1" /\ ret \in Edges
    BY StateFacts DEF BothHalves, Resumed, Values
<1>2. Top \in FrameType /\ FrameInv(Top) /\ OperandsLive(Top)
    BY <1>1, TopState
<1>3. stack' = Replaced(fr)
    BY DEF BothHalves
<1>4. GoodFrame(fr) /\ fr.pc = "make" /\ fr.h0 = Top.h0 /\ fr.h1 = ret /\ Top.h1 = False
    BY <1>1, <1>2 DEF FrameType, GoodFrame, FrameInv, OperandsLive
<1> HIDE DEF fr
<1> QED
    BY <1>1, <1>3, <1>4
-----------------------------------------------------------------------------
LEMMA ChangeAtTopSound ==
    ASSUME IInv, ChangeAtTop
    PROVE  Sound(node', RefSetNext) /\ SameNodes(node, node')
<1>1. /\ Sound(node, RefSetNow) /\ stack \in Seq(FrameType) /\ stack # <<>>
      /\ Top.pc = "enter"
    BY StateFacts DEF RefSetNow, ChangeAtTop, Running
<1>2. ~Counted(Top.h0) /\ ~Counted(Top.h1)
    BY <1>1, TopState, ValueFacts DEF FrameInv
<1>3. PICK fr : /\ stack' = Replaced(fr) /\ GoodFrame(fr)
                /\ node' = Inc(Inc(node, fr.h0), fr.h1)
                /\ fr.h0 \in Edges /\ LiveEdge(fr.h0) /\ fr.h1 \in Edges /\ LiveEdge(fr.h1)
    BY ChangeAtTopFacts
<1>4. UsedEdge(node, fr.h0) /\ UsedEdge(node, fr.h1)
    BY <1>3, StateFacts
<1>5. /\ Sound(node', RefSet(handle, node, stack', gc.pending, ret))
      /\ SameNodes(node, node')
    BY <1>1, <1>2, <1>3, <1>4, TakeBoth DEF RefSetNow, GoodFrame, Top, Replaced
<1>6. handle' = handle /\ gc' = gc /\ ret' = ret
    BY DEF ChangeAtTop
<1> QED
    BY <1>5, <1>6, SameRefs DEF RefSetNext

LEMMA DescendSound ==
    ASSUME IInv, Descend
    PROVE  Sound(node', RefSetNext) /\ SameNodes(node, node')
<1>1. /\ Sound(node, RefSetNow) /\ stack \in Seq(FrameType) /\ stack # <<>>
      /\ Top.pc = "enter" /\ SameNodes(node, node)
    BY StateFacts DEF RefSetNow, Descend, Running, SameNodes
<1>2. Top.h0 = False /\ Top.h1 = False
    BY <1>1, TopState DEF FrameInv
<1>3. PICK fr, top : /\ stack' = Append(Replaced(fr), top)
                     /\ GoodFrame(fr) /\ fr.h0 = False /\ fr.h1 = False
                     /\ GoodFrame(top) /\ top.h0 = False /\ top.h1 = False
    BY DescendFacts
<1>4. RefSet(handle, node, Replaced(fr), gc.pending, ret) = RefSetNow
    BY <1>1, <1>2, <1>3, SameTop DEF RefSetNow, GoodFrame, Top, Replaced
<1>5. Replaced(fr) \in Seq(FrameType)
    BY <1>1, <1>3, ReplaceFacts DEF Replaced, GoodFrame
<1>6. Tally(node, RefSet(handle, node, Append(Replaced(fr), top), gc.pending, ret))
    BY <1>1, <1>3, <1>4, <1>5, PushRefs DEF Sound, GoodFrame
<1>7. node' = node /\ handle' = handle /\ gc' = gc /\ ret' = ret
    BY DEF Descend
<1> QED
    BY <1>1, <1>3, <1>6, <1>7 DEF RefSetNext, Sound

LEMMA SecondHalfSound ==
    ASSUME IInv, SecondHalf
    PROVE  Sound(node', RefSetNext) /\ SameNodes(node, node')
<1> DEFINE P == gc.pending
<1>1. /\ Sound(node, RefSetNow) /\ stack \in Seq(FrameType) /\ stack # <<>>
      /\ SameNodes(node, node)
    BY StateFacts DEF RefSetNow, SecondHalf, Resumed, SameNodes
<1>2. PICK fr, top : /\ stack' = Append(Replaced(fr), top)
                     /\ GoodFrame(fr) /\ fr.h0 = ret /\ fr.h1 = Top.h1
                     /\ GoodFrame(top) /\ top.h0 = False /\ top.h1 = False
                     /\ Top.h0 = False /\ ret \in Edges
    BY SecondHalfFacts
<1>3. Swaps(RefSetNow, RefSet(handle, node, stack, P, NoRet),
            <<"ret", 0, ret>>, <<"ret", 0, NoRet>>)
    BY RetSlot DEF RefSetNow
<1>4. Swaps(RefSet(handle, node, stack, P, NoRet), RefSet(handle, node, Replaced(fr), P, NoRet),
            <<"h0", Len(stack), False>>, <<"h0", Len(stack), ret>>)
    <2>1. Swaps(RefSet(handle, node, stack, P, NoRet), RefSet(handle, node, Replaced(fr), P, NoRet),
                <<"h0", Len(stack), Top.h0>>, <<"h0", Len(stack), fr.h0>>)
        BY <1>1, <1>2, H0Slot DEF GoodFrame, Top, Replaced
    <2> QED
        BY <1>2, <2>1
<1>5. ret \in Values /\ NoRet \in Values /\ False \in Values /\ ~Counted(NoRet) /\ ~Counted(False)
    BY <1>2, ConstantFacts, ValueFacts DEF Values
<1>6. Sound(node, RefSet(handle, node, Replaced(fr), P, NoRet))
    BY <1>1, <1>3, <1>4, <1>5, SoundTwo
<1>7. Replaced(fr) \in Seq(FrameType)
    BY <1>1, <1>2, ReplaceFacts DEF Replaced, GoodFrame
<1>8. Tally(node, RefSet(handle, node, Append(Replaced(fr), top), P, NoRet))
    BY <1>1, <1>2, <1>6, <1>7, PushRefs DEF Sound, GoodFrame
<1>9. node' = node /\ handle' = handle /\ gc' = gc /\ ret' = NoRet
    BY DEF SecondHalf
<1> QED
    BY <1>1, <1>2, <1>8, <1>9 DEF RefSetNext, Sound

LEMMA BothHalvesSound ==
    ASSUME IInv, BothHalves
    PROVE  Sound(node', RefSetNext) /\ SameNodes(node, node')
<1> DEFINE P == gc.pending
<1>1. /\ Sound(node, RefSetNow) /\ stack \in Seq(FrameType) /\ stack # <<>>
      /\ SameNodes(node, node)
    BY StateFacts DEF RefSetNow, BothHalves, Resumed, SameNodes
<1>2. PICK fr : /\ stack' = Replaced(fr) /\ GoodFrame(fr)
                /\ fr.h0 = Top.h0 /\ fr.h1 = ret /\ Top.h1 = False /\ ret \in Edges
    BY BothHalvesFacts
<1>3. Swaps(RefSetNow, RefSet(handle, node, stack, P, NoRet),
            <<"ret", 0, ret>>, <<"ret", 0, NoRet>>)
    BY RetSlot DEF RefSetNow
<1>4. Swaps(RefSet(handle, node, stack, P, NoRet), RefSet(handle, node, stack', P, NoRet),
            <<"h1", Len(stack), False>>, <<"h1", Len(stack), ret>>)
    <2>1. Swaps(RefSet(handle, node, stack, P, NoRet), RefSet(handle, node, Replaced(fr), P, NoRet),
                <<"h1", Len(stack), Top.h1>>, <<"h1", Len(stack), fr.h1>>)
        BY <1>1, <1>2, H1Slot DEF GoodFrame, Top, Replaced
    <2> QED
        BY <1>2, <2>1
<1>5. ret \in Values /\ NoRet \in Values /\ False \in Values /\ ~Counted(NoRet) /\ ~Counted(False)
    BY <1>2, ConstantFacts, ValueFacts DEF Values
<1>6. Sound(node, RefSet(handle, node, stack', P, NoRet))
    BY <1>1, <1>3, <1>4, <1>5, SoundTwo
<1>7. node' = node /\ handle' = handle /\ gc' = gc /\ ret' = NoRet
    BY DEF BothHalves
<1> QED
    BY <1>1, <1>6, <1>7 DEF RefSetNext

LEMMA EliminateSound ==
    ASSUME IInv, Eliminate
    PROVE  Sound(node', RefSetNext) /\ SameNodes(node, node')
<1> DEFINE P == gc.pending
           fr == [Top EXCEPT !.h0 = False]
           s1 == Replaced(fr)
           r == Inverted(Top, Top.h0)
<1>1. /\ Sound(node, RefSetNow) /\ stack \in Seq(FrameType) /\ stack # <<>>
      /\ SameNodes(node, node) /\ ret = NoRet /\ Top.h1 = False
    BY StateFacts DEF RefSetNow, Eliminate, Running, SameNodes
<1>2. /\ Top \in FrameType /\ Top.h0 \in Edges /\ False \in Edges /\ ~Counted(False)
      /\ NoRet \in Values /\ ~Counted(NoRet) /\ False \in Values /\ Top.h0 \in Values
    BY <1>1, TopState, ConstantFacts, ValueFacts DEF FrameType, Values
<1>3. fr \in FrameType /\ fr.h0 = False /\ fr.h1 = Top.h1
    BY <1>2 DEF FrameType
<1>4. /\ r \in Values /\ (Counted(r) <=> Counted(Top.h0))
      /\ Counted(Top.h0) => Ndx(Top.h0) = Ndx(r)
    BY <1>2, InvertedFacts DEF Values
<1>5. Swaps(RefSetNow, RefSet(handle, node, s1, P, NoRet),
            <<"h0", Len(stack), Top.h0>>, <<"h0", Len(stack), False>>)
    <2> HIDE DEF fr
    <2> QED
        BY <1>1, <1>3, H0Slot DEF RefSetNow, Top, Replaced
<1>6. /\ s1 \in Seq(FrameType) /\ s1 # <<>> /\ Len(s1) = Len(stack) /\ s1[Len(s1)] = fr
      /\ Front(s1) = Front(stack)
    <2> HIDE DEF fr
    <2> QED
        BY <1>1, <1>3, ReplaceFacts DEF Replaced
<1> HIDE DEF fr, s1, r
<1>7. Swaps(RefSet(handle, node, s1, P, NoRet), RefSet(handle, node, s1, P, r),
            <<"ret", 0, NoRet>>, <<"ret", 0, r>>)
    BY RetSlot
<1>8. Sound(node, RefSet(handle, node, s1, P, r))
    BY <1>1, <1>2, <1>4, <1>5, <1>7, SoundTwo
<1>9. Tally(node, RefSet(handle, node, Front(s1), P, r))
    BY <1>1, <1>2, <1>3, <1>6, <1>8, PopRefs DEF Sound
<1>10. node' = node /\ handle' = handle /\ gc' = gc /\ ret' = r /\ stack' = Front(stack)
    BY DEF Eliminate, Return, r
<1> QED
    BY <1>1, <1>6, <1>9, <1>10 DEF RefSetNext, Sound

LEMMA OverflowSound ==
    ASSUME IInv, Overflow
    PROVE  Sound(node', RefSetNext) /\ SameNodes(node, node')
<1>1. /\ Sound(node, RefSetNow) /\ stack \in Seq(FrameType) /\ stack # <<>>
      /\ SameNodes(node, node) /\ ret = Null
    BY StateFacts DEF RefSetNow, Overflow, Resumed, SameNodes
<1>2. /\ ret' = Null /\ stack' = Front(stack) /\ handle' = handle /\ gc' = gc
      /\ Null \in Values /\ ~Counted(Null)
    BY ValueFacts DEF Overflow, Return, Inverted, Values
<1>3. Top \in FrameType /\ FrameInv(Top) /\ ~Counted(False)
    BY <1>1, TopState, ValueFacts
<1>4. CASE Top.pc = "h0" /\ node' = node
    <2>1. ~Counted(Top.h0) /\ ~Counted(Top.h1)
        BY <1>3, <1>4 DEF FrameInv
    <2>2. node' = Inc(node, Null) /\ UsedEdge(node, Null)
        BY <1>2, <1>4 DEF Inc, UsedEdge
    <2> QED
        BY <1>1, <1>2, <2>1, <2>2, ReturnSound DEF RefSetNow, Top
<1>5. CASE Top.pc = "h1" /\ node' = Dec(node, Top.h0)
    <2>1. Top.h1 = False
        BY <1>3, <1>5 DEF FrameInv
    <2>2. Dec(Dec(node, Top.h0), Top.h1) = node'
        BY <1>3, <1>5, <2>1 DEF Dec
    <2>3. /\ Sound(node', RefSet(handle, node, Emptied(stack), gc.pending, ret))
          /\ SameNodes(node, node')
        BY <1>1, <2>2, GiveBoth DEF RefSetNow, Top
    <2>4. node' = Inc(node', Null) /\ UsedEdge(node', Null)
        BY <1>2 DEF Inc, UsedEdge
    <2>5. /\ Emptied(stack) \in Seq(FrameType) /\ Emptied(stack) # <<>>
          /\ ~Counted(Emptied(stack)[Len(Emptied(stack))].h0)
          /\ ~Counted(Emptied(stack)[Len(Emptied(stack))].h1)
          /\ stack' = Front(Emptied(stack))
        BY <1>1, <1>2, <1>3, EmptiedFacts
    <2> QED
        BY <1>1, <1>2, <2>3, <2>4, <2>5, ReturnSound
<1> QED
    BY <1>4, <1>5 DEF Overflow, Resumed

LEMMA ShareSound ==
    ASSUME IInv, Share
    PROVE  Sound(node', RefSetNext) /\ SameNodes(node, node')
<1>1. /\ Sound(node, RefSetNow) /\ stack \in Seq(FrameType) /\ stack # <<>> /\ ret = NoRet
    BY StateFacts DEF RefSetNow, Share, Running
<1>2. PICK n \in Equivalent : /\ node' = Inc(Dec(Dec(node, Top.h0), Top.h1), 2 * n)
                              /\ Return(Top, NodeEdge(n))
    BY DEF Share
<1> DEFINE t == Dec(Dec(node, Top.h0), Top.h1)
           r == Inverted(Top, NodeEdge(n))
<1>3. n \in Index /\ node[n].var # 0
    BY DEF Equivalent, Used
<1>4. /\ NodeEdge(n) \in Edges /\ Ndx(NodeEdge(n)) = n /\ Counted(NodeEdge(n))
      /\ Counted(2 * n) /\ Ndx(2 * n) = n
    BY <1>3, NodeEdgeFacts, EdgeFacts DEF NodeEdge
<1>5. r \in Values /\ Counted(r) /\ Ndx(r) = n
    BY <1>4, InvertedFacts DEF Values
<1>6. /\ Sound(t, RefSet(handle, node, Emptied(stack), gc.pending, NoRet))
      /\ SameNodes(node, t)
    BY <1>1, GiveBoth DEF RefSetNow, Top
<1>7. node' = Inc(t, 2 * n) /\ ret' = r /\ stack' = Front(stack) /\ handle' = handle /\ gc' = gc
    BY <1>2 DEF Share, Return
<1> HIDE DEF t, r
<1>8. node' = Inc(t, r)
    BY <1>4, <1>5, <1>7, IncSame
<1>9. UsedEdge(t, r)
    BY <1>3, <1>5, <1>6 DEF UsedEdge, SameNodes
<1>10. /\ Emptied(stack) \in Seq(FrameType) /\ Emptied(stack) # <<>>
       /\ ~Counted(Emptied(stack)[Len(Emptied(stack))].h0)
       /\ ~Counted(Emptied(stack)[Len(Emptied(stack))].h1)
       /\ stack' = Front(Emptied(stack))
    BY <1>1, <1>7, EmptiedFacts, ValueFacts
<1>11. NoRet \in Values /\ ~Counted(NoRet)
    BY ValueFacts DEF Values
<1> QED
    BY <1>5, <1>6, <1>7, <1>8, <1>9, <1>10, <1>11, ReturnSound

LEMMA NodeTableOverflowSound ==
    ASSUME IInv, NodeTableOverflow
    PROVE  Sound(node', RefSetNext) /\ SameNodes(node, node')
<1>1. /\ Sound(node, RefSetNow) /\ stack \in Seq(FrameType) /\ stack # <<>> /\ ret = NoRet
      /\ gc.pending = <<>>
    BY StateFacts DEF RefSetNow, NodeTableOverflow, Scanned, IInv, ControlInv
<1>2. /\ Sound(node', RefSet(handle, node, Emptied(stack), gc.pending, NoRet))
      /\ SameNodes(node, node')
    <2>1. node' = Dec(Dec(node, Top.h0), Top.h1)
        BY DEF NodeTableOverflow
    <2> QED
        BY <1>1, <2>1, GiveBoth DEF RefSetNow, Top
<1>3. ret' = Null /\ stack' = Front(stack) /\ handle' = handle /\ gc'.pending = gc.pending
    BY <1>1 DEF NodeTableOverflow, Return, Inverted, NoGc
<1>4. /\ NoRet \in Values /\ ~Counted(NoRet) /\ Null \in Values
      /\ node' = Inc(node', Null) /\ UsedEdge(node', Null)
    BY ValueFacts DEF Values, Inc, UsedEdge
<1>5. /\ Emptied(stack) \in Seq(FrameType) /\ Emptied(stack) # <<>>
      /\ ~Counted(Emptied(stack)[Len(Emptied(stack))].h0)
      /\ ~Counted(Emptied(stack)[Len(Emptied(stack))].h1)
      /\ stack' = Front(Emptied(stack))
    BY <1>1, <1>3, EmptiedFacts, ValueFacts
<1> QED
    BY <1>2, <1>3, <1>4, <1>5, ReturnSound

\* Only the state of the call on top changes.
LEMMA TopPcSound ==
    ASSUME IInv, stack # <<>>, stack' = Replaced([Top EXCEPT !.pc = "allocate"]),
           node' = node, handle' = handle, ret' = ret, gc'.pending = gc.pending
    PROVE  Sound(node', RefSetNext) /\ SameNodes(node, node')
<1> DEFINE fr == [Top EXCEPT !.pc = "allocate"]
<1>1. Sound(node, RefSetNow) /\ stack \in Seq(FrameType) /\ SameNodes(node, node)
    BY StateFacts DEF RefSetNow, SameNodes
<1>2. Top \in FrameType
    BY TopState
<1>3. fr \in FrameType /\ fr.h0 = Top.h0 /\ fr.h1 = Top.h1
    BY <1>2 DEF FrameType
<1> HIDE DEF fr
<1>4. RefSet(handle, node, Replaced(fr), gc.pending, ret) = RefSetNow
    <2>1. fr.h0 = stack[Len(stack)].h0 /\ fr.h1 = stack[Len(stack)].h1
        BY <1>3 DEF Top
    <2>2. RefSet(handle, node, [stack EXCEPT ![Len(stack)] = fr], gc.pending, ret)
            = RefSet(handle, node, stack, gc.pending, ret)
        BY <1>1, <1>3, <2>1, SameTop
    <2> QED
        BY <2>2 DEF RefSetNow, Replaced
<1> QED
    BY <1>1, <1>4 DEF RefSetNext, fr

\* The free list has a node for getnode().
LEMMA HeadFree ==
    ASSUME IInv
    PROVE  /\ avail \in Seq(Index) /\ Len(avail) \in Nat /\ Len(avail) >= 1
           /\ Head(avail) = avail[1] /\ Head(avail) \in Index
           /\ node[Head(avail)].var = 0 /\ Head(avail) < nodeSpc
<1>1. avail \in Seq(Index) /\ Len(avail) \in Nat /\ Len(avail) >= 1 /\ 1 \in 1..Len(avail)
    BY DEF IInv, TypesInv, TypeOK, AvailInv
<1>2. Head(avail) = avail[1] /\ Head(avail) \in Index
    BY <1>1
<1> QED
    BY <1>1, <1>2 DEF IInv, AvailInv

LEMMA StoredFacts ==
    ASSUME Top.h0 \in Edges
    PROVE  /\ Stored0 \in Edges
           /\ Counted(Stored0) <=> Counted(Top.h0)
           /\ Counted(Stored0) => Ndx(Stored0) = Ndx(Top.h0)
           /\ Neg(Stored0)
BY EdgeFacts DEF Stored0

\* Who may take a new node.
LEMMA AllocateTop ==
    ASSUME IInv, Allocate
    PROVE  /\ stack # <<>> /\ ret = NoRet /\ ~gc.on /\ Top.pc \in {"make", "allocate"}
           /\ Top \in FrameType /\ Top.v \in Vars /\ Top.h0 \in Edges /\ Top.h1 \in Edges
<1>1. stack # <<>> /\ ret = NoRet /\ ~gc.on /\ Top.pc \in {"make", "allocate"}
    BY DEF Allocate, NewNeeded, Running
<1>2. Top \in FrameType /\ FrameInv(Top)
    BY <1>1, TopState
<1> QED
    BY <1>1, <1>2 DEF FrameType, FrameInv

LEMMA AllocateStep ==
    ASSUME IInv, Allocate
    PROVE  /\ Sound(node', RefSetNext)
           /\ \A n \in Index \ {Head(avail)} :
                /\ node'[n].var = node[n].var
                /\ node'[n].f0 = node[n].f0 /\ node'[n].f1 = node[n].f1
           /\ node'[Head(avail)].var # 0
<1> DEFINE a == Head(avail)
           u == [node EXCEPT ![a] = [var |-> Top.v, rfc |-> 0, f0 |-> Stored0, f1 |-> Top.h1]]
           r == Inverted(Top, NodeEdge(a))
           fr == [Top EXCEPT !.h0 = False, !.h1 = False]
<1>1. /\ Sound(node, RefSetNow) /\ stack \in Seq(FrameType) /\ stack # <<>> /\ ret = NoRet
      /\ node \in TableType
    BY StateFacts, AllocateTop DEF RefSetNow
<1>2. Top \in FrameType /\ Top.v \in Vars /\ Top.h0 \in Edges /\ Top.h1 \in Edges
    BY AllocateTop
<1>3. a \in Index /\ node[a].var = 0
    BY HeadFree
<1>4. /\ NodeEdge(a) \in Edges /\ Ndx(NodeEdge(a)) = a /\ Counted(NodeEdge(a))
    BY <1>3, NodeEdgeFacts, EdgeFacts DEF NodeEdge
<1>5. r \in Values /\ Counted(r) /\ Ndx(r) = a
    BY <1>4, InvertedFacts DEF Values
<1>6. fr \in FrameType /\ fr.h0 = False /\ fr.h1 = False
    BY <1>2, ConstantFacts DEF FrameType
<1>7. Emptied(stack) = [stack EXCEPT ![Len(stack)] = fr]
    BY DEF Emptied, Top
<1>8. /\ node' = [node EXCEPT ![a] = [var |-> Top.v, rfc |-> 1, f0 |-> Stored0, f1 |-> Top.h1]]
      /\ ret' = r /\ stack' = Front(stack) /\ handle' = handle /\ gc' = gc
    BY DEF Allocate, Return
<1>9. u[a].var # 0 /\ u[a].rfc = 0
    BY <1>1, <1>2, <1>3, ConstantFacts DEF TableType, Vars
<1>10. Inc(u, r) = node'
    <2>1. Inc(u, r) = [u EXCEPT ![a].rfc = @ + 1]
        BY <1>5 DEF Inc
    <2>2. a \in DOMAIN node
        BY <1>1, <1>3 DEF TableType
    <2> QED
        BY <1>8, <2>1, <2>2
<1> HIDE DEF fr, a, r
<1>11. /\ Sound(u, RefSet(handle, u, [stack EXCEPT ![Len(stack)] = fr], gc.pending, NoRet))
       /\ \A k \in Index \ {a} : u[k] = node[k]
    <2>1. /\ Counted(Stored0) <=> Counted(stack[Len(stack)].h0)
          /\ Counted(Stored0) => Ndx(Stored0) = Ndx(stack[Len(stack)].h0)
          /\ Stored0 \in Edges
        BY <1>2, StoredFacts DEF Top
    <2>2. u = [node EXCEPT ![a] = [var |-> Top.v, rfc |-> 0, f0 |-> Stored0,
                                   f1 |-> stack[Len(stack)].h1]]
        BY DEF Top
    <2>3. Sound(node, RefSet(handle, node, stack, gc.pending, NoRet))
        BY <1>1 DEF RefSetNow
    <2> HIDE DEF u
    <2>4. NodeTakesOver(handle, node, stack, gc.pending, NoRet, a, Top.v, Stored0, fr, u)
        BY <1>1, <1>2, <1>3, <1>6, <2>1, <2>2, <2>3 DEF NodeTakesOver
    <2> QED
        BY <2>4, NewNodeSound
<1> HIDE DEF u
<1>12. /\ Emptied(stack) \in Seq(FrameType) /\ Emptied(stack) # <<>>
       /\ ~Counted(Emptied(stack)[Len(Emptied(stack))].h0)
       /\ ~Counted(Emptied(stack)[Len(Emptied(stack))].h1)
       /\ stack' = Front(Emptied(stack))
    BY <1>1, <1>8, EmptiedFacts, ValueFacts
<1>13. /\ NoRet \in Values /\ ~Counted(NoRet) /\ SameNodes(u, u) /\ UsedEdge(u, r)
    BY <1>5, <1>9, ValueFacts DEF Values, SameNodes, UsedEdge
<1>14. Sound(node', RefSetNext) /\ SameNodes(u, node')
    BY <1>5, <1>7, <1>8, <1>10, <1>11, <1>12, <1>13, ReturnSound
<1>15. \A n \in Index \ {a} : /\ node'[n].var = node[n].var
                              /\ node'[n].f0 = node[n].f0 /\ node'[n].f1 = node[n].f1
    BY <1>11, <1>14 DEF SameNodes
<1>16. node'[a].var # 0
    BY <1>3, <1>9, <1>14 DEF SameNodes, a
<1> QED
    BY <1>14, <1>15, <1>16 DEF a

\* A collection: n is the node given back and t the table before that, the
\* edge to n being taken off.
CollectsFrom(t, n, rest) ==
    /\ SameNodes(node, t) /\ n \in UsedIn(t) /\ t[n].rfc = 0
    /\ rest \in Seq(Edges) /\ \A k \in 1..Len(rest) : ~Cst(rest[k])
    /\ Sound(t, RefSet(handle, t, stack, rest, ret))
    /\ Collect(t, n, rest)
    /\ UNCHANGED <<nodeSpc, cache, handle, call, stack, ret>>

LEMMA CollectStep ==
    ASSUME NEW t, NEW n, NEW rest, CollectsFrom(t, n, rest), gc \in [on : BOOLEAN, used : Nat, pending : Seq(Edges)]
    PROVE  /\ Sound(node', RefSetNext)
           /\ \A k \in Index \ {n} : node'[k].var = node[k].var
                    /\ node'[k].f0 = node[k].f0 /\ node'[k].f1 = node[k].f1
           /\ gc'.pending \in Seq(Edges)
           /\ \A k \in 1..Len(gc'.pending) : ~Cst(gc'.pending[k])
           /\ n \in Used /\ node'[n].var = 0
<1> DEFINE w == Followed(t[n].f0) \o Followed(t[n].f1) \o rest
<1>1. node' = [t EXCEPT ![n] = FreeNode] /\ gc'.pending = w
    BY DEF CollectsFrom, Collect
<1>2. /\ w \in Seq(Edges) /\ \A k \in 1..Len(w) : ~Cst(w[k])
      /\ Sound(node', RefSet(handle, node', stack, w, ret))
    <2> HIDE DEF w
    <2>1. w = Followed(t[n].f0) \o Followed(t[n].f1) \o rest
        BY DEF w
    <2> QED
        BY <1>1, <2>1, CollectSound DEF CollectsFrom
<1>3. t \in TableType /\ n \in Index
    BY DEF CollectsFrom, Sound, UsedIn
<1>4. \A k \in Index \ {n} : node'[k] = t[k]
    BY <1>1, <1>3 DEF TableType
<1>5. node'[n].var = 0
    BY <1>1, <1>3 DEF TableType, FreeNode
<1>6. n \in Used
    BY DEF CollectsFrom, UsedIn, Used, SameNodes
<1>7. handle' = handle /\ stack' = stack /\ ret' = ret
    BY DEF CollectsFrom
<1> HIDE DEF w
<1>8. Sound(node', RefSetNext)
    BY <1>1, <1>2, <1>7 DEF RefSetNext
<1>9. \A k \in Index \ {n} : node'[k].var = node[k].var
                    /\ node'[k].f0 = node[k].f0 /\ node'[k].f1 = node[k].f1
    BY <1>4 DEF CollectsFrom, SameNodes
<1> QED
    BY <1>1, <1>2, <1>5, <1>6, <1>8, <1>9

LEMMA ScanCollects ==
    ASSUME IInv, Scan
    PROVE  \E n : CollectsFrom(node, n, <<>>)
<1> DEFINE n == Min(Collectable)
<1>1. n \in Collectable
    <2>1. Collectable \in SUBSET Nat
        BY NodeEdgeFacts DEF Collectable, Used
    <2>2. PICK x \in Collectable : \A y \in Collectable : x <= y
        BY <2>1, LeastElement DEF Scan
    <2> QED
        BY <2>2 DEF Min
<1>2. gc.pending = <<>> /\ Collect(node, n, <<>>)
    BY DEF Scan
<1> HIDE DEF n
<1>3. n \in UsedIn(node) /\ node[n].rfc = 0 /\ SameNodes(node, node)
    BY <1>1 DEF Collectable, Used, UsedIn, SameNodes
<1>4. <<>> \in Seq(Edges) /\ \A k \in 1..Len(<<>>) : ~Cst(<<>>[k])
    OBVIOUS
<1>5. Sound(node, RefSet(handle, node, stack, <<>>, ret))
    BY <1>2, StateFacts, Zenon
<1>6. UNCHANGED <<nodeSpc, cache, handle, call, stack, ret>>
    BY DEF Scan
<1> QED
    BY <1>2, <1>3, <1>4, <1>5, <1>6 DEF CollectsFrom

LEMMA FollowEdgeCollects ==
    ASSUME IInv, FollowEdge
    PROVE  \/ \E t, n, rest : CollectsFrom(t, n, rest)
           \/ /\ Sound(node', RefSetNext) /\ SameNodes(node, node')
              /\ gc' = [gc EXCEPT !.pending = Tail(@)] /\ avail' = avail
              /\ gc'.pending \in Seq(Edges)
              /\ \A k \in 1..Len(gc'.pending) : ~Cst(gc'.pending[k])
<1> DEFINE f == Head(gc.pending)
           rest == Tail(gc.pending)
           t == Dec(node, f)
           q == <<"pending", Len(rest), f>>
           n == Ndx(f)
<1>1. /\ Sound(node, RefSetNow) /\ gc.pending \in Seq(Edges) /\ gc.pending # <<>>
      /\ \A k \in 1..Len(gc.pending) : ~Cst(gc.pending[k])
    BY StateFacts DEF RefSetNow, FollowEdge, IInv, PendingInv
<1>2. /\ f \in Edges /\ f = gc.pending[1] /\ rest \in Seq(Edges)
      /\ \A k \in 1..Len(rest) : k + 1 \in 1..Len(gc.pending) /\ rest[k] = gc.pending[k + 1]
      /\ q \in PendingRefs(gc.pending)
      /\ PendingRefs(rest) = PendingRefs(gc.pending) \ {q}
    BY <1>1, PendingTail
<1>3. ~Cst(f) /\ \A k \in 1..Len(rest) : ~Cst(rest[k])
    <2>1. 1 \in 1..Len(gc.pending)
        BY <1>1
    <2> QED
        BY <1>1, <1>2, <2>1
<1>4. UNCHANGED <<nodeSpc, cache, handle, call, stack, ret>>
    BY DEF FollowEdge
<1>5. \/ t[n].rfc = 0 /\ Collect(t, n, rest)
      \/ node' = t /\ gc' = [gc EXCEPT !.pending = rest] /\ avail' = avail
    BY DEF FollowEdge
<1>6. gc' = [gc EXCEPT !.pending = rest] => gc' = [gc EXCEPT !.pending = Tail(@)] /\ gc'.pending = rest
    BY DEF IInv, TypesInv
<1>7. q \in RefSetNow /\ q[3] = f
    BY <1>2 DEF RefSetNow, RefSet
<1>8. RefSetNow \ {q} = RefSet(handle, node, stack, rest, ret)
    <2> DEFINE Others == HandleRefs(handle) \cup ZeroRefs(node) \cup OneRefs(node)
                            \cup H0Refs(stack) \cup H1Refs(stack) \cup {<<"ret", 0, ret>>}
    <2>1. q \notin Others
        BY RefTags
    <2>2. /\ RefSetNow = Others \cup PendingRefs(gc.pending)
          /\ RefSet(handle, node, stack, rest, ret) = Others \cup PendingRefs(rest)
        BY DEF RefSetNow, RefSet
    <2> HIDE DEF Others, q, rest
    <2> QED
        BY <1>2, <2>1, <2>2
<1>9. f \in Values /\ Counted(f) /\ n \in Index
    BY <1>2, <1>3, EdgeFacts DEF Values
<1> HIDE DEF f, rest, q, t
<1>10. node[n].rfc >= 1 /\ UsedEdge(node, f)
    BY <1>1, <1>7, <1>9, RefUsed DEF n
<1>11. Tally(t, RefSet(handle, node, stack, rest, ret))
    BY <1>1, <1>7, <1>8, <1>9, TallyDrop DEF Sound, t
<1>12. t \in TableType /\ FreeIn(t) /\ SameNodes(node, t)
    BY <1>1, <1>9, <1>10, DecKeeps DEF Sound, t, n
<1>13. Sound(t, RefSet(handle, t, stack, rest, ret))
    BY <1>11, <1>12, SameRefs DEF Sound
<1>14. CASE t[n].rfc = 0 /\ Collect(t, n, rest)
    <2>1. n \in UsedIn(t)
        BY <1>9, <1>10, <1>12 DEF UsedIn, UsedEdge, SameNodes
    <2>2. CollectsFrom(t, n, rest)
        BY <1>2, <1>3, <1>4, <1>12, <1>13, <1>14, <2>1 DEF CollectsFrom
    <2> QED
        BY <2>2
<1>15. CASE node' = t /\ gc' = [gc EXCEPT !.pending = rest] /\ avail' = avail
    BY <1>2, <1>3, <1>4, <1>6, <1>12, <1>13, <1>15 DEF RefSetNext
<1> QED
    BY <1>5, <1>14, <1>15

\* The steps of the program: assignments of constants and objects, calls.
LEMMA ProgramSteps ==
    ASSUME IInv, Program
    PROVE  \/ \E h \in Handles, f \in Edges \cup {Null} : UsedEdge(node, f) /\ LiveEdge(f) /\ Assign(h, f)
           \/ \E op \in BinaryOps \cup UnaryOps, h, a \in Handles, g \in Handles \cup Vars :
                /\ g \in IF op \in BinaryOps THEN Handles ELSE Vars
                /\ Call(op, h, a, g)
<1>1. CASE \E h \in Handles, f \in {False, True} : Assign(h, f)
    <2>1. /\ False \in Edges /\ True \in Edges /\ UsedEdge(node, False) /\ UsedEdge(node, True)
          /\ LiveEdge(False) /\ LiveEdge(True)
        BY ConstantFacts, ValueFacts DEF UsedEdge, LiveEdge
    <2> QED
        BY <1>1, <2>1
<1>2. CASE \E h, g \in Handles : Assign(h, handle[g])
    <2>1. PICK h \in Handles, g \in Handles : Assign(h, handle[g])
        BY <1>2
    <2>2. handle[g] \in Edges \cup {Null} /\ UsedEdge(node, handle[g]) /\ LiveEdge(handle[g])
        BY StateFacts, LiveClosed
    <2> QED
        BY <2>1, <2>2
<1>3. CASE \E op \in BinaryOps \cap Ops, h, a, g \in Handles : Call(op, h, a, g)
    BY <1>3
<1>4. CASE \E op \in UnaryOps \cap Ops, h, a \in Handles, v \in Vars : Call(op, h, a, v)
    <2>1. \A op \in UnaryOps : op \notin BinaryOps
        BY DEF UnaryOps, BinaryOps
    <2> QED
        BY <1>4, <2>1
<1> QED
    BY <1>1, <1>2, <1>3, <1>4 DEF Program

\* Only two steps give a node another variable or other edges.
LEMMA StepSound ==
    ASSUME IInv, [Next]_vars
    PROVE  /\ Sound(node', RefSetNext)
           /\ \/ SameNodes(node, node')
              \/ Allocate
              \/ \E t, n, rest : CollectsFrom(t, n, rest)
<1>1. CASE Program
    <2>1. CASE \E h \in Handles, f \in Edges \cup {Null} : UsedEdge(node, f) /\ Assign(h, f)
        BY <2>1, AssignSound DEF Values
    <2>2. ASSUME NEW op \in BinaryOps \cup UnaryOps, NEW h \in Handles, NEW a \in Handles,
                 NEW g \in Handles \cup Vars, g \in IF op \in BinaryOps THEN Handles ELSE Vars,
                 Call(op, h, a, g)
          PROVE  Sound(node', RefSetNext) /\ SameNodes(node, node')
        <3>1. /\ stack = <<>>
              /\ \/ stack' = stack
                 \/ \E fr : stack' = <<fr>> /\ GoodFrame(fr)
            BY <2>2, CallFacts
        <3>2. stack' \in Seq(FrameType)
            <4>1. CASE stack' = stack
                BY <3>1, <4>1
            <4>2. ASSUME NEW fr, stack' = <<fr>>, GoodFrame(fr)
                  PROVE  stack' \in Seq(FrameType)
                <5>1. fr \in FrameType
                    BY <4>2 DEF GoodFrame
                <5> QED
                    BY <4>2, <5>1
            <4> QED
                BY <3>1, <4>1, <4>2
        <3> QED
            BY <2>2, <3>2, CallSound
    <2> QED
        BY <1>1, <2>1, <2>2, ProgramSteps
<1>2. CASE Finish
    BY <1>2, FinishSound
<1>3. CASE Apply
    BY <1>3, ReturnTrivialSound, ChangeAtTopSound, ReturnCachedSound, DescendSound,
       SecondHalfSound, BothHalvesSound, OverflowSound DEF Apply
<1>4. CASE Eliminate \/ Share
    BY <1>4, EliminateSound, ShareSound
<1>5. CASE Allocate
    BY <1>5, AllocateStep
<1>6. CASE Enlarge
    BY <1>6, TopPcSound DEF Enlarge, NewNeeded, Running
<1>7. CASE StartGc
    <2>1. gc.pending = <<>> /\ gc'.pending = <<>> /\ SameNodes(node, node)
        BY <1>7 DEF StartGc, NewNeeded, Running, IInv, ControlInv, NoGc, SameNodes
    <2> QED
        BY <1>7, <2>1, StateFacts DEF StartGc, RefSetNext
<1>8. CASE Scan
    BY <1>8, ScanCollects, CollectStep DEF IInv, TypesInv
<1>9. CASE FollowEdge
    BY <1>9, FollowEdgeCollects, CollectStep DEF IInv, TypesInv
<1>10. CASE GcSucceeded
    <2>1. gc.pending = <<>> /\ gc'.pending = <<>> /\ stack # <<>>
        BY <1>10 DEF GcSucceeded, Scanned, IInv, ControlInv, NoGc
    <2> QED
        BY <1>10, <2>1, TopPcSound DEF GcSucceeded
<1>11. CASE NodeTableOverflow
    BY <1>11, NodeTableOverflowSound
<1>12. CASE UNCHANGED vars
    <2>1. SameNodes(node, node)
        BY DEF SameNodes
    <2> QED
        BY <1>12, <2>1, StateFacts DEF vars, RefSetNext
<1> QED
    BY <1>1, <1>2, <1>3, <1>4, <1>5, <1>6, <1>7, <1>8, <1>9, <1>10, <1>11, <1>12
       DEF Next, Machine, GetNode, Gc

LEMMA TallyStep ==
    ASSUME IInv, [Next]_vars
    PROVE  node' \in TableType /\ FreeInv' /\ TallyInv'
<1>1. References' = RefSetNext
    BY DEF References, RefSetNext, RefSet, HandleRefs, ZeroRefs, OneRefs, H0Refs, H1Refs,
           PendingRefs, UsedIn, Used
<1> QED
    BY <1>1, StepSound DEF Sound, FreeInv, TallyInv
-----------------------------------------------------------------------------
(***************************************************************************)
(* Action by action: the stack.                                            *)
(***************************************************************************)
TopFits(fr, r) == fr.pc \in IF r = NoRet THEN {"enter", "make", "allocate"} ELSE {"h0", "h1"}
StackOk(s, r) ==
    /\ s \in Seq(FrameType)
    /\ \A k \in 1..Len(s) : GoodFrame(s[k])
    /\ \A k \in 1..(Len(s) - 1) : s[k].pc \in {"h0", "h1"}
    /\ s # <<>> => TopFits(s[Len(s)], r)

LEMMA StackNow ==
    ASSUME IInv
    PROVE  StackOk(stack, ret)
BY StateFacts DEF IInv, FramesInv, OperandsInv, ControlInv, StackOk, GoodFrame, Top, TopFits

LEMMA StackPop ==
    ASSUME NEW s, NEW r, StackOk(s, r), s # <<>>, NEW x, x # NoRet
    PROVE  StackOk(Front(s), x)
<1> DEFINE u == Front(s)
<1>1. /\ Len(s) \in Nat /\ Len(s) >= 1 /\ u \in Seq(FrameType) /\ Len(u) = Len(s) - 1
      /\ \A k \in 1..(Len(s) - 1) : u[k] = s[k]
    BY TopFacts DEF StackOk
<1> HIDE DEF u
<1>2. ASSUME NEW k \in 1..Len(u) PROVE GoodFrame(u[k]) /\ u[k].pc \in {"h0", "h1"}
    <2>1. k \in 1..Len(s) /\ k \in 1..(Len(s) - 1)
        BY <1>1
    <2> QED
        BY <1>1, <2>1 DEF StackOk
<1>3. u # <<>> => Len(u) \in 1..Len(u)
    BY <1>1
<1>4. \A k \in 1..(Len(u) - 1) : k \in 1..Len(u)
    BY <1>1
<1> QED
    BY <1>1, <1>2, <1>3, <1>4 DEF StackOk, TopFits, u

LEMMA StackReplace ==
    ASSUME NEW s, NEW r, StackOk(s, r), s # <<>>, NEW fr, GoodFrame(fr), NEW x,
           TopFits(fr, x)
    PROVE  StackOk([s EXCEPT ![Len(s)] = fr], x)
<1> DEFINE u == [s EXCEPT ![Len(s)] = fr]
<1>1. /\ Len(s) \in Nat /\ Len(s) >= 1 /\ u \in Seq(FrameType) /\ Len(u) = Len(s)
      /\ u[Len(s)] = fr /\ \A k \in 1..(Len(s) - 1) : u[k] = s[k]
    BY TopFacts, ReplaceFacts DEF StackOk, GoodFrame
<1> HIDE DEF u
<1>2. ASSUME NEW k \in 1..Len(u) PROVE GoodFrame(u[k])
    <2>1. k \in 1..Len(s) /\ (k = Len(s) \/ k \in 1..(Len(s) - 1))
        BY <1>1
    <2> QED
        BY <1>1, <2>1 DEF StackOk
<1>3. \A k \in 1..(Len(u) - 1) : u[k].pc \in {"h0", "h1"}
    BY <1>1 DEF StackOk
<1> QED
    BY <1>1, <1>2, <1>3 DEF StackOk, u

LEMMA StackPush ==
    ASSUME NEW s, NEW r, StackOk(s, r), NEW fr, GoodFrame(fr), NEW x,
           s # <<>> => s[Len(s)].pc \in {"h0", "h1"},
           TopFits(fr, x)
    PROVE  StackOk(Append(s, fr), x)
<1> DEFINE u == Append(s, fr)
<1>1. /\ Len(s) \in Nat /\ u \in Seq(FrameType) /\ Len(u) = Len(s) + 1
      /\ u[Len(s) + 1] = fr /\ \A k \in 1..Len(s) : u[k] = s[k]
    BY PushFacts DEF StackOk, GoodFrame
<1> HIDE DEF u
<1>2. ASSUME NEW k \in 1..Len(u) PROVE GoodFrame(u[k])
    <2>1. k = Len(s) + 1 \/ k \in 1..Len(s)
        BY <1>1
    <2> QED
        BY <1>1, <2>1 DEF StackOk
<1>3. ASSUME NEW k \in 1..(Len(u) - 1) PROVE u[k].pc \in {"h0", "h1"}
    <2>1. k \in 1..Len(s)
        BY <1>1
    <2>2. s # <<>>
        BY <2>1
    <2>3. k \in 1..(Len(s) - 1) \/ k = Len(s)
        BY <1>1, <2>1
    <2> QED
        BY <1>1, <2>1, <2>2, <2>3 DEF StackOk
<1> QED
    BY <1>1, <1>2, <1>3 DEF StackOk, u

\* One call waits for another one.
LEMMA StackCall ==
    ASSUME NEW s, NEW r, StackOk(s, r), s # <<>>, NEW fr, GoodFrame(fr), fr.pc \in {"h0", "h1"},
           NEW top, GoodFrame(top), top.pc = "enter"
    PROVE  StackOk(Append([s EXCEPT ![Len(s)] = fr], top), NoRet)
<1> DEFINE u == [s EXCEPT ![Len(s)] = fr]
<1>1. StackOk(u, Null)
    BY StackReplace, ConstantFacts DEF TopFits
<1>2. Len(u) = Len(s) /\ u[Len(s)] = fr
    BY ReplaceFacts DEF StackOk, GoodFrame
<1> HIDE DEF u
<1>3. StackOk(Append(u, top), NoRet)
    BY <1>1, <1>2, StackPush DEF TopFits
<1> QED
    BY <1>3 DEF u

\* What the call on top returns.
LEMMA ReturnValue ==
    ASSUME IInv, stack # <<>>, NEW h \in Edges \cup {Null}, Return(Top, h)
    PROVE  ret' \in Edges \cup {Null} /\ ret' # NoRet /\ stack' = Front(stack)
BY InvertedFacts, ConstantFacts DEF Return

LEMMA StackStep ==
    ASSUME IInv, [Next]_vars
    PROVE  StackOk(stack', ret')
<1>1. StackOk(stack, ret) /\ NoRet \notin Edges /\ NoRet # Null /\ Null \in Edges \cup {Null}
    BY StackNow, ConstantFacts
<1>2. CASE Program
    <2>1. CASE \E h \in Handles, f \in Edges \cup {Null} : Assign(h, f)
        BY <1>1, <2>1 DEF Assign
    <2>2. ASSUME NEW op \in BinaryOps \cup UnaryOps, NEW h \in Handles, NEW a \in Handles,
                 NEW g \in Handles \cup Vars, g \in IF op \in BinaryOps THEN Handles ELSE Vars,
                 Call(op, h, a, g)
          PROVE  StackOk(stack', ret')
        <3>1. /\ stack = <<>> /\ ret = NoRet
              /\ \/ ret' = Null /\ stack' = stack
                 \/ ret' = ret /\ \E fr : stack' = <<fr>> /\ GoodFrame(fr) /\ fr.pc = "enter"
            BY <2>2, CallFacts
        <3>2. CASE stack' = stack
            BY <1>1, <3>1, <3>2 DEF StackOk
        <3>3. ASSUME NEW fr, stack' = <<fr>>, GoodFrame(fr), fr.pc = "enter", ret' = ret
              PROVE  StackOk(stack', ret')
            <4>1. StackOk(Append(stack, fr), NoRet)
                BY <1>1, <3>1, <3>3, StackPush DEF TopFits
            <4>2. Append(stack, fr) = <<fr>>
                BY <3>1
            <4> QED
                BY <3>1, <3>3, <4>1, <4>2
        <3> QED
            BY <3>1, <3>2, <3>3
    <2> QED
        BY <1>2, <2>1, <2>2, ProgramSteps
<1>3. CASE Finish
    BY <1>1, <1>3 DEF Finish, StackOk
<1>4. CASE ReturnTrivial \/ ReturnCached
    <2>1. stack # <<>> /\ stack' = Front(stack)
        BY <1>4 DEF ReturnTrivial, ReturnCached, Running
    <2>2. ret' # NoRet
        <3>1. CASE ReturnTrivial
            BY <3>1 DEF ReturnTrivial
        <3>2. CASE ReturnCached
            <4> DEFINE fr == Normal(Top)
            <4>1. Top.pc = "enter" /\ ~gc.on /\ Hit(fr) /\ ret' = Inverted(fr, cache[Key(fr)].h)
                BY <3>2 DEF ReturnCached, Running
            <4>2. fr \in FrameType /\ Key(fr) \in 0..Len(cache)
                BY <2>1, <4>1, NormalFacts
            <4> HIDE DEF fr
            <4>3. cache[Key(fr)].h \in Edges \cup {Null}
                BY <4>1, <4>2, HitInTable
            <4> QED
                BY <1>1, <4>1, <4>3, InvertedFacts
        <3> QED
            BY <1>4, <3>1, <3>2
    <2> QED
        BY <1>1, <2>1, <2>2, StackPop
<1>5. CASE ChangeAtTop
    <2>1. PICK fr : stack' = Replaced(fr) /\ GoodFrame(fr) /\ fr.pc = "make"
        BY <1>5, ChangeAtTopFacts
    <2> QED
        <3>1. stack # <<>> /\ ret' = NoRet
            BY <1>5 DEF ChangeAtTop, Running
        <3>2. TopFits(fr, NoRet)
            BY <2>1 DEF TopFits
        <3> QED
            BY <1>1, <2>1, <3>1, <3>2, StackReplace DEF Replaced
<1>6. CASE Descend
    <2>1. PICK fr, top : /\ stack' = Append(Replaced(fr), top)
                         /\ GoodFrame(fr) /\ fr.pc = "h0" /\ GoodFrame(top) /\ top.pc = "enter"
        BY <1>6, DescendFacts
    <2> QED
        BY <1>1, <1>6, <2>1, StackCall DEF Descend, Running, Replaced
<1>7. CASE SecondHalf
    <2>1. PICK fr, top : /\ stack' = Append(Replaced(fr), top)
                         /\ GoodFrame(fr) /\ fr.pc = "h1" /\ GoodFrame(top) /\ top.pc = "enter"
        BY <1>7, SecondHalfFacts
    <2> QED
        BY <1>1, <1>7, <2>1, StackCall DEF SecondHalf, Resumed, Replaced
<1>8. CASE BothHalves
    <2>1. PICK fr : stack' = Replaced(fr) /\ GoodFrame(fr) /\ fr.pc = "make"
        BY <1>8, BothHalvesFacts
    <2> QED
        <3>1. stack # <<>> /\ ret' = NoRet
            BY <1>8 DEF BothHalves, Resumed
        <3>2. TopFits(fr, NoRet)
            BY <2>1 DEF TopFits
        <3> QED
            BY <1>1, <2>1, <3>1, <3>2, StackReplace DEF Replaced
<1>9. CASE Overflow \/ Eliminate \/ Share \/ Allocate \/ NodeTableOverflow
    <2>1. stack # <<>>
        BY <1>9 DEF Overflow, Resumed, Eliminate, Share, Allocate, NewNeeded, Running,
                    NodeTableOverflow, Scanned, IInv, ControlInv
    <2>2. Top.h0 \in Edges
        BY <2>1, TopState DEF FrameType
    <2>3. \A n \in Index : NodeEdge(n) \in Edges
        BY NodeEdgeFacts DEF NodeEdge
    <2>4. Equivalent \subseteq Index /\ Head(avail) \in Index
        BY HeadFree DEF Equivalent, Used
    <2>5. \E h \in Edges \cup {Null} : Return(Top, h)
        BY <1>1, <1>9, <2>2, <2>3, <2>4 DEF Overflow, Eliminate, Share, Allocate, NodeTableOverflow
    <2> QED
        BY <1>1, <2>1, <2>5, ReturnValue, StackPop
<1>10. CASE Enlarge \/ GcSucceeded
    <2>1. stack # <<>> /\ ret = NoRet /\ stack' = Replaced([Top EXCEPT !.pc = "allocate"]) /\ ret' = ret
          /\ Top.pc = "make"
        BY <1>10 DEF Enlarge, NewNeeded, Running, GcSucceeded, Scanned, IInv, ControlInv
    <2>2. GoodFrame([Top EXCEPT !.pc = "allocate"])
        BY <2>1, TopState DEF GoodFrame, FrameType, FrameInv, OperandsLive
    <2>3. TopFits([Top EXCEPT !.pc = "allocate"], NoRet)
        BY <2>1, TopState DEF FrameType, TopFits
    <2> QED
        BY <1>1, <2>1, <2>2, <2>3, StackReplace DEF Replaced
<1>11. CASE StartGc \/ Scan \/ FollowEdge \/ UNCHANGED vars
    BY <1>1, <1>11 DEF StartGc, Scan, FollowEdge, vars
<1> QED
    BY <1>2, <1>3, <1>4, <1>5, <1>6, <1>7, <1>8, <1>9, <1>10, <1>11
       DEF Next, Machine, Apply, GetNode, Gc
-----------------------------------------------------------------------------
(***************************************************************************)
(* Action by action: the operands stay within reach of the objects.        *)
(***************************************************************************)
LEMMA LiveStep ==
    ASSUME IInv, [Next]_vars, handle' = handle
    PROVE  Live \subseteq Live'
<1>1. node \in TableType /\ handle \in [Handles -> Edges \cup {Null}] /\ Live \subseteq Index
    BY StateFacts DEF Live
<1>2. CASE SameNodes(node, node')
    BY <1>1, <1>2, LiveKept DEF SameNodes
<1>3. CASE Allocate
    <2>1. Head(avail) \notin Live
        BY HeadFree, StateFacts
    <2> QED
        BY <1>1, <1>3, <2>1, AllocateStep, LiveKept
<1>4. ASSUME NEW t, NEW n, NEW rest, CollectsFrom(t, n, rest)
      PROVE  Live \subseteq Live'
    <2>1. n \notin Live
        <3>1. \A k \in Live : t[k].rfc >= 1
            BY <1>1, <1>4, LiveCounted DEF CollectsFrom, RefSet
        <3> QED
            BY <1>4, <3>1 DEF CollectsFrom
    <2>2. \A k \in Index \ {n} : node'[k].f0 = node[k].f0 /\ node'[k].f1 = node[k].f1
        BY <1>4, CollectStep DEF IInv, TypesInv
    <2> QED
        BY <1>1, <2>1, <2>2, LiveKept
<1> QED
    BY <1>2, <1>3, <1>4, StepSound

LEMMA OperandsStep ==
    ASSUME IInv, [Next]_vars
    PROVE  OperandsInv'
<1>1. CASE handle' = handle
    <2>1. Live \subseteq Live'
        BY <1>1, LiveStep
    <2>2. \A f : LiveEdge(f) => LiveEdge(f)'
        BY <2>1 DEF LiveEdge
    <2>3. \A k \in 1..Len(stack') : OperandsLive(stack'[k])
        BY StackStep DEF StackOk, GoodFrame
    <2> QED
        BY <2>2, <2>3 DEF OperandsInv, OperandsLive
<1>2. CASE handle' # handle
    <2>1. (\E h, f : Assign(h, f)) \/ Finish
        BY <1>2 DEF Next, vars, Program, Machine, Apply, GetNode, Gc, Call, ReturnTrivial,
            ChangeAtTop, ReturnCached, Descend, SecondHalf, BothHalves, Overflow, Eliminate,
            Share, Allocate, Enlarge, StartGc, Scan, FollowEdge, GcSucceeded, NodeTableOverflow
    <2>2. stack' = <<>>
        BY <2>1 DEF Assign, Idle, Finish, IInv, ControlInv
    <2>3. \A k \in 1..Len(stack') : FALSE
        BY <2>2
    <2> QED
        BY <2>3 DEF OperandsInv
<1> QED
    BY <1>1, <1>2

-----------------------------------------------------------------------------
(***************************************************************************)
(* The cache.                                                              *)
(***************************************************************************)
\* The sizes that node_enlarge() tries for the cache.
LEMMA DoubledFacts ==
    ASSUME TypesInv
    PROVE  \A k \in 0..NodeLimit : /\ Doubled[k] \in Nat
                                   /\ Doubled[k] >= Len(cache) /\ Doubled[k] >= k + 1
<1> DEFINE Step(f, k) == IF k = 0 THEN Len(cache) ELSE 2 * f[k - 1]
           Defined == {m \in 0..NodeLimit : \E f : f = [k \in 0..m |-> Step(f, k)]}
           Fine == {k \in 0..NodeLimit : /\ Doubled[k] \in Nat
                                         /\ Doubled[k] >= Len(cache) /\ Doubled[k] >= k + 1}
<1>1. NodeLimit \in Nat /\ Len(cache) \in Nat /\ Len(cache) >= 1 /\ 0 \in 0..NodeLimit
    BY ConstantFacts, CacheFacts
<1>2. 0 \in Defined
    <2> DEFINE f == [k \in 0..0 |-> Len(cache)]
    <2>1. f = [k \in 0..0 |-> Step(f, k)]
        BY DEF Step
    <2> HIDE DEF f
    <2> QED
        BY <1>1, <2>1
<1>3. ASSUME NEW m \in 0..(NodeLimit - 1), m \in Defined
      PROVE  m + 1 \in Defined
    <2>1. PICK f : f = [k \in 0..m |-> Step(f, k)]
        BY <1>3
    <2> DEFINE g == [k \in 0..(m + 1) |-> IF k = 0 THEN Len(cache) ELSE 2 * f[k - 1]]
    <2>2. \A k \in 0..m : g[k] = f[k]
        BY <2>1, SMTT(40)
    <2>3. ASSUME NEW k \in 0..(m + 1) PROVE g[k] = Step(g, k)
        <3>1. k # 0 => k - 1 \in 0..m
            OBVIOUS
        <3> QED
            BY <2>2, <3>1
    <2>4. g = [k \in 0..(m + 1) |-> g[k]]
        OBVIOUS
    <2> HIDE DEF g
    <2>5. g = [k \in 0..(m + 1) |-> Step(g, k)]
        BY <2>3, <2>4
    <2>6. m + 1 \in 0..NodeLimit
        BY <1>1
    <2> QED
        BY <2>5, <2>6
<1>4. NodeLimit \in Defined
    <2>1. Defined \in SUBSET Nat /\ NodeLimit \in 0..NodeLimit
        BY <1>1
    <2> HIDE DEF Defined
    <2> QED
        BY <1>1, <1>2, <1>3, <2>1, InductionTo
<1>5. \E f : f = [k \in 0..NodeLimit |-> IF k = 0 THEN Len(cache) ELSE 2 * f[k - 1]]
    BY <1>4
<1>6. Doubled = [k \in 0..NodeLimit |-> IF k = 0 THEN Len(cache) ELSE 2 * Doubled[k - 1]]
    BY <1>5, Zenon DEF Doubled
<1>7. 0 \in Fine
    BY <1>1, <1>6
<1>8. ASSUME NEW m \in 0..(NodeLimit - 1), m \in Fine
      PROVE  m + 1 \in Fine
    <2>1. m + 1 \in 0..NodeLimit /\ m + 1 # 0 /\ (m + 1) - 1 = m
        BY <1>1
    <2>2. Doubled[m + 1] = 2 * Doubled[m]
        BY <1>6, <2>1
    <2> QED
        BY <1>1, <1>8, <2>1, <2>2
<1>9. Fine \in SUBSET Nat
    BY <1>1
<1> HIDE DEF Fine
<1>10. 0..NodeLimit \subseteq Fine
    BY <1>1, <1>7, <1>8, <1>9, InductionTo
<1> QED
    BY <1>10 DEF Fine

LEMMA GrownFacts ==
    ASSUME TypesInv, nodeSpc' \in Nat, nodeSpc' <= NodeLimit
    PROVE  GrownSpc \in Nat /\ GrownSpc >= Len(cache)
<1> DEFINE T == {k \in 0..NodeLimit : EnoughAfter(k)}
<1>1. NodeLimit \in Nat /\ NodeLimit \in T
    BY DoubledFacts, ConstantFacts DEF EnoughAfter
<1>2. T \in SUBSET Nat
    BY <1>1
<1>3. \A k \in T : k \in 0..NodeLimit /\ EnoughAfter(k)
    OBVIOUS
<1>4. \A k \in 0..NodeLimit : EnoughAfter(k) => k \in T
    OBVIOUS
<1> HIDE DEF T
<1>5. PICK k \in T : \A j \in T : k <= j
    BY <1>1, <1>2, LeastElement
<1>6. k \in 0..NodeLimit /\ EnoughAfter(k) /\ \A j \in 0..(k - 1) : ~EnoughAfter(j)
    BY <1>1, <1>3, <1>4, <1>5
<1>7. \E i \in 0..NodeLimit : GrownSpc = Doubled[i]
    BY <1>6 DEF GrownSpc
<1> QED
    BY <1>7, DoubledFacts
-----------------------------------------------------------------------------
(***************************************************************************)
(* Action by action: the free list.                                        *)
(***************************************************************************)
LEMMA UsedFacts ==
    /\ IsFiniteSet(Used) /\ NodeUsed \in Nat
    /\ SameNodes(node, node') => Used' = Used /\ NodeUsed' = NodeUsed
<1>1. IsFiniteSet(Index)
    BY FS_Interval, ConstantFacts DEF Index
<1>2. IsFiniteSet(Used)
    BY <1>1, FS_Subset DEF Used
<1>3. NodeUsed \in Nat
    BY <1>2, FS_CardinalityType DEF NodeUsed
<1>4. SameNodes(node, node') => Used' = Used
    BY DEF SameNodes, Used, Index
<1> QED
    BY <1>2, <1>3, <1>4 DEF NodeUsed

LEMMA UsedOneMore ==
    ASSUME NEW a \in Index, node[a].var = 0, node'[a].var # 0,
           \A n \in Index \ {a} : node'[n].var = node[n].var
    PROVE  Used' = Used \cup {a} /\ NodeUsed' = NodeUsed + 1
<1>1. Used' = Used \cup {a} /\ a \notin Used
    BY DEF Used, Index
<1>2. Cardinality(Used \cup {a}) = Cardinality(Used) + 1
    BY <1>1, UsedFacts, FS_AddElement
<1> QED
    BY <1>1, <1>2 DEF NodeUsed

LEMMA UsedOneLess ==
    ASSUME NEW a \in Used, node'[a].var = 0,
           \A n \in Index \ {a} : node'[n].var = node[n].var
    PROVE  Used' = Used \ {a} /\ NodeUsed' = NodeUsed - 1
<1>1. Used' = Used \ {a}
    BY DEF Used, Index
<1>2. Cardinality(Used \ {a}) = Cardinality(Used) - 1
    BY <1>1, UsedFacts, FS_RemoveElement
<1> QED
    BY <1>1, <1>2 DEF NodeUsed

\* A call is given its node after the table was enlarged or collected, or
\* had been already.
LEMMA AllocatePc ==
    ASSUME IInv, [Next]_vars, stack' # <<>>, stack'[Len(stack')].pc = "allocate"
    PROVE  stack' = stack \/ Enlarge \/ GcSucceeded
<1>1. TopFits(stack'[Len(stack')], ret') /\ ret' = NoRet
    BY StackStep DEF StackOk, TopFits
<1>2. CASE Program
    <2>1. ASSUME NEW op \in BinaryOps \cup UnaryOps, NEW h \in Handles, NEW a \in Handles,
                 NEW g \in Handles \cup Vars, g \in IF op \in BinaryOps THEN Handles ELSE Vars,
                 Call(op, h, a, g)
          PROVE  stack' = stack
        <3>1. ASSUME NEW fr, stack' = <<fr>>, fr.pc = "enter"
              PROVE  FALSE
            BY <3>1
        <3> QED
            BY <2>1, <3>1, CallFacts
    <2> QED
        BY <1>2, <2>1, ProgramSteps DEF Assign
<1>3. CASE ChangeAtTop
    <2>1. PICK fr : stack' = Replaced(fr) /\ GoodFrame(fr) /\ fr.pc = "make"
        BY <1>3, ChangeAtTopFacts
    <2>2. stack # <<>> /\ stack \in Seq(FrameType)
        BY <1>3, StateFacts DEF ChangeAtTop, Running
    <2>3. stack'[Len(stack')] = fr
        BY <2>1, <2>2, ReplaceFacts DEF Replaced, GoodFrame
    <2> QED
        BY <2>1, <2>3
<1>4. CASE Descend \/ SecondHalf
    <2>1. PICK fr, top : /\ stack' = Append(Replaced(fr), top) /\ GoodFrame(fr)
                         /\ GoodFrame(top) /\ top.pc = "enter"
        BY <1>4, DescendFacts, SecondHalfFacts
    <2>2. stack # <<>> /\ stack \in Seq(FrameType)
        BY <1>4, StateFacts DEF Descend, SecondHalf, Resumed, Running
    <2>3. Replaced(fr) \in Seq(FrameType)
        BY <2>1, <2>2, ReplaceFacts DEF Replaced, GoodFrame
    <2>4. stack'[Len(stack')] = top
        BY <2>1, <2>3, PushFacts DEF GoodFrame
    <2> QED
        BY <2>1, <2>4
<1>5. CASE BothHalves
    <2>1. PICK fr : stack' = Replaced(fr) /\ GoodFrame(fr) /\ fr.pc = "make"
        BY <1>5, BothHalvesFacts
    <2>2. stack # <<>> /\ stack \in Seq(FrameType)
        BY <1>5, StateFacts DEF BothHalves, Resumed
    <2>3. stack'[Len(stack')] = fr
        BY <2>1, <2>2, ReplaceFacts DEF Replaced, GoodFrame
    <2> QED
        BY <2>1, <2>3
<1>6. CASE ReturnTrivial \/ ReturnCached \/ Overflow \/ Eliminate \/ Share \/ Allocate
              \/ NodeTableOverflow
    <2>1. stack # <<>> /\ stack' = Front(stack)
        BY <1>6 DEF ReturnTrivial, ReturnCached, Overflow, Resumed, Eliminate, Share, Allocate,
                    NewNeeded, Running, NodeTableOverflow, Scanned, Return, IInv, ControlInv
    <2>2. StackOk(Front(stack), Null)
        BY <2>1, StackNow, StackPop, ConstantFacts
    <2> QED
        BY <2>1, <2>2, ConstantFacts DEF StackOk, TopFits
<1>7. CASE Finish \/ StartGc \/ Scan \/ FollowEdge \/ UNCHANGED vars
    BY <1>7 DEF Finish, StartGc, Scan, FollowEdge, vars
<1> QED
    BY <1>2, <1>3, <1>4, <1>5, <1>6, <1>7 DEF Next, Machine, Apply, GetNode, Gc

\* What AvailInv says of the list alone.
FreeList(av, t, spc) ==
    /\ \A k \in 1..Len(av) : av[k] < spc /\ t[av[k]].var = 0
    /\ \A n \in Index : t[n].var = 0 /\ n < spc => \E k \in 1..Len(av) : av[k] = n
    /\ \A k, l \in 1..Len(av) : av[k] = av[l] => k = l
    /\ \A n \in UsedIn(t) : n < spc

LEMMA FreeListNow ==
    ASSUME IInv
    PROVE  FreeList(avail, node, nodeSpc)
BY DEF IInv, AvailInv, FreeList, UsedIn, Used

LEMMA FreeListSame ==
    ASSUME NEW av, av \in Seq(Index), NEW t, NEW u, SameNodes(t, u), NEW spc, FreeList(av, t, spc)
    PROVE  FreeList(av, u, spc)
<1>1. \A k \in 1..Len(av) : av[k] \in Index
    OBVIOUS
<1>2. UsedIn(u) = UsedIn(t)
    BY DEF UsedIn, SameNodes
<1> QED
    BY <1>1, <1>2 DEF FreeList, SameNodes

LEMMA FreeListTake ==
    ASSUME NEW av \in Seq(Index), av # <<>>, NEW t, NEW u, NEW spc, FreeList(av, t, spc),
           \A n \in Index \ {Head(av)} : u[n].var = t[n].var, u[Head(av)].var # 0
    PROVE  FreeList(Tail(av), u, spc) /\ Tail(av) \in Seq(Index) /\ Len(Tail(av)) = Len(av) - 1
<1> DEFINE a == Head(av)
           b == Tail(av)
<1>1. /\ a \in Index /\ a = av[1] /\ b \in Seq(Index) /\ Len(av) \in Nat /\ Len(av) >= 1
      /\ Len(b) = Len(av) - 1
      /\ \A k \in 1..Len(b) : k + 1 \in 1..Len(av) /\ b[k] = av[k + 1]
    OBVIOUS
<1> HIDE DEF a, b
<1>2. \A k \in 1..Len(b) : b[k] \in Index /\ b[k] # a /\ b[k] < spc /\ t[b[k]].var = 0
    <2>1. 1 \in 1..Len(av) /\ \A k \in 1..Len(b) : k + 1 # 1
        BY <1>1
    <2>2. \A k \in 1..Len(av) : av[k] \in Index
        OBVIOUS
    <2> QED
        BY <1>1, <2>1, <2>2, SMTT(40) DEF FreeList
<1>3. ASSUME NEW n \in Index, u[n].var = 0, n < spc
      PROVE  \E k \in 1..Len(b) : b[k] = n
    <2>1. n # a /\ t[n].var = 0
        BY <1>3 DEF a
    <2>2. PICK k \in 1..Len(av) : av[k] = n
        BY <1>3, <2>1 DEF FreeList
    <2>3. k # 1
        BY <1>1, <2>1, <2>2
    <2>4. k - 1 \in 1..Len(b) /\ (k - 1) + 1 = k
        BY <1>1, <2>3
    <2> QED
        BY <1>1, <2>2, <2>4
<1>4. ASSUME NEW k \in 1..Len(b), NEW l \in 1..Len(b), b[k] = b[l]
      PROVE  k = l
    <2>1. k + 1 = l + 1
        BY <1>1, <1>4 DEF FreeList
    <2> QED
        BY <2>1
<1>5. ASSUME NEW n \in UsedIn(u)
      PROVE  n < spc
    <2>1. CASE n = a
        <3>1. 1 \in 1..Len(av)
            BY <1>1
        <3> QED
            BY <1>1, <2>1, <3>1 DEF FreeList
    <2>2. CASE n # a
        BY <2>2 DEF UsedIn, FreeList, a
    <2> QED
        BY <2>1, <2>2
<1>6. \A k \in 1..Len(b) : u[b[k]].var = 0
    BY <1>2 DEF a
<1>7. FreeList(b, u, spc)
    BY <1>2, <1>3, <1>4, <1>5, <1>6 DEF FreeList
<1> QED
    BY <1>1, <1>7 DEF b

LEMMA FreeListGive ==
    ASSUME NEW av \in Seq(Index), NEW t, NEW u, NEW spc, FreeList(av, t, spc),
           NEW a \in UsedIn(t), \A n \in Index \ {a} : u[n].var = t[n].var, u[a].var = 0
    PROVE  /\ FreeList(<<a>> \o av, u, spc) /\ <<a>> \o av \in Seq(Index)
           /\ Len(<<a>> \o av) = Len(av) + 1
<1> DEFINE b == <<a>> \o av
<1>1. /\ a \in Index /\ t[a].var # 0 /\ a < spc
    BY DEF UsedIn, FreeList
<1>2. /\ b \in Seq(Index) /\ Len(av) \in Nat /\ Len(b) = Len(av) + 1 /\ b[1] = a
      /\ \A k \in 1..Len(av) : b[k + 1] = av[k] /\ av[k] \in Index
    BY <1>1
<1> HIDE DEF b
<1>3. \A k \in 1..Len(b) : k = 1 \/ (k - 1 \in 1..Len(av) /\ (k - 1) + 1 = k)
    BY <1>2
<1>4. \A k \in 2..Len(b) : b[k] = av[k - 1] /\ k - 1 \in 1..Len(av)
    <2> TAKE k \in 2..Len(b)
    <2>1. k - 1 \in 1..Len(av) /\ (k - 1) + 1 = k
        BY <1>2
    <2> QED
        BY <1>2, <2>1
<1>5. \A k \in 1..Len(av) : av[k] # a
    BY <1>1 DEF FreeList
<1>6. \A k \in 1..Len(b) : b[k] < spc /\ u[b[k]].var = 0
    <2> TAKE k \in 1..Len(b)
    <2>1. CASE k = 1
        BY <1>1, <1>2, <2>1
    <2>2. CASE k \in 2..Len(b)
        BY <1>2, <1>4, <1>5, <2>2 DEF FreeList
    <2> QED
        BY <1>2, <2>1, <2>2
<1>7. ASSUME NEW n \in Index, u[n].var = 0, n < spc
      PROVE  \E k \in 1..Len(b) : b[k] = n
    <2>1. CASE n = a
        <3>1. 1 \in 1..Len(b)
            BY <1>2
        <3> QED
            BY <1>2, <2>1, <3>1
    <2>2. CASE n # a
        <3>1. PICK k \in 1..Len(av) : av[k] = n
            BY <1>7, <2>2 DEF FreeList
        <3>2. k + 1 \in 1..Len(b)
            BY <1>2
        <3> QED
            BY <1>2, <3>1, <3>2
    <2> QED
        BY <2>1, <2>2
<1>8. ASSUME NEW k \in 1..Len(b), NEW l \in 1..Len(b), b[k] = b[l]
      PROVE  k = l
    <2>1. CASE k = 1 \/ l = 1
        <3>1. ASSUME k # l PROVE FALSE
            <4>1. k \in 2..Len(b) \/ l \in 2..Len(b)
                BY <1>2, <3>1
            <4> QED
                BY <1>2, <1>4, <1>5, <1>8, <2>1, <4>1, <3>1
        <3> QED
            BY <3>1
    <2>2. CASE k # 1 /\ l # 1
        <3>1. k \in 2..Len(b) /\ l \in 2..Len(b)
            BY <1>2, <2>2
        <3>2. k - 1 = l - 1
            BY <1>4, <1>8, <3>1 DEF FreeList
        <3> QED
            BY <3>2
    <2> QED
        BY <2>1, <2>2
<1>9. \A n \in UsedIn(u) : n < spc
    BY <1>1 DEF UsedIn, FreeList
<1>10. FreeList(b, u, spc)
    BY <1>6, <1>7, <1>8, <1>9 DEF FreeList
<1> QED
    BY <1>2, <1>10 DEF b

Collects == \E t, n, rest : CollectsFrom(t, n, rest)

\* The steps that leave the table and its free list alone.
LEMMA QuietStep ==
    ASSUME IInv, [Next]_vars, ~Allocate, ~Enlarge, ~StartGc, ~GcSucceeded, ~Collects
    PROVE  /\ SameNodes(node, node') /\ avail' = avail /\ nodeSpc' = nodeSpc
           /\ gc'.on => gc.on /\ gc'.used = gc.used
<1>1. SameNodes(node, node') /\ ~Scan
    BY StepSound, ScanCollects DEF Collects
<1>2. CASE FollowEdge
    <2>1. gc' = [gc EXCEPT !.pending = Tail(@)] /\ avail' = avail
        BY <1>2, FollowEdgeCollects DEF Collects
    <2> QED
        BY <1>1, <1>2, <2>1 DEF FollowEdge, IInv, TypesInv
<1>3. CASE ~FollowEdge
    <2>1. avail' = avail /\ nodeSpc' = nodeSpc /\ (gc' = gc \/ gc' = NoGc)
        BY <1>1, <1>3 DEF Next, vars, Program, Machine, Apply, GetNode, Gc, Assign, Call, Finish,
            ReturnTrivial, ChangeAtTop, ReturnCached, Descend, SecondHalf, BothHalves, Overflow,
            Eliminate, Share, NodeTableOverflow
    <2> QED
        BY <1>1, <2>1 DEF NoGc
<1> QED
    BY <1>2, <1>3

LEMMA AvailFacts ==
    ASSUME IInv
    PROVE  /\ avail \in Seq(Index) /\ Len(avail) \in Nat /\ Len(avail) >= 1 /\ avail # <<>>
           /\ nodeSpc \in Nat /\ nodeSpc <= NodeLimit /\ nodeSpc >= 2
           /\ NodeUsed \in Nat /\ NodeUsed + Len(avail) = nodeSpc
<1>1. avail \in Seq(Index) /\ Len(avail) \in Nat /\ Len(avail) >= 1
    BY HeadFree
<1>2. nodeSpc \in InitSpc..NodeLimit
    BY DEF IInv, TypesInv, TypeOK
<1>3. NodeUsed + Len(avail) = nodeSpc
    BY DEF IInv, AvailInv
<1>4. NodeUsed \in Nat
    BY UsedFacts
<1>5. avail # <<>>
    BY <1>1
<1>6. nodeSpc \in Nat /\ nodeSpc <= NodeLimit /\ nodeSpc >= 2
    BY <1>2, SizesAssumption
<1> QED
    BY <1>1, <1>3, <1>4, <1>5, <1>6

\* The new nodes of the table go before the free ones.
Fresh == [k \in 1..(nodeSpc' - nodeSpc) |-> nodeSpc + k - 1]

LEMMA EnlargeList ==
    ASSUME IInv, Enlarge
    PROVE  /\ nodeSpc' \in Nat /\ nodeSpc' <= NodeLimit /\ nodeSpc' > nodeSpc
           /\ avail' \in Seq(Index) /\ Len(avail') = Len(avail) + (nodeSpc' - nodeSpc)
           /\ FreeList(avail', node, nodeSpc')
<1> DEFINE d == nodeSpc' - nodeSpc
<1>1. /\ avail \in Seq(Index) /\ Len(avail) \in Nat
      /\ nodeSpc \in Nat /\ nodeSpc <= NodeLimit /\ nodeSpc >= 2 /\ NodeLimit \in Nat
    BY AvailFacts, ConstantFacts
<1>2. nodeSpc' \in Nat /\ nodeSpc' <= NodeLimit /\ nodeSpc' > nodeSpc
    <2>1. /\ nodeSpc < NodeLimit
          /\ nodeSpc' = IF 2 * nodeSpc > NodeLimit THEN NodeLimit ELSE 2 * nodeSpc
        BY DEF Enlarge
    <2> QED
        BY <1>1, <2>1
<1>3. d \in Nat /\ d >= 1 /\ nodeSpc' = nodeSpc + d
    <2>1. \A a, b \in Nat : b > a => b - a \in Nat /\ b - a >= 1 /\ b = a + (b - a)
        OBVIOUS
    <2> QED
        BY <1>1, <1>2, <2>1
<1> HIDE DEF d
<1>4. Fresh = [k \in 1..d |-> nodeSpc + k - 1]
    BY DEF Fresh, d
<1>5. \A k \in 1..d : nodeSpc + k - 1 \in Index
    BY <1>1, <1>2, <1>3 DEF Index
<1>6. Fresh \in Seq(Index) /\ Len(Fresh) = d
    BY <1>3, <1>4, <1>5
<1>7. avail' = Fresh \o avail
    BY DEF Enlarge, Fresh
<1>8. /\ avail' \in Seq(Index) /\ Len(avail') = d + Len(avail)
      /\ \A k \in 1..d : avail'[k] = Fresh[k] /\ k \in 1..Len(avail')
      /\ \A k \in 1..Len(avail) : avail'[k + d] = avail[k] /\ k + d \in 1..Len(avail')
    <2>1. avail' \in Seq(Index) /\ Len(avail') = d + Len(avail)
        <3>1. Fresh \o avail \in Seq(Index) /\ Len(Fresh \o avail) = Len(Fresh) + Len(avail)
            BY <1>1, <1>6, ConcatProperties
        <3> QED
            BY <1>6, <1>7, <3>1
    <2>2. \A k \in 1..d : avail'[k] = Fresh[k] /\ k \in 1..Len(avail')
        BY <1>1, <1>3, <1>6, <1>7, <2>1
    <2>3. ASSUME NEW k \in 1..Len(avail)
          PROVE  avail'[k + d] = avail[k] /\ k + d \in 1..Len(avail')
        <3>1. k + d \in 1..Len(avail') /\ k + d > d /\ (k + d) - d = k
            BY <1>1, <1>3, <2>1
        <3> QED
            BY <1>1, <1>3, <1>6, <1>7, <2>1, <3>1
    <2> QED
        BY <2>1, <2>2, <2>3
<1>9. \A k \in 1..Len(avail') : k \in 1..d \/ (k - d \in 1..Len(avail) /\ (k - d) + d = k)
    BY <1>1, <1>3, <1>8
<1>10. \A k \in 1..d : avail'[k] = nodeSpc + k - 1
    BY <1>4, <1>8
<1>11. FreeList(avail, node, nodeSpc)
    BY FreeListNow
<1>12. \A k \in 1..Len(avail) : avail[k] \in Nat /\ avail[k] < nodeSpc /\ node[avail[k]].var = 0
    <2>1. \A k \in 1..Len(avail) : avail[k] \in Index
        BY <1>1
    <2> QED
        BY <1>11, <2>1 DEF FreeList, Index
<1>13. \A n \in Index : n >= nodeSpc => node[n].var = 0
    BY <1>1, <1>11 DEF FreeList, UsedIn, Index
<1>14. \A k \in 1..Len(avail') : avail'[k] < nodeSpc' /\ node[avail'[k]].var = 0
    <2> TAKE k \in 1..Len(avail')
    <2>1. CASE k \in 1..d
        <3>1. avail'[k] \in Index /\ avail'[k] >= nodeSpc /\ avail'[k] < nodeSpc'
            BY <1>1, <1>3, <1>5, <1>10, <2>1
        <3> QED
            BY <1>13, <3>1
    <2>2. CASE k - d \in 1..Len(avail) /\ (k - d) + d = k
        <3>1. avail'[k] = avail[k - d]
            BY <1>8, <2>2
        <3> QED
            BY <1>1, <1>2, <1>12, <2>2, <3>1
    <2> QED
        BY <1>9, <2>1, <2>2
<1>15. ASSUME NEW n \in Index, node[n].var = 0, n < nodeSpc'
       PROVE  \E k \in 1..Len(avail') : avail'[k] = n
    <2>1. CASE n < nodeSpc
        <3>1. PICK k \in 1..Len(avail) : avail[k] = n
            BY <1>11, <1>15, <2>1 DEF FreeList
        <3> QED
            BY <1>8, <3>1
    <2>2. CASE n >= nodeSpc
        <3>1. n - nodeSpc + 1 \in 1..d /\ nodeSpc + (n - nodeSpc + 1) - 1 = n
            BY <1>1, <1>3, <1>15, <2>2 DEF Index
        <3> QED
            BY <1>8, <1>10, <3>1
    <2> QED
        BY <1>1, <2>1, <2>2 DEF Index
<1>16. ASSUME NEW k \in 1..Len(avail'), NEW l \in 1..Len(avail'), avail'[k] = avail'[l]
       PROVE  k = l
    <2>1. CASE k \in 1..d /\ l \in 1..d
        BY <1>1, <1>3, <1>10, <1>16, <2>1
    <2>2. CASE k \notin 1..d /\ l \notin 1..d
        <3>1. /\ k - d \in 1..Len(avail) /\ l - d \in 1..Len(avail)
              /\ avail[k - d] = avail'[k] /\ avail[l - d] = avail'[l]
            BY <1>8, <1>9, <2>2
        <3>2. k - d = l - d
            BY <1>11, <1>16, <3>1 DEF FreeList
        <3> QED
            BY <1>3, <3>2
    <2>3. ASSUME NEW i \in 1..Len(avail'), NEW j \in 1..Len(avail'), i \in 1..d, j \notin 1..d
          PROVE  avail'[i] # avail'[j]
        <3>1. avail'[i] >= nodeSpc
            BY <1>1, <1>10, <2>3
        <3>2. j - d \in 1..Len(avail) /\ avail[j - d] = avail'[j]
            BY <1>8, <1>9, <2>3
        <3> QED
            BY <1>1, <1>12, <3>1, <3>2
    <2> QED
        BY <1>16, <2>1, <2>2, <2>3
<1>17. \A n \in UsedIn(node) : n < nodeSpc'
    <2>1. \A n \in UsedIn(node) : n \in Nat /\ n < nodeSpc
        BY <1>11 DEF FreeList, UsedIn, Index
    <2> QED
        BY <1>1, <1>2, <2>1
<1>18. FreeList(avail', node, nodeSpc')
    BY <1>14, <1>15, <1>16, <1>17 DEF FreeList
<1> QED
    BY <1>2, <1>8, <1>18, <1>1, <1>3

\* No collection is on where a node may be asked for.
LEMMA AtNewNode ==
    ASSUME IInv, NewNeeded
    PROVE  ~gc.on /\ gc = NoGc /\ stack # <<>> /\ Top.pc = "make" /\ Top.h1 # False /\ ret = NoRet
BY DEF NewNeeded, Running, IInv, ControlInv

AllocateNext == stack' # <<>> /\ stack'[Len(stack')].pc = "allocate"
\* AvailInv of the next state, the free list apart from the numbers.
AvailCounts ==
    /\ NodeUsed' + Len(avail') = nodeSpc'
    /\ Len(avail') >= 1
    /\ AllocateNext => Len(avail') >= 2
    /\ gc'.on => NodeUsed' <= gc'.used /\ gc'.used < nodeSpc'

LEMMA AvailSteps ==
    ASSUME IInv, [Next]_vars
    PROVE  /\ FreeList(avail', node', nodeSpc') /\ AvailCounts
           /\ avail' \in Seq(Index) /\ nodeSpc' \in InitSpc..NodeLimit
           /\ nodeSpc' >= nodeSpc
<1>1. /\ avail \in Seq(Index) /\ Len(avail) \in Nat /\ Len(avail) >= 1 /\ avail # <<>>
      /\ nodeSpc \in Nat /\ nodeSpc <= NodeLimit /\ nodeSpc \in InitSpc..NodeLimit
      /\ InitSpc \in Nat /\ NodeLimit \in Nat
      /\ NodeUsed \in Nat /\ NodeUsed + Len(avail) = nodeSpc
    BY AvailFacts, ConstantFacts, SizesAssumption DEF IInv, TypesInv, TypeOK
<1>2. FreeList(avail, node, nodeSpc)
    BY FreeListNow
<1>3. /\ stack # <<>> /\ Top.pc = "allocate" => Len(avail) >= 2
      /\ gc.on => NodeUsed <= gc.used /\ gc.used < nodeSpc
      /\ gc.used \in Nat
    BY DEF IInv, AvailInv, TypesInv
<1>4. AllocateNext => stack' = stack \/ Enlarge \/ GcSucceeded
    BY AllocatePc DEF AllocateNext
<1>5. AllocateNext /\ stack' = stack => Len(avail) >= 2
    BY <1>3 DEF AllocateNext, Top
<1>6. CASE SameNodes(node, node') /\ Enlarge
    <2>1. /\ nodeSpc' \in Nat /\ nodeSpc' <= NodeLimit /\ nodeSpc' > nodeSpc
          /\ avail' \in Seq(Index) /\ Len(avail') = Len(avail) + (nodeSpc' - nodeSpc)
          /\ FreeList(avail', node, nodeSpc')
        BY <1>6, EnlargeList
    <2>2. FreeList(avail', node', nodeSpc')
        BY <1>6, <2>1, FreeListSame
    <2>3. NodeUsed' = NodeUsed
        BY <1>6, UsedFacts
    <2>4. ~gc'.on
        BY <1>6, AtNewNode DEF Enlarge
    <2>5. nodeSpc' \in InitSpc..NodeLimit
        BY <1>1, <2>1
    <2>6. AvailCounts
        BY <1>1, <2>1, <2>3, <2>4 DEF AvailCounts
    <2> QED
        BY <1>1, <2>1, <2>2, <2>5, <2>6
<1>7. CASE SameNodes(node, node') /\ ~Enlarge /\ UNCHANGED <<avail, nodeSpc>> /\ ~GcSucceeded
               /\ (gc'.on => NodeUsed <= gc'.used /\ gc'.used < nodeSpc)
    <2>1. FreeList(avail', node', nodeSpc')
        BY <1>1, <1>2, <1>7, FreeListSame
    <2>2. NodeUsed' = NodeUsed
        BY <1>7, UsedFacts
    <2>3. AvailCounts
        BY <1>1, <1>4, <1>5, <1>7, <2>2 DEF AvailCounts
    <2> QED
        BY <1>1, <1>7, <2>1, <2>3
<1>8. CASE SameNodes(node, node') /\ StartGc /\ ~Enlarge
    <2>1. UNCHANGED <<avail, nodeSpc, stack>> /\ gc'.used = NodeUsed
        BY <1>8 DEF StartGc
    <2>2. ~GcSucceeded
        BY <1>8, AtNewNode DEF StartGc, GcSucceeded, Scanned
    <2> QED
        BY <1>1, <1>7, <1>8, <2>1, <2>2
<1>9. CASE SameNodes(node, node') /\ GcSucceeded
    <2>1. gc' = NoGc /\ UNCHANGED <<avail, nodeSpc>> /\ NodeUsed < gc.used /\ gc.on
        BY <1>9 DEF GcSucceeded, Scanned
    <2>2. FreeList(avail', node', nodeSpc')
        BY <1>1, <1>2, <1>9, <2>1, FreeListSame
    <2>3. NodeUsed' = NodeUsed
        BY <1>9, UsedFacts
    <2>4. Len(avail) >= 2
        BY <1>1, <1>3, <2>1
    <2>5. AvailCounts
        BY <1>1, <2>1, <2>3, <2>4 DEF AvailCounts, NoGc
    <2> QED
        BY <1>1, <2>1, <2>2, <2>5
<1>10. CASE Allocate
    <2>1. /\ Head(avail) \in Index /\ node[Head(avail)].var = 0 /\ node'[Head(avail)].var # 0
          /\ \A n \in Index \ {Head(avail)} : node'[n].var = node[n].var
        BY <1>10, HeadFree, AllocateStep
    <2>2. avail' = Tail(avail) /\ nodeSpc' = nodeSpc /\ gc' = gc
        BY <1>10 DEF Allocate
    <2>3. /\ FreeList(avail', node', nodeSpc') /\ avail' \in Seq(Index)
          /\ Len(avail') = Len(avail) - 1
        BY <1>1, <1>2, <2>1, <2>2, FreeListTake
    <2>4. NodeUsed' = NodeUsed + 1
        BY <2>1, UsedOneMore
    <2>5. ~gc'.on /\ stack # <<>> /\ Top.pc \in {"make", "allocate"}
        BY <1>10, <2>2, AllocateTop
    <2>6. Len(avail) >= 2
        <3>1. CASE Top.pc = "allocate"
            BY <1>3, <2>5, <3>1
        <3>2. CASE ~(NodeUsed >= nodeSpc - 1)
            BY <1>1, <3>2
        <3> QED
            BY <1>10, <3>1, <3>2 DEF Allocate, Full, Running
    <2>7. ~AllocateNext
        <3>1. stack' = Front(stack) /\ ret' # NoRet
            <4>1. NodeEdge(Head(avail)) \in Edges
                BY <2>1, NodeEdgeFacts DEF NodeEdge
            <4> QED
                BY <1>10, <2>5, <4>1, ReturnValue DEF Allocate
        <3>2. AllocateNext => TopFits(stack'[Len(stack')], ret')
            BY StackStep DEF StackOk, AllocateNext
        <3> QED
            BY <3>1, <3>2 DEF AllocateNext, TopFits
    <2>8. AvailCounts
        BY <1>1, <2>2, <2>3, <2>4, <2>5, <2>6, <2>7 DEF AvailCounts
    <2> QED
        BY <1>1, <2>2, <2>3, <2>8
<1>11. ASSUME NEW t, NEW n, NEW rest, CollectsFrom(t, n, rest)
       PROVE  /\ FreeList(avail', node', nodeSpc') /\ AvailCounts
              /\ avail' \in Seq(Index) /\ nodeSpc' = nodeSpc
    <2>1. /\ n \in Used /\ node'[n].var = 0
          /\ \A k \in Index \ {n} : node'[k].var = node[k].var
        BY <1>11, CollectStep DEF IInv, TypesInv
    <2>2. /\ nodeSpc' = nodeSpc /\ stack' = stack
          /\ gc'.on = gc.on /\ gc'.used = gc.used
        BY <1>11 DEF CollectsFrom, Collect, IInv, TypesInv
    <2>3. n \in UsedIn(node)
        BY <2>1 DEF Used, UsedIn
    <2>4. /\ FreeList(avail', node', nodeSpc') /\ avail' \in Seq(Index)
          /\ Len(avail') = Len(avail) + 1
        <3>1. avail' = <<n>> \o avail
            BY <1>11 DEF CollectsFrom, Collect
        <3> QED
            BY <1>1, <1>2, <2>1, <2>2, <2>3, <3>1, FreeListGive
    <2>5. NodeUsed' = NodeUsed - 1
        BY <2>1, UsedOneLess
    <2>6. AvailCounts
        BY <1>1, <1>3, <1>5, <2>2, <2>4, <2>5 DEF AvailCounts
    <2> QED
        BY <2>2, <2>4, <2>6
<1>12. CASE Collects
    BY <1>1, <1>11, <1>12 DEF Collects
<1>13. CASE ~Allocate /\ ~Enlarge /\ ~StartGc /\ ~GcSucceeded /\ ~Collects
    <2>1. /\ SameNodes(node, node') /\ avail' = avail /\ nodeSpc' = nodeSpc
          /\ gc'.on => gc.on /\ gc'.used = gc.used
        BY <1>13, QuietStep
    <2> QED
        BY <1>3, <1>7, <1>13, <2>1
<1>14. SameNodes(node, node') \/ Allocate \/ Collects
    BY StepSound DEF Collects
<1> QED
    BY <1>6, <1>8, <1>9, <1>10, <1>12, <1>13, <1>14

LEMMA AvailStep ==
    ASSUME IInv, [Next]_vars
    PROVE  AvailInv'
<1>1. FreeList(avail', node', nodeSpc') /\ AvailCounts
    BY AvailSteps
<1>2. Used' = UsedIn(node')
    BY DEF Used, UsedIn
<1>3. (stack # <<>> /\ Top.pc = "allocate")' <=> AllocateNext
    BY DEF AllocateNext, Top
<1> QED
    BY <1>1, <1>2, <1>3 DEF AvailInv, FreeList, AvailCounts
-----------------------------------------------------------------------------
(***************************************************************************)
(* Action by action: types and control.                                    *)
(***************************************************************************)
LEMMA GcStep ==
    ASSUME IInv, [Next]_vars
    PROVE  /\ gc' \in [on : BOOLEAN, used : Nat, pending : Seq(Edges)]
           /\ PendingInv'
<1>1. gc \in [on : BOOLEAN, used : Nat, pending : Seq(Edges)] /\ PendingInv
    BY DEF IInv, TypesInv
<1>2. ASSUME NEW p \in Seq(Edges), gc' = [gc EXCEPT !.pending = p],
             \A k \in 1..Len(p) : ~Cst(p[k])
      PROVE  /\ gc' \in [on : BOOLEAN, used : Nat, pending : Seq(Edges)]
             /\ PendingInv'
    BY <1>1, <1>2 DEF PendingInv, Cst, False
<1>3. <<>> \in Seq(Edges) /\ \A k \in 1..Len(<<>>) : FALSE
    OBVIOUS
<1>4. ASSUME NEW t, NEW n, NEW rest, CollectsFrom(t, n, rest)
      PROVE  /\ gc' \in [on : BOOLEAN, used : Nat, pending : Seq(Edges)]
             /\ PendingInv'
    <2>1. gc'.pending \in Seq(Edges) /\ \A k \in 1..Len(gc'.pending) : ~Cst(gc'.pending[k])
        BY <1>1, <1>4, CollectStep
    <2>2. gc' = [gc EXCEPT !.pending = gc'.pending]
        BY <1>1, <1>4 DEF CollectsFrom, Collect
    <2> QED
        BY <1>2, <2>1, <2>2
<1>5. CASE Scan
    BY <1>4, <1>5, ScanCollects
<1>6. CASE FollowEdge
    <2>1. CASE gc' = [gc EXCEPT !.pending = Tail(@)] /\ gc'.pending \in Seq(Edges)
                 /\ \A k \in 1..Len(gc'.pending) : ~Cst(gc'.pending[k])
        <3>1. gc' = [gc EXCEPT !.pending = gc'.pending]
            BY <1>1, <2>1
        <3> QED
            BY <1>2, <2>1, <3>1
    <2> QED
        BY <1>4, <1>6, <2>1, FollowEdgeCollects
<1>7. CASE StartGc
    <2>1. gc' = [on |-> TRUE, used |-> NodeUsed, pending |-> <<>>] /\ NodeUsed \in Nat
        BY <1>7, UsedFacts DEF StartGc
    <2> QED
        BY <1>3, <2>1 DEF PendingInv
<1>8. CASE gc' = NoGc
    BY <1>3, <1>8 DEF NoGc, PendingInv
<1>9. CASE gc' = gc
    BY <1>1, <1>9 DEF PendingInv, Cst, False
<1>10. Scan \/ FollowEdge \/ StartGc \/ gc' = NoGc \/ gc' = gc
    BY DEF Next, vars, Program, Machine, Apply, GetNode, Gc, Assign, Call, Finish,
        ReturnTrivial, ChangeAtTop, ReturnCached, Descend, SecondHalf, BothHalves, Overflow,
        Eliminate, Share, Allocate, Enlarge, GcSucceeded, NodeTableOverflow
<1> QED
    BY <1>5, <1>6, <1>7, <1>8, <1>9, <1>10

\* A call returns an edge or bddnull.
Returns ==
    /\ stack # <<>> /\ stack' = Front(stack)
    /\ ret' \in Edges \cup {Null} /\ ret' # NoRet
    /\ ~gc'.on

ReturnStep == \/ ReturnTrivial \/ ReturnCached \/ Overflow \/ Eliminate \/ Share \/ Allocate
              \/ NodeTableOverflow

LEMMA ReturnsFacts ==
    ASSUME IInv, ReturnStep
    PROVE  Returns
<1>1. stack # <<>> /\ ~gc'.on
    BY DEF ReturnStep, ReturnTrivial, ReturnCached, Overflow, Resumed, Eliminate, Share, Allocate,
           NewNeeded, Running, NodeTableOverflow, Scanned, NoGc, IInv, ControlInv
<1>2. NoRet \notin Edges /\ NoRet # Null
    BY ConstantFacts
<1>3. Top \in FrameType /\ FrameInv(Top) /\ OperandsLive(Top) /\ Top.h0 \in Edges
    BY <1>1, TopState DEF FrameType
<1>4. CASE ReturnTrivial
    <2> DEFINE h == Trivial(Top.op, Top.f, Top.g)
    <2>1. h # NoRet /\ ret' = h /\ stack' = Front(stack)
        BY <1>4 DEF ReturnTrivial
    <2>2. /\ Top.op \in BinaryOps \cup UnaryOps /\ Top.f \in Edges /\ Top.g \in Operands
          /\ OperandFits(Top.op, Top.g) /\ LiveEdge(Top.f)
          /\ Top.op \in BinaryOps => LiveEdge(Top.g)
        BY <1>3 DEF FrameType, FrameInv, OperandsLive
    <2>3. h # NoRet => h \in Edges
        BY <2>2, TrivialFacts
    <2> HIDE DEF h
    <2> QED
        BY <1>1, <1>2, <2>1, <2>3 DEF Returns
<1>5. CASE ReturnCached
    <2> DEFINE fr == Normal(Top)
    <2>1. /\ Top.pc = "enter" /\ ~gc.on /\ Hit(fr) /\ ret' = Inverted(fr, cache[Key(fr)].h)
          /\ stack' = Front(stack)
        BY <1>5 DEF ReturnCached, Running
    <2>2. fr \in FrameType /\ Key(fr) \in 0..Len(cache)
        BY <1>1, <2>1, NormalFacts
    <2> HIDE DEF fr
    <2>3. cache[Key(fr)].h \in Edges \cup {Null}
        BY <2>1, <2>2, HitInTable
    <2>4. ret' \in Edges \cup {Null}
        BY <2>1, <2>3, InvertedFacts
    <2> QED
        BY <1>1, <1>2, <2>1, <2>4 DEF Returns
<1>6. CASE Overflow \/ Eliminate \/ Share \/ Allocate \/ NodeTableOverflow
    <2>1. \A n \in Index : NodeEdge(n) \in Edges
        BY NodeEdgeFacts DEF NodeEdge
    <2>2. Equivalent \subseteq Index /\ Head(avail) \in Index
        BY HeadFree DEF Equivalent, Used
    <2>3. Null \in Edges \cup {Null}
        OBVIOUS
    <2>4. \E h \in Edges \cup {Null} : Return(Top, h)
        BY <1>3, <1>6, <2>1, <2>2, <2>3 DEF Overflow, Eliminate, Share, Allocate, NodeTableOverflow
    <2> QED
        BY <1>1, <2>4, ReturnValue DEF Returns
<1> QED
    BY <1>4, <1>5, <1>6 DEF ReturnStep

\* A call goes on, or calls.
PushStep == \/ ChangeAtTop \/ Descend \/ SecondHalf \/ BothHalves \/ Enlarge \/ GcSucceeded

LEMMA PushesFacts ==
    ASSUME IInv, PushStep
    PROVE  /\ stack # <<>> /\ stack' # <<>> /\ ret' = NoRet /\ gc' = NoGc
           /\ handle' = handle /\ call' = call
<1>1. /\ stack # <<>> /\ ret' = NoRet /\ gc' = NoGc
      /\ handle' = handle /\ call' = call
    BY DEF PushStep, ChangeAtTop, Descend, SecondHalf, BothHalves, Enlarge, GcSucceeded,
           Running, Resumed, NewNeeded, Scanned, IInv, ControlInv
<1>2. stack \in Seq(FrameType) /\ Len(stack) \in Nat /\ Len(stack) >= 1
    BY <1>1, StateFacts, TopState
<1>3. \E fr : stack' = Replaced(fr) \/ \E top : stack' = Append(Replaced(fr), top)
    BY DEF PushStep, ChangeAtTop, Descend, SecondHalf, BothHalves, Enlarge, GcSucceeded
<1>4. ASSUME NEW fr PROVE /\ Replaced(fr) # <<>>
                          /\ \A top : Append(Replaced(fr), top) # <<>>
    BY <1>2 DEF Replaced
<1> QED
    BY <1>1, <1>3, <1>4

LEMMA CallTypes ==
    /\ \A c \in CallType : c # NoCall
    /\ \A c \in CallType : [c EXCEPT !.failed = TRUE] \in CallType
<1>1. \A c \in CallType : c.op # "none"
    BY DEF CallType, BinaryOps, UnaryOps
<1>2. NoCall.op = "none"
    BY DEF NoCall
<1>3. \A c \in CallType : [c EXCEPT !.failed = TRUE] \in CallType
    BY DEF CallType
<1> QED
    BY <1>1, <1>2, <1>3

LEMMA NextCases ==
    ASSUME [Next]_vars
    PROVE  Program \/ Finish \/ ReturnStep \/ PushStep \/ StartGc \/ Scan \/ FollowEdge
           \/ UNCHANGED vars
BY DEF Next, Machine, Apply, GetNode, Gc, ReturnStep, PushStep

\* The program, and what it waits for.
LEMMA ControlStep ==
    ASSUME IInv, [Next]_vars
    PROVE  /\ call' = NoCall \/ call' \in CallType
           /\ handle' \in [Handles -> Edges \cup {Null}]
           /\ ret' \in Values
           /\ ControlInv'
<1> DEFINE Fine == /\ call' = NoCall => stack' = <<>> /\ ret' = NoRet
                   /\ call' # NoCall /\ stack' = <<>> => ret' # NoRet
                   /\ gc'.on => /\ stack' # <<>> /\ ret' = NoRet
                                /\ stack'[Len(stack')].pc = "make"
                                /\ stack'[Len(stack')].h1 # False
                   /\ ~gc'.on => gc' = NoGc
           Typed == /\ call' = NoCall \/ call' \in CallType
                    /\ handle' \in [Handles -> Edges \cup {Null}]
                    /\ ret' \in Values
<1>1. /\ call = NoCall \/ call \in CallType
      /\ handle \in [Handles -> Edges \cup {Null}]
      /\ ret \in Values
      /\ gc \in [on : BOOLEAN, used : Nat, pending : Seq(Edges)]
    BY StateFacts DEF IInv, TypesInv
<1>2. /\ call = NoCall => stack = <<>> /\ ret = NoRet
      /\ call # NoCall /\ stack = <<>> => ret # NoRet
      /\ gc.on => stack # <<>> /\ ret = NoRet /\ Top.pc = "make" /\ Top.h1 # False
      /\ ~gc.on => gc = NoGc
    BY DEF IInv, ControlInv
<1>3. NoRet \notin Edges /\ NoRet # Null /\ NoRet \in Values /\ ~NoGc.on /\ Null \in Values
    BY ConstantFacts DEF Values, NoGc
<1>4. ASSUME Program PROVE Fine /\ Typed
    <2>1. ASSUME NEW h \in Handles, NEW f \in Edges \cup {Null}, Assign(h, f)
          PROVE  Fine /\ Typed
        <3>1. call' = call /\ stack' = stack /\ ret' = ret /\ gc' = gc /\ call = NoCall
              /\ handle' = [handle EXCEPT ![h] = f]
            BY <2>1 DEF Assign, Idle, Store
        <3> QED
            BY <1>1, <1>2, <3>1
    <2>2. ASSUME NEW op \in BinaryOps \cup UnaryOps, NEW h \in Handles, NEW a \in Handles,
                 NEW g \in Handles \cup Vars, g \in IF op \in BinaryOps THEN Handles ELSE Vars,
                 Call(op, h, a, g)
          PROVE  Fine /\ Typed
        <3>1. /\ stack = <<>> /\ ret = NoRet
              /\ \/ ret' = Null /\ stack' = stack
                 \/ ret' = ret /\ \E fr : stack' = <<fr>>
            BY <2>2, CallFacts
        <3>2. call' \in CallType
            BY <2>2 DEF Call, CallType
        <3>3. handle' = handle /\ gc' = gc
            BY <2>2 DEF Call
        <3>5. (stack' # <<>> \/ ret' # NoRet) /\ ret' \in Values
            <4>1. ASSUME NEW fr, stack' = <<fr>> PROVE stack' # <<>>
                BY <4>1
            <4> QED
                BY <1>1, <1>3, <3>1, <4>1
        <3>6. ~gc.on /\ call' # NoCall
            BY <1>2, <3>1, <3>2, CallTypes
        <3> QED
            BY <1>1, <1>2, <3>2, <3>3, <3>5, <3>6
    <2> QED
        BY <1>4, <2>1, <2>2, ProgramSteps
<1>5. ASSUME Finish PROVE Fine /\ Typed
    <2>1. /\ call' = NoCall /\ ret' = NoRet /\ stack = <<>> /\ stack' = stack /\ gc' = gc
          /\ call # NoCall /\ handle' = [handle EXCEPT ![call.to] = ret]
        BY <1>5 DEF Finish
    <2>2. ret \in Edges \cup {Null}
        BY <1>1, <1>2, <2>1 DEF Values
    <2>3. handle' \in [Handles -> Edges \cup {Null}]
        BY <1>1, <2>1, <2>2
    <2> QED
        BY <1>1, <1>2, <1>3, <2>1, <2>3
<1>6. ASSUME ReturnStep PROVE Fine /\ Typed
    <2>1. stack # <<>> /\ ret' \in Edges \cup {Null} /\ ret' # NoRet /\ ~gc'.on
        BY <1>6, ReturnsFacts DEF Returns
    <2>2. call \in CallType
        BY <1>1, <1>2, <2>1
    <2>3. /\ call' = call \/ call' = [call EXCEPT !.failed = TRUE]
          /\ handle' = handle /\ (gc' = gc \/ gc' = NoGc)
        BY <1>6 DEF ReturnStep, ReturnTrivial, ReturnCached, Overflow, Eliminate, Share, Allocate,
                    NodeTableOverflow
    <2>4. call' \in CallType
        BY <2>2, <2>3, CallTypes
    <2> QED
        BY <1>1, <1>2, <2>1, <2>3, <2>4, CallTypes DEF Values
<1>7. ASSUME PushStep PROVE Fine /\ Typed
    <2>1. /\ stack # <<>> /\ stack' # <<>> /\ ret' = NoRet /\ gc' = NoGc
          /\ handle' = handle /\ call' = call
        BY <1>7, PushesFacts
    <2> QED
        BY <1>1, <1>2, <1>3, <2>1
<1>8. ASSUME StartGc PROVE Fine /\ Typed
    <2>1. UNCHANGED <<handle, call, stack, ret>> /\ gc'.on
        BY <1>8 DEF StartGc
    <2>2. stack # <<>> /\ Top.pc = "make" /\ Top.h1 # False /\ ret = NoRet
        BY <1>8, AtNewNode DEF StartGc
    <2> QED
        BY <1>1, <1>2, <2>1, <2>2 DEF Top
<1>9. ASSUME Scan \/ FollowEdge PROVE Fine /\ Typed
    <2>1. UNCHANGED <<handle, call, stack, ret>> /\ gc.on
        BY <1>9 DEF Scan, FollowEdge
    <2>2. gc'.on
        BY <1>1, <1>9, <2>1 DEF Scan, FollowEdge, Collect
    <2> QED
        BY <1>1, <1>2, <2>1, <2>2 DEF Top
<1>10. ASSUME UNCHANGED vars PROVE Fine /\ Typed
    BY <1>1, <1>2, <1>10 DEF vars, Top
<1> HIDE DEF Fine, Typed
<1>11. Fine /\ Typed
    BY <1>4, <1>5, <1>6, <1>7, <1>8, <1>9, <1>10, NextCases
<1>12. StackOk(stack', ret')
    BY StackStep
<1> QED
    BY <1>11, <1>12 DEF Fine, Typed, ControlInv, StackOk, TopFits, Top
-----------------------------------------------------------------------------
(***************************************************************************)
(* Action by action: the cache.                                            *)
(***************************************************************************)
\* An entry that the call on top writes when it returns h: the result, or
\* what follows from it for the other one of OFFSET and ONSET.
Follows(op, h, e) ==
    \/ e.op = op /\ e.h = h
    \/ op = "OFFSET" /\ h = Top.f /\ e.op = "ONSET" /\ e.h = False
    \/ op = "ONSET" /\ h = False /\ e.op = "OFFSET" /\ e.h = Top.f
WrittenFor(e, h) ==
    /\ e \in EntryType
    /\ e.op \in BinaryOps \cup UnaryOps /\ (e.op \in BinaryOps <=> Top.op \in BinaryOps)
    /\ e.f = Top.f /\ e.g = Top.g /\ e.h \in {h, False, Top.f}
    /\ Follows(Top.op, h, e)

LEMMA WrittenFacts ==
    ASSUME IInv, stack # <<>>, NEW h \in Edges \cup {Null}, NEW w, w = Written(Top, h)
    PROVE  /\ w \in Seq(EntryType) /\ Len(w) = Len(cache)
           /\ \A k \in 1..Len(w) : w[k] = cache[k] \/ WrittenFor(w[k], h)
<1> DEFINE entry(op, r) == [op |-> op, f |-> Top.f, g |-> Top.g, h |-> r]
           main == [cache EXCEPT ![Top.key] = entry(Top.op, h)]
<1>1. cache \in Seq(EntryType) /\ Len(cache) \in Nat
    BY CacheFacts DEF IInv
<1>2. /\ Top.op \in BinaryOps \cup UnaryOps /\ Top.f \in Edges /\ Top.g \in Operands
      /\ Top.key \in Nat /\ Top.key <= Len(cache)
    BY TopState DEF FrameType, FrameInv
<1>3. ASSUME NEW op \in BinaryOps \cup UnaryOps, op \in BinaryOps <=> Top.op \in BinaryOps,
             NEW r \in {h, False, Top.f}, Follows(Top.op, h, entry(op, r))
      PROVE  entry(op, r) \in EntryType /\ WrittenFor(entry(op, r), h)
    <2>1. r \in Edges \cup {Null}
        BY <1>2, <1>3, ConstantFacts
    <2>2. entry(op, r) \in EntryType
        BY <1>2, <2>1 DEF EntryType
    <2> QED
        BY <1>3, <2>2 DEF WrittenFor
<1>4. ASSUME NEW c \in Seq(EntryType), NEW i \in 1..Len(c), NEW e \in EntryType
      PROVE  /\ [c EXCEPT ![i] = e] \in Seq(EntryType)
             /\ Len([c EXCEPT ![i] = e]) = Len(c)
             /\ \A k \in 1..Len(c) : [c EXCEPT ![i] = e][k] = IF k = i THEN e ELSE c[k]
    OBVIOUS
<1>5. CASE Top.key = 0
    BY <1>1, <1>5 DEF Written
<1>6. CASE Top.key # 0
    <2>1. Top.key \in 1..Len(cache) /\ WrittenFor(entry(Top.op, h), h) /\ entry(Top.op, h) \in EntryType
        <3>1. Top.key \in 1..Len(cache)
            BY <1>1, <1>2, <1>6
        <3>2. h \in {h, False, Top.f} /\ Top.op \in BinaryOps \cup UnaryOps
            BY <1>2
        <3>3. Follows(Top.op, h, entry(Top.op, h))
            BY DEF Follows
        <3> HIDE DEF entry
        <3> QED
            BY <1>3, <3>1, <3>2, <3>3
    <2>2. /\ main \in Seq(EntryType) /\ Len(main) = Len(cache)
          /\ \A k \in 1..Len(cache) : main[k] = IF k = Top.key THEN entry(Top.op, h) ELSE cache[k]
        BY <1>1, <1>4, <2>1
    <2>3. \A k \in 1..Len(cache) : main[k] = cache[k] \/ WrittenFor(main[k], h)
        BY <2>1, <2>2
    <2>4. CASE w = main
        BY <2>2, <2>3, <2>4
    <2>5. ASSUME NEW op \in {"ONSET", "OFFSET"}, NEW r \in {False, Top.f},
                 Top.op \in {"ONSET", "OFFSET"}, Follows(Top.op, h, entry(op, r)),
                 w = [main EXCEPT ![Slot(op, Top.f, Top.g)] = entry(op, r)]
          PROVE  /\ w \in Seq(EntryType) /\ Len(w) = Len(cache)
                 /\ \A k \in 1..Len(w) : w[k] = cache[k] \/ WrittenFor(w[k], h)
        <3>1. op \in BinaryOps \cup UnaryOps /\ op \notin BinaryOps /\ Top.op \notin BinaryOps
            BY <2>5 DEF BinaryOps, UnaryOps
        <3>2. Slot(op, Top.f, Top.g) \in 1..Len(cache)
            BY <1>2, <3>1, SlotFacts DEF IInv
        <3>3. entry(op, r) \in EntryType /\ WrittenFor(entry(op, r), h)
            BY <1>3, <2>5, <3>1
        <3> HIDE DEF entry, main
        <3>4. /\ w \in Seq(EntryType) /\ Len(w) = Len(main)
              /\ \A k \in 1..Len(main) :
                    w[k] = IF k = Slot(op, Top.f, Top.g) THEN entry(op, r) ELSE main[k]
            BY <1>4, <2>2, <2>5, <3>2, <3>3
        <3> QED
            BY <2>2, <2>3, <3>3, <3>4
    <2>6. \/ w = main
          \/ /\ Top.op = "OFFSET" /\ h = Top.f
             /\ w = [main EXCEPT ![Slot("ONSET", Top.f, Top.g)] = entry("ONSET", False)]
          \/ /\ Top.op = "ONSET" /\ h = False
             /\ w = [main EXCEPT ![Slot("OFFSET", Top.f, Top.g)] = entry("OFFSET", Top.f)]
        BY <1>6 DEF Written
    <2>7. /\ Top.op = "OFFSET" /\ h = Top.f => Follows(Top.op, h, entry("ONSET", False))
          /\ Top.op = "ONSET" /\ h = False => Follows(Top.op, h, entry("OFFSET", Top.f))
        BY DEF Follows
    <2> HIDE DEF main, entry
    <2> QED
        BY <2>4, <2>5, <2>6, <2>7
<1> QED
    BY <1>5, <1>6

\* The steps that write results to the cache.
WriteStep == Overflow \/ Eliminate \/ Share \/ Allocate \/ NodeTableOverflow

LEMMA WriteCases ==
    ASSUME IInv, WriteStep
    PROVE  stack # <<>> /\ \E h \in Edges \cup {Null} : Return(Top, h)
<1>1. stack # <<>>
    BY ReturnsFacts DEF WriteStep, ReturnStep, Returns
<1>2. Top.h0 \in Edges /\ Null \in Edges \cup {Null}
    BY <1>1, TopState DEF FrameType
<1>3. \A n \in Index : NodeEdge(n) \in Edges
    BY NodeEdgeFacts DEF NodeEdge
<1>4. Equivalent \subseteq Index /\ Head(avail) \in Index
    BY HeadFree DEF Equivalent, Used
<1>5. \E h \in Edges \cup {Null} : Return(Top, h)
    BY <1>2, <1>3, <1>4 DEF WriteStep, Overflow, Eliminate, Share, Allocate, NodeTableOverflow
<1> QED
    BY <1>1, <1>5

LEMMA CacheCases ==
    ASSUME IInv, [Next]_vars
    PROVE  WriteStep \/ Enlarge \/ GcSucceeded \/ cache' = cache
BY DEF WriteStep, Next, vars, Program, Machine, Apply, GetNode, Gc, Assign, Call, Finish,
       ReturnTrivial, ChangeAtTop, ReturnCached, Descend, SecondHalf, BothHalves,
       StartGc, Scan, FollowEdge

\* Where the entries of the next cache come from.
EntryFrom(e) ==
    \/ \E k \in 1..Len(cache) : e = cache[k] /\ (GcSucceeded => ~Stale(e))
    \/ e = NoEntry
    \/ \E h \in Edges \cup {Null} : stack # <<>> /\ Return(Top, h) /\ WriteStep /\ WrittenFor(e, h)

LEMMA CacheTypeStep ==
    ASSUME IInv, [Next]_vars
    PROVE  /\ cache' \in Seq(EntryType) /\ Len(cache') \in Nat /\ Len(cache') >= Len(cache)
           /\ cache' # <<>>
           /\ \A k \in 1..Len(cache') : EntryFrom(cache'[k])
<1>1. /\ cache \in Seq(EntryType) /\ Len(cache) \in Nat /\ Len(cache) >= 1
      /\ \A k \in 1..Len(cache) : cache[k] \in EntryType
    BY CacheFacts DEF IInv
<1>2. NoEntry \in EntryType
    BY ConstantFacts DEF NoEntry, EntryType, Operands
<1>3. SUFFICES /\ cache' \in Seq(EntryType) /\ Len(cache') \in Nat /\ Len(cache') >= Len(cache)
               /\ \A k \in 1..Len(cache') : EntryFrom(cache'[k])
    BY <1>1
<1>4. CASE WriteStep
    <2>1. PICK h \in Edges \cup {Null} : Return(Top, h)
        BY <1>4, WriteCases
    <2>2. stack # <<>> /\ cache' = Written(Top, h)
        BY <1>4, <2>1, WriteCases DEF Return
    <2>3. /\ cache' \in Seq(EntryType) /\ Len(cache') = Len(cache)
          /\ \A k \in 1..Len(cache') : cache'[k] = cache[k] \/ WrittenFor(cache'[k], h)
        BY <2>2, WrittenFacts
    <2>4. ~GcSucceeded
        <3>1. ret' # NoRet
            BY <1>4, ReturnsFacts DEF WriteStep, ReturnStep, Returns
        <3> QED
            BY <3>1, PushesFacts DEF PushStep
    <2>5. \A k \in 1..Len(cache') : EntryFrom(cache'[k])
        BY <1>4, <2>1, <2>2, <2>3, <2>4 DEF EntryFrom
    <2> QED
        BY <1>1, <2>3, <2>5
<1>5. CASE cache' = cache /\ ~GcSucceeded
    BY <1>1, <1>5 DEF EntryFrom
<1>6. CASE Enlarge
    <2>1. ~GcSucceeded
        BY <1>6, AtNewNode DEF Enlarge, GcSucceeded, Scanned
    <2>2. nodeSpc' \in Nat /\ nodeSpc' <= NodeLimit
        BY <1>6, EnlargeList
    <2> DEFINE N == GrownSpc
               c == [k \in 1..N |-> cache[1 + ((k - 1) % Len(cache))]]
    <2>3. N \in Nat /\ N >= Len(cache)
        BY <2>2, GrownFacts DEF IInv
    <2>4. cache' = cache \/ cache' = c
        BY <1>6 DEF Enlarge
    <2> HIDE DEF N
    <2>5. \A k \in 1..N : 1 + ((k - 1) % Len(cache)) \in 1..Len(cache)
        <3>1. \A i \in Nat, n \in Nat : n >= 1 => 1 + (i % n) \in 1..n
            OBVIOUS
        <3>2. \A k \in 1..N : k - 1 \in Nat
            BY <2>3
        <3> QED
            BY <1>1, <3>1, <3>2
    <2>6. CASE cache' = c
        <3>1. \A k \in 1..N : cache[1 + ((k - 1) % Len(cache))] \in EntryType
            BY <1>1, <2>5
        <3>2. c \in Seq(EntryType) /\ Len(c) = N
            BY <2>3, <3>1
        <3>3. \A k \in 1..N : EntryFrom(c[k])
            BY <2>1, <2>5 DEF EntryFrom
        <3> HIDE DEF c
        <3> QED
            BY <2>3, <2>6, <3>2, <3>3
    <2> QED
        BY <1>5, <2>1, <2>4, <2>6
<1>7. CASE GcSucceeded
    <2> DEFINE c == [k \in 1..Len(cache) |-> IF Stale(cache[k]) THEN NoEntry ELSE cache[k]]
    <2>1. cache' = c
        BY <1>7 DEF GcSucceeded
    <2>2. \A k \in 1..Len(cache) : c[k] \in EntryType /\ EntryFrom(c[k])
        BY <1>1, <1>2 DEF EntryFrom
    <2>3. c \in Seq(EntryType) /\ Len(c) = Len(cache)
        BY <1>1, <2>2
    <2> HIDE DEF c
    <2> QED
        BY <1>1, <2>1, <2>2, <2>3
<1> QED
    BY <1>4, <1>5, <1>6, <1>7, CacheCases

\* Only a collection takes nodes from the table.
LEMMA UsedKept ==
    ASSUME IInv, [Next]_vars, ~Collects
    PROVE  \A n \in Index : node[n].var # 0 => node'[n].var # 0
BY StepSound, AllocateStep, HeadFree DEF Collects, SameNodes

\* Unless a collection has begun to take nodes, the entries were in order.
LEMMA OrderBefore ==
    ASSUME IInv, [Next]_vars, ~GcSucceeded, ~gc'.on \/ NodeUsed' = gc'.used
    PROVE  ~Collects /\ (~gc.on \/ NodeUsed = gc.used)
<1>1. /\ NodeUsed \in Nat /\ gc.used \in Nat /\ ~NoGc.on
      /\ gc \in [on : BOOLEAN, used : Nat, pending : Seq(Edges)]
      /\ gc.on => NodeUsed <= gc.used
    BY UsedFacts DEF IInv, AvailInv, TypesInv, NoGc
<1>2. ASSUME NEW t, NEW n, NEW rest, CollectsFrom(t, n, rest)
      PROVE  FALSE
    <2>1. NodeUsed' = NodeUsed - 1
        BY <1>1, <1>2, CollectStep, UsedOneLess
    <2>2. gc'.on = gc.on /\ gc'.used = gc.used
        BY <1>1, <1>2 DEF CollectsFrom, Collect
    <2>3. NodeUsed' = gc'.used => ~gc.on
        BY <1>1, <2>1, <2>2
    <2>4. ~gc.on
        BY <2>2, <2>3
    <2>5. ~gc'.on
        BY <2>2, <2>4
    <2>6. \/ Scan \/ FollowEdge \/ gc'.on
        <3>1. avail' # avail /\ Len(avail') = Len(avail) + 1
            <4>1. avail' = <<n>> \o avail /\ avail \in Seq(Index) /\ n \in Index
                BY <1>1, <1>2, CollectStep, AvailFacts DEF CollectsFrom, Collect, Used
            <4>2. Len(avail') = Len(avail) + 1 /\ Len(avail) \in Nat
                BY <4>1
            <4> QED
                BY <4>2
        <3>2. avail \in Seq(Index) /\ avail # <<>>
            BY AvailFacts
        <3>3. ~Allocate
            BY <3>1, <3>2 DEF Allocate
        <3>4. ~Enlarge
            BY <1>2, EnlargeList, AvailFacts DEF CollectsFrom
        <3> QED
            BY <3>1, <3>3, <3>4 DEF Next, vars, Program, Machine, Apply, GetNode, Gc, Assign, Call, Finish,
                ReturnTrivial, ChangeAtTop, ReturnCached, Descend, SecondHalf, BothHalves, Overflow,
                Eliminate, Share, StartGc, NodeTableOverflow, GcSucceeded
    <2> QED
        BY <2>4, <2>5, <2>6 DEF Scan, FollowEdge
<1>3. ~Collects
    BY <1>2 DEF Collects
<1>4. CASE gc.on
    <2>1. ~Allocate /\ ~Enlarge /\ ~StartGc
        BY <1>4, AllocateTop, AtNewNode DEF Enlarge, StartGc
    <2>2. /\ SameNodes(node, node')
          /\ gc'.on => gc'.used = gc.used
        BY <1>3, <2>1, QuietStep
    <2>3. NodeUsed' = NodeUsed
        BY <2>2, UsedFacts
    <2>4. gc'.on \/ NodeTableOverflow
        <3>1. FollowEdge => gc'.on
            BY <1>1, <1>3, <1>4, FollowEdgeCollects DEF Collects
        <3>2. ~Scan
            BY <1>3, ScanCollects DEF Collects
        <3> QED
            BY <1>4, <2>1, <3>1, <3>2, PushesFacts DEF Next, vars, Program, Machine, Apply, GetNode, Gc, Assign, Call, Finish,
                ReturnTrivial, ChangeAtTop, ReturnCached, Descend, SecondHalf, BothHalves, Overflow,
                Eliminate, Share, GcSucceeded
    <2> QED
        BY <1>3, <2>2, <2>3, <2>4 DEF NodeTableOverflow
<1> QED
    BY <1>3, <1>4

LEMMA WithinFacts ==
    ASSUME IInv, NEW f \in Edges, Cst(f) \/ node[Ndx(f)].var # 0
    PROVE  Within(f)
BY EdgeFacts DEF Within, IInv, AvailInv, Used

\* An entry written for the call on top names nodes of the table.
LEMMA EntryWritten ==
    ASSUME IInv, [Next]_vars, NEW h \in Edges \cup {Null}, stack # <<>>, Return(Top, h),
           WriteStep, NEW e, WrittenFor(e, h)
    PROVE  /\ OperandFits(e.op, e.g)
           /\ UsedEdge(node', e.f) /\ (e.op \in BinaryOps => UsedEdge(node', e.g))
           /\ UsedEdge(node', e.h)
           /\ e.f \in Edges /\ (e.op \in BinaryOps => e.g \in Edges) /\ e.h \in Edges \cup {Null}
<1>1. Top \in FrameType /\ FrameInv(Top) /\ OperandsLive(Top)
    BY TopState
<1>2. /\ OperandFits(e.op, e.g) /\ e.f \in Edges /\ (e.op \in BinaryOps => e.g \in Edges)
      /\ e.h \in Edges \cup {Null}
    BY <1>1 DEF FrameInv, OperandFits, WrittenFor, EntryType
<1>3. ~Collects
    <2>1. ret' # NoRet
        BY ReturnsFacts DEF WriteStep, ReturnStep, Returns
    <2>2. ASSUME NEW t, NEW n, NEW rest, CollectsFrom(t, n, rest) PROVE FALSE
        <3>1. stack' = Front(stack) /\ stack \in Seq(FrameType)
            BY StateFacts DEF Return
        <3>2. Len(Front(stack)) = Len(stack) - 1 /\ Len(stack) \in Nat
            BY <3>1, TopFacts, TopState
        <3>3. Front(stack) = stack
            BY <2>2, <3>1 DEF CollectsFrom
        <3>4. Len(stack) = Len(stack) - 1
            BY <3>2, <3>3
        <3> QED
            BY <3>2, <3>4
    <2> QED
        BY <2>2 DEF Collects
<1>4. \A f \in Edges : LiveEdge(f) => UsedEdge(node', f)
    <2>1. \A f \in Edges : LiveEdge(f) => UsedEdge(node, f)
        BY StateFacts
    <2> QED
        BY <1>3, <2>1, UsedKept, EdgeFacts DEF UsedEdge
<1>5. UsedEdge(node', h)
    <2>1. Sound(node', RefSetNext)
        BY StepSound
    <2>2. <<"ret", 0, ret'>> \in RefSetNext
        BY DEF RefSetNext, RefSet
    <2>3. ret' \in Values
        BY ControlStep
    <2>4. UsedEdge(node', ret')
        BY <2>1, <2>2, <2>3, RefUsed DEF UsedEdge
    <2>5. ret' = Inverted(Top, h)
        BY DEF Return
    <2>6. (Counted(ret') <=> Counted(h)) /\ (Counted(h) => Ndx(ret') = Ndx(h))
        BY <2>5, InvertedFacts
    <2> QED
        BY <2>4, <2>6 DEF UsedEdge
<1>6. UsedEdge(node', False)
    BY ValueFacts DEF UsedEdge
<1>7. UsedEdge(node', e.f) /\ (e.op \in BinaryOps => UsedEdge(node', e.g))
    BY <1>1, <1>2, <1>4 DEF WrittenFor, OperandsLive
<1>8. UsedEdge(node', e.h)
    <2>1. e.h = h \/ e.h = False \/ e.h = e.f
        BY DEF WrittenFor
    <2> QED
        BY <1>5, <1>6, <1>7, <2>1
<1> QED
    BY <1>2, <1>7, <1>8

LEMMA CacheStep ==
    ASSUME IInv, [Next]_vars
    PROVE  CacheInv'
<1>1. /\ cache' \in Seq(EntryType) /\ Len(cache') \in Nat
      /\ \A k \in 1..Len(cache') : EntryFrom(cache'[k])
    BY CacheTypeStep
<1>2. /\ nodeSpc' \in Nat /\ nodeSpc \in Nat /\ nodeSpc' >= nodeSpc
      /\ \A n \in Index : node'[n].var # 0 => n < nodeSpc'
    <2>1. nodeSpc' \in InitSpc..NodeLimit /\ FreeList(avail', node', nodeSpc')
        BY AvailSteps
    <2> QED
        BY <2>1, AvailSteps, AvailFacts, SizesAssumption DEF FreeList, UsedIn
<1>3. ASSUME NEW f \in Edges \cup {Null}
      PROVE  /\ Within(f) => Within(f)'
             /\ UsedEdge(node', f) => Within(f)'
             /\ UsedEdge(node', f) /\ f # Null => InTable(f)'
    <2>1. f \in Edges => f \in Nat /\ (Counted(f) <=> ~Cst(f)) /\ (~Cst(f) => Ndx(f) \in Index)
        BY EdgeFacts
    <2>2. Cst(Null) /\ \A n \in Index : n \in Nat
        BY ConstantFacts, NodeEdgeFacts DEF Cst
    <2>3. Cst(f) <=> Cst(f)'
        BY DEF Cst, False
    <2> QED
        BY <1>2, <1>3, <2>1, <2>2, <2>3 DEF Within, InTable, UsedEdge
<1>4. ASSUME NEW e, EntryFrom(e), e.op # "NULL"
      PROVE  EntryWithin(e)'
    <2>1. CASE \E k \in 1..Len(cache) : e = cache[k]
        <3>1. e \in EntryType /\ EntryWithin(e)
            BY <1>4, <2>1, CacheFacts DEF IInv, CacheInv
        <3>2. e.f \in Edges /\ e.h \in Edges \cup {Null} /\ (e.op \in BinaryOps => e.g \in Edges)
            BY <3>1 DEF EntryType, EntryWithin, OperandFits
        <3> QED
            BY <1>3, <3>1, <3>2 DEF EntryWithin
    <2>2. ASSUME NEW h \in Edges \cup {Null}, stack # <<>>, Return(Top, h), WriteStep,
                 WrittenFor(e, h)
          PROVE  EntryWithin(e)'
        <3>1. /\ UsedEdge(node', e.f) /\ (e.op \in BinaryOps => UsedEdge(node', e.g))
              /\ UsedEdge(node', e.h) /\ OperandFits(e.op, e.g)
              /\ e.f \in Edges /\ (e.op \in BinaryOps => e.g \in Edges) /\ e.h \in Edges \cup {Null}
            BY <2>2, EntryWritten
        <3> QED
            BY <1>3, <3>1 DEF EntryWithin
    <2> QED
        BY <1>4, <2>1, <2>2 DEF EntryFrom, NoEntry
<1>5. ASSUME ~gc'.on \/ NodeUsed' = gc'.used, NEW e, EntryFrom(e), e.op # "NULL"
      PROVE  EntryInv(e)'
    <2>1. CASE \E k \in 1..Len(cache) : e = cache[k] /\ (GcSucceeded => ~Stale(e))
        <3>1. e \in EntryType /\ EntryWithin(e)
            BY <1>5, <2>1, CacheFacts DEF IInv, CacheInv
        <3>2. /\ e.f \in Edges /\ e.h \in Edges \cup {Null} /\ (e.op \in BinaryOps => e.g \in Edges)
              /\ e.op \in BinaryOps \cup UnaryOps
            BY <1>5, <3>1 DEF EntryType, EntryWithin, OperandFits
        <3>3. CASE GcSucceeded
            <4>1. node' = node
                BY <3>3 DEF GcSucceeded
            <4>2. ~Collected(e.f) /\ ~Collected(e.h) /\ (e.op \in BinaryOps => ~Collected(e.g))
                BY <1>5, <2>1, <3>2, <3>3 DEF Stale, BinaryOps
            <4>3. ASSUME NEW f \in Edges, Within(f), ~Collected(f)
                  PROVE  InTable(f)'
                BY <4>1, <4>3 DEF Within, Collected, InTable, Cst, False
            <4> QED
                BY <3>1, <3>2, <4>2, <4>3 DEF EntryInv, EntryWithin
        <3>4. CASE ~GcSucceeded
            <4>1. ~Collects /\ (~gc.on \/ NodeUsed = gc.used)
                BY <1>5, <3>4, OrderBefore
            <4>2. EntryInv(e)
                BY <1>5, <2>1, <4>1 DEF IInv, CacheInv
            <4>3. ASSUME NEW f \in Edges, InTable(f)
                  PROVE  InTable(f)'
                BY <4>1, <4>3, UsedKept, EdgeFacts DEF InTable, Cst, False
            <4> QED
                BY <3>2, <4>2, <4>3 DEF EntryInv
        <3> QED
            BY <3>3, <3>4
    <2>2. ASSUME NEW h \in Edges \cup {Null}, stack # <<>>, Return(Top, h), WriteStep,
                 WrittenFor(e, h)
          PROVE  EntryInv(e)'
        <3>1. /\ UsedEdge(node', e.f) /\ (e.op \in BinaryOps => UsedEdge(node', e.g))
              /\ UsedEdge(node', e.h)
              /\ e.f \in Edges /\ (e.op \in BinaryOps => e.g \in Edges) /\ e.h \in Edges \cup {Null}
            BY <2>2, EntryWritten
        <3>2. \A f \in Edges : f # Null
            BY ConstantFacts
        <3>3. /\ InTable(e.f)' /\ (e.op \in BinaryOps => InTable(e.g)')
              /\ e.h # Null => InTable(e.h)'
            BY <1>3, <3>1, <3>2
        <3> QED
            BY <3>3 DEF EntryInv, Null, False
    <2> QED
        BY <1>5, <2>1, <2>2 DEF EntryFrom, NoEntry
<1> QED
    BY <1>1, <1>4, <1>5 DEF CacheInv
-----------------------------------------------------------------------------
(***************************************************************************)
(* The inductive invariant.                                                *)
(***************************************************************************)
LEMMA FramesStep ==
    ASSUME IInv, [Next]_vars
    PROVE  FramesInv'
<1>1. Len(cache) \in Nat /\ Len(cache') \in Nat /\ Len(cache') >= Len(cache)
    BY CacheTypeStep, CacheFacts DEF IInv
<1>2. StackOk(stack', ret')
    BY StackStep
<1>3. ASSUME NEW fr, fr \in FrameType, FrameInv(fr)
      PROVE  FrameInv(fr)'
    <2>1. fr.key \in Nat
        BY <1>3 DEF FrameType
    <2>2. fr.key <= Len(cache')
        BY <1>1, <1>3, <2>1 DEF FrameInv
    <2> QED
        BY <1>3, <2>2 DEF FrameInv
<1> QED
    BY <1>2, <1>3 DEF FramesInv, StackOk, GoodFrame

LEMMA TypesStep ==
    ASSUME IInv, [Next]_vars
    PROVE  TypesInv'
<1>1. node' \in TableType
    BY TallyStep
<1>2. avail' \in Seq(Index) /\ nodeSpc' \in InitSpc..NodeLimit
    BY AvailSteps
<1>3. cache' \in Seq(EntryType) /\ cache' # <<>>
    BY CacheTypeStep
<1>4. /\ call' = NoCall \/ call' \in CallType
      /\ handle' \in [Handles -> Edges \cup {Null}]
      /\ ret' \in Values
    BY ControlStep
<1>5. gc' \in [on : BOOLEAN, used : Nat, pending : Seq(Edges)]
    BY GcStep
<1>6. stack' \in Seq(FrameType)
    BY StackStep DEF StackOk
<1>7. TypeOK'
    BY <1>1, <1>2, <1>3, <1>4, <1>5 DEF TypeOK, TableType, NodeType, EntryType, Values
<1> QED
    BY <1>3, <1>4, <1>5, <1>6, <1>7 DEF TypesInv

LEMMA InitInv == Init => IInv
<1> SUFFICES ASSUME Init PROVE IInv
    OBVIOUS
<1>1. /\ NodeLimit \in Nat /\ InitSpc \in Nat /\ InitSpc >= 2 /\ InitSpc <= NodeLimit
      /\ CacheSpc0 \in Nat /\ CacheSpc0 >= 1
    BY SizesAssumption
<1>2. /\ stack = <<>> /\ ret = NoRet /\ call = NoCall /\ gc = NoGc /\ nodeSpc = InitSpc
      /\ \A k \in 1..Len(stack) : FALSE
      /\ gc.pending = <<>> /\ ~gc.on /\ \A k \in 1..Len(gc.pending) : FALSE
    BY DEF Init, NoGc
<1>3. node \in TableType /\ \A n \in Index : node[n] = FreeNode
    BY <1>1, ConstantFacts DEF Init, TableType, NodeType, FreeNode
<1>4. avail \in Seq(Index) /\ Len(avail) = InitSpc /\ \A k \in 1..InitSpc : avail[k] = k - 1
    <2>1. \A k \in 1..InitSpc : k - 1 \in Index
        BY <1>1 DEF Index
    <2> QED
        BY <1>1, <2>1 DEF Init
<1>5. /\ cache \in Seq(EntryType) /\ Len(cache) = CacheSpc0
      /\ \A k \in 1..Len(cache) : cache[k] = NoEntry
    <2>1. NoEntry \in EntryType
        BY ConstantFacts DEF NoEntry, EntryType, Operands
    <2> QED
        BY <1>1, <2>1 DEF Init
<1>6. handle \in [Handles -> Edges \cup {Null}] /\ \A h \in Handles : handle[h] = False
    BY ConstantFacts DEF Init
<1>7. TypesInv
    <2>1. cache # <<>>
        BY <1>1, <1>5
    <2>2. gc \in [on : BOOLEAN, used : Nat, pending : Seq(Edges)] /\ stack \in Seq(FrameType)
        BY <1>2 DEF NoGc
    <2>3. nodeSpc \in InitSpc..NodeLimit
        BY <1>1, <1>2
    <2>4. TypeOK
        BY <1>2, <1>3, <1>4, <1>5, <1>6, <2>2, <2>3 DEF TypeOK, TableType, NodeType, EntryType
    <2> QED
        BY <1>2, <2>1, <2>2, <2>4 DEF TypesInv
<1>8. ControlInv
    <2>1. \A k \in 1..(Len(stack) - 1) : FALSE
        BY <1>2
    <2> QED
        BY <1>2, <2>1 DEF ControlInv
<1>9. FramesInv /\ OperandsInv /\ PendingInv
    BY <1>2 DEF FramesInv, OperandsInv, PendingInv
<1>10. FreeInv
    BY <1>3 DEF FreeInv, FreeIn
<1>11. Used = {} /\ NodeUsed = 0
    <2>1. Used = {}
        BY <1>3 DEF Used, FreeNode
    <2> QED
        BY <2>1, FS_EmptySet DEF NodeUsed
<1>12. TallyInv
    <2>1. ASSUME NEW r \in References PROVE r[3] \in Values /\ ~Counted(r[3])
        <3>1. False \in Values /\ NoRet \in Values
            BY ConstantFacts DEF Values
        <3> QED
            BY <1>2, <1>6, <1>11, <2>1, <3>1, ValueFacts DEF References
    <2>2. \A n \in Index : Hits(References, n) = {}
        BY <2>1, HitFacts DEF Hits
    <2> QED
        BY <1>3, <2>2, FS_EmptySet DEF TallyInv, Tally, FreeNode
<1>13. AvailInv
    <2>1. \A k \in 1..Len(avail) : avail[k] \in Index /\ avail[k] < nodeSpc /\ node[avail[k]].var = 0
        BY <1>1, <1>2, <1>3, <1>4 DEF FreeNode, Index
    <2>2. \A n \in Index : n < nodeSpc => \E k \in 1..Len(avail) : avail[k] = n
        <3>1. \A n \in Index : n < nodeSpc => n + 1 \in 1..Len(avail) /\ avail[n + 1] = n
            BY <1>1, <1>2, <1>4 DEF Index
        <3> QED
            BY <3>1
    <2>3. \A k, l \in 1..Len(avail) : avail[k] = avail[l] => k = l
        BY <1>1, <1>4
    <2> QED
        BY <1>1, <1>2, <1>4, <1>11, <2>1, <2>2, <2>3 DEF AvailInv
<1>14. CacheInv
    BY <1>5 DEF CacheInv, NoEntry
<1> QED
    BY <1>7, <1>8, <1>9, <1>10, <1>12, <1>13, <1>14 DEF IInv

(***************************************************************************)
(* The named parts of the invariant are kept by every step of the program, *)
(* of apply(), of getnode() and of bddgc().                                *)
(***************************************************************************)
LEMMA IInvKept == IInv /\ [Next]_vars => IInv'
<1> SUFFICES ASSUME IInv, [Next]_vars PROVE IInv'
    OBVIOUS
<1>1. TypesInv' /\ ControlInv' /\ FramesInv' /\ PendingInv'
    BY TypesStep, ControlStep, FramesStep, GcStep
<1>2. FreeInv' /\ TallyInv'
    BY TallyStep
<1>3. OperandsInv' /\ AvailInv' /\ CacheInv'
    BY OperandsStep, AvailStep, CacheStep
<1> QED
    BY <1>1, <1>2, <1>3 DEF IInv

LEMMA IInvAlways == Spec => []IInv
BY InitInv, IInvKept, PTL DEF Spec

(***************************************************************************)
(* Every index, edge and operand that is ever used is one of the table, of *)
(* the cache or of the variables.                                          *)
(***************************************************************************)
THEOREM TypesCorrect == Spec => []TypeOK
<1>1. IInv => TypeOK
    BY DEF IInv, TypesInv
<1> QED
    BY <1>1, IInvAlways, PTL

(***************************************************************************)
(* The count of a node is the number of the references to it, in the       *)
(* middle of an operation, of a collection and after an allocation that    *)
(* failed as well.                                                         *)
(***************************************************************************)
THEOREM CountsCorrect == Spec => []CountsExact
<1>1. IInv => CountsExact
    BY DEF IInv, TallyInv, Tally, Hits, CountsExact
<1> QED
    BY <1>1, IInvAlways, PTL

(***************************************************************************)
(* The free list is the set of the free nodes of the table, without        *)
(* repetition, and it is never empty: getnode() never takes a node from an *)
(* empty list.                                                             *)
(***************************************************************************)
THEOREM FreeListCorrect == Spec => []FreeListExact
<1>1. ASSUME IInv PROVE FreeListExact
    <2>1. /\ avail \in Seq(Index) /\ Len(avail) \in Nat /\ Len(avail) >= 1 /\ avail # <<>>
          /\ nodeSpc \in Nat /\ nodeSpc <= NodeLimit /\ NodeLimit \in Nat
          /\ NodeUsed \in Nat /\ NodeUsed + Len(avail) = nodeSpc
        BY <1>1, AvailFacts, ConstantFacts
    <2>2. FreeList(avail, node, nodeSpc) /\ \A n \in Used : n < nodeSpc
        BY <1>1, FreeListNow DEF IInv, AvailInv
    <2>3. ToSet(avail) = {n \in 0..(nodeSpc - 1) : node[n].var = 0}
        <3>1. ToSet(avail) = {avail[k] : k \in 1..Len(avail)}
            BY <2>1 DEF ToSet
        <3>2. ASSUME NEW k \in 1..Len(avail)
              PROVE  avail[k] \in 0..(nodeSpc - 1) /\ node[avail[k]].var = 0
            BY <2>1, <2>2 DEF FreeList, Index
        <3>3. ASSUME NEW n \in 0..(nodeSpc - 1), node[n].var = 0
              PROVE  \E k \in 1..Len(avail) : avail[k] = n
            <4>1. n \in Index /\ n < nodeSpc
                BY <2>1 DEF Index
            <4> QED
                BY <2>2, <3>3, <4>1 DEF FreeList
        <3> QED
            BY <3>1, <3>2, <3>3
    <2>4. ToSet(avail) = (0..(nodeSpc - 1)) \ Used
        BY <2>1, <2>3 DEF Used, Index
    <2>5. Used \subseteq 0..(nodeSpc - 1)
        BY <2>1, <2>2 DEF Used, Index
    <2>6. IsFiniteSet(0..(nodeSpc - 1)) /\ Cardinality(0..(nodeSpc - 1)) = nodeSpc
        <3>1. /\ 0 \in Int /\ nodeSpc - 1 \in Int /\ ~(0 > nodeSpc - 1)
              /\ (nodeSpc - 1) - 0 + 1 = nodeSpc
            BY <1>1, <2>1, AvailFacts
        <3> QED
            BY <3>1, FS_Interval
    <2>7. /\ IsFiniteSet(ToSet(avail)) /\ ToSet(avail) \cup Used = 0..(nodeSpc - 1)
          /\ ToSet(avail) \cap Used = {}
        BY <2>4, <2>5, <2>6, FS_Difference
    <2>8. Cardinality(ToSet(avail)) \in Nat /\ Cardinality({}) = 0
        BY <2>7, FS_CardinalityType, FS_EmptySet
    <2>9. nodeSpc = Cardinality(ToSet(avail)) + NodeUsed - 0
        <3>1. IsFiniteSet(Used) /\ Cardinality(Used) = NodeUsed
            BY UsedFacts DEF NodeUsed
        <3>2. Cardinality(ToSet(avail) \cup Used)
                = Cardinality(ToSet(avail)) + Cardinality(Used) - Cardinality(ToSet(avail) \cap Used)
            BY <2>7, <3>1, FS_Union
        <3> QED
            BY <2>6, <2>7, <2>8, <3>1, <3>2
    <2>10. Len(avail) = Cardinality(ToSet(avail))
        BY <2>1, <2>8, <2>9
    <2> QED
        BY <2>1, <2>2, <2>3, <2>10 DEF FreeListExact
<1> QED
    BY <1>1, IInvAlways, PTL

(***************************************************************************)
(* Entries of the cache do not outlive the nodes they name, the growth of  *)
(* the cache, the reuse of nodes and the entries written from a place      *)
(* found before a collection included.                                     *)
(***************************************************************************)
CacheInTable ==
    ~gc.on => \A e \in ToSet(cache) :
        e.op # "NULL" =>
            /\ e.f \in TableEdges
            /\ e.op \in BinaryOps => e.g \in TableEdges
            /\ e.h # Null => e.h \in TableEdges

THEOREM CacheCurrent == Spec => []CacheInTable
<1>1. ASSUME IInv PROVE CacheInTable
    <2>1. ASSUME ~gc.on, NEW k \in 1..Len(cache), cache[k].op # "NULL"
          PROVE  /\ cache[k].f \in TableEdges
                 /\ cache[k].op \in BinaryOps => cache[k].g \in TableEdges
                 /\ cache[k].h # Null => cache[k].h \in TableEdges
        <3>1. cache[k] \in EntryType /\ EntryInv(cache[k]) /\ EntryWithin(cache[k])
            BY <1>1, <2>1, CacheFacts DEF IInv, CacheInv
        <3>2. \A f \in Edges : InTable(f) => f \in TableEdges
            BY EdgeFacts DEF InTable, TableEdges, Used
        <3> QED
            BY <3>1, <3>2 DEF EntryType, EntryInv, EntryWithin, OperandFits
    <2>2. cache \in Seq(EntryType)
        BY <1>1, CacheFacts DEF IInv
    <2>3. \A e \in ToSet(cache) : \E k \in 1..Len(cache) : e = cache[k]
        BY <2>2 DEF ToSet
    <2> QED
        BY <2>1, <2>3 DEF CacheInTable
<1> QED
    BY <1>1, IInvAlways, PTL
=============================================================================
