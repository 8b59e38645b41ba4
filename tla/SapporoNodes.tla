---------------------------- MODULE SapporoNodes ----------------------------
(***************************************************************************)
(* The core of SAPPORO (SAPPOROBDD/bddc.c) as the ZBDD objects above it    *)
(* use it: the node table with its free list and reference counts, garbage *)
(* collection, the operation cache, and apply() as a machine with a stack, *)
(* one frame per call, so that a garbage collection starts where it does   *)
(* in the code: in getnode(), in the middle of the recursion.              *)
(*                                                                         *)
(* A bddp is a number: 2 * index of a node, plus 1 for a negative edge;    *)
(* the constants come after the nodes.  A variable is named by its level.  *)
(* The chains of the hash table are left out, and with them the failure to *)
(* enlarge one: looking a node up looks at all allocated nodes.  The hash  *)
(* function of the cache is a parameter.                                   *)
(***************************************************************************)
EXTENDS Integers, Sequences, FiniteSets, SequencesExt

CONSTANTS
    NumVars,           \* VarUsed
    InitSpc,           \* the first NodeSpc
    NodeLimit,         \* NodeLimit
    Handles,           \* the ZBDD objects of the program
    Ops,               \* the operations the program uses
    CacheSpc0,         \* the first CacheSpc
    CacheKey(_, _, _)  \* B_CACHEKEY, before it is cut to the size of the cache

ASSUME SizesAssumption ==
    /\ NumVars \in Nat \ {0}
    /\ InitSpc \in Nat \ {0, 1}
    /\ NodeLimit \in Nat
    /\ InitSpc <= NodeLimit
    /\ CacheSpc0 \in Nat \ {0}

VARIABLES
    node,    \* Node: var 0 for a free one
    avail,   \* the list that starts at Avail
    nodeSpc, \* NodeSpc
    cache,   \* Cache
    handle,  \* _zbdd of each object
    call,    \* the operation the program waits for; failed: memory ran out in it
    stack,   \* the calls of apply() and the getzbddp() in it, the last on top
    ret,     \* the value being returned
    gc       \* where bddgc() is

vars == <<node, avail, nodeSpc, cache, handle, call, stack, ret, gc>>

Vars == 1..NumVars
False == 2 * NodeLimit
True == False + 1
Null == False + 2       \* bddnull
NoRet == False + 3
Edges == 0..True
Index == 0..(NodeLimit - 1)

Cst(f) == f >= False
Neg(f) == f % 2 = 1
Not(f) == IF Neg(f) THEN f - 1 ELSE f + 1
Abs(f) == IF Neg(f) THEN f - 1 ELSE f
Ndx(f) == f \div 2

FreeNode == [var |-> 0, rfc |-> 0, f0 |-> False, f1 |-> False]
NoEntry == [op |-> "NULL", f |-> False, g |-> False, h |-> False]
NoCall == [op |-> "none", to |-> 0, a |-> 0, g |-> 0, failed |-> FALSE]
NoGc == [on |-> FALSE, used |-> 0, pending |-> <<>>]

Used == {n \in Index : node[n].var # 0}
NodeUsed == Cardinality(Used)

BinaryOps == {"INTERSEC", "UNION", "SUBTRACT"}
UnaryOps == {"OFFSET", "ONSET", "CHANGE"}
Operands == Edges \cup Vars  \* the second operand of a call

ASSUME CacheKeyAssumption ==
    \A op \in BinaryOps \cup UnaryOps, f \in Edges, g \in Operands : CacheKey(op, f, g) \in Nat

\* bddinit(), and ZBDD objects made by ZBDD().
Init ==
    /\ node = [n \in Index |-> FreeNode]
    /\ avail = [k \in 1..InitSpc |-> k - 1]
    /\ nodeSpc = InitSpc
    /\ cache = [k \in 1..CacheSpc0 |-> NoEntry]
    /\ handle = [h \in Handles |-> False]
    /\ call = NoCall
    /\ stack = <<>>
    /\ ret = NoRet
    /\ gc = NoGc
-----------------------------------------------------------------------------
(***************************************************************************)
(* Reference counts.                                                       *)
(***************************************************************************)
Counted(f) == f # Null /\ ~Cst(f)

\* bddcopy(f) and bddfree(f): the table with the count changed.
Inc(t, f) == IF Counted(f) THEN [t EXCEPT ![Ndx(f)].rfc = @ + 1] ELSE t
Dec(t, f) == IF Counted(f) THEN [t EXCEPT ![Ndx(f)].rfc = @ - 1] ELSE t
RfcOne(f) == Cst(f) \/ node[Ndx(f)].rfc = 1
-----------------------------------------------------------------------------
(***************************************************************************)
(* The program: ZBDD objects are assigned and operated upon.               *)
(***************************************************************************)
Idle == call = NoCall

\* operator=
Store(t, h, f) ==
    /\ node' = Dec(Inc(t, f), handle[h])
    /\ handle' = [handle EXCEPT ![h] = f]

\* h = 0, h = 1 or h = g.
Assign(h, f) ==
    /\ Idle
    /\ handle[h] # f
    /\ Store(node, h, f)
    /\ UNCHANGED <<avail, nodeSpc, cache, call, stack, ret, gc>>

Frame(op, f, g) ==
    [op |-> op, f |-> f, g |-> g, v |-> 0, f1 |-> False, g1 |-> False,
     h0 |-> False, h1 |-> False, key |-> 0, inv |-> FALSE, pc |-> "enter"]

\* h = a op g, where g is an object or, for OffSet, OnSet0 and Change, a
\* variable.  An operand that is bddnull makes the result bddnull; OffSet
\* and OnSet0 deal with constants themselves, as apply() does.
Call(op, h, a, g) ==
    LET arg == IF op \in BinaryOps THEN handle[g] ELSE g
    IN  /\ Idle
        /\ call' = [op |-> op, to |-> h, a |-> a, g |-> g, failed |-> FALSE]
        /\ IF handle[a] = Null \/ (op \in BinaryOps /\ arg = Null)
           THEN ret' = Null /\ UNCHANGED stack
           ELSE stack' = <<Frame(op, handle[a], arg)>> /\ UNCHANGED ret
        /\ UNCHANGED <<node, avail, nodeSpc, cache, handle, gc>>

\* The object takes the result over.
Finish ==
    /\ call # NoCall
    /\ stack = <<>>
    /\ handle' = [handle EXCEPT ![call.to] = ret]
    /\ node' = Dec(node, handle[call.to])
    /\ call' = NoCall
    /\ ret' = NoRet
    /\ UNCHANGED <<avail, nodeSpc, cache, stack, gc>>
-----------------------------------------------------------------------------
(***************************************************************************)
(* apply()                                                                 *)
(***************************************************************************)
Top == stack[Len(stack)]
Running(pc) == stack # <<>> /\ ret = NoRet /\ ~gc.on /\ Top.pc = pc
Replaced(fr) == [stack EXCEPT ![Len(stack)] = fr]

Lev(f) == IF Cst(f) THEN 0 ELSE node[Ndx(f)].var
\* Mutation: the negative edge is forgotten.
Cofactor0Unsigned(f) == node[Ndx(f)].f0

Cofactor0(f) == LET f0 == node[Ndx(f)].f0 IN IF Neg(f) # Neg(f0) THEN Not(f0) ELSE f0
Cofactor1(f) == node[Ndx(f)].f1

\* The trivial and special cases that need no new node; else NoRet.
Trivial(op, f, g) ==
    CASE op = "INTERSEC" ->
            IF f = False \/ g = False THEN False
            ELSE IF f = True THEN IF Neg(g) THEN True ELSE False
            ELSE IF g = True THEN IF Neg(f) THEN True ELSE False
            ELSE IF f = g THEN f
            ELSE IF f = Not(g) THEN Abs(f)
            ELSE NoRet
      [] op = "UNION" ->
            IF f = False THEN g
            ELSE IF f = True THEN IF Neg(g) THEN g ELSE Not(g)
            ELSE IF g = False \/ f = g THEN f
            ELSE IF g = True \/ f = Not(g) THEN IF Neg(f) THEN f ELSE Not(f)
            ELSE NoRet
      [] op = "SUBTRACT" ->
            IF f = False \/ f = g THEN False
            ELSE IF f = True \/ f = Not(g) THEN IF Neg(g) THEN False ELSE True
            ELSE IF g = False THEN f
            ELSE IF g = True THEN Abs(f)
            ELSE NoRet
      [] op = "OFFSET" ->
            IF Lev(f) < g THEN f
            ELSE IF Lev(f) = g THEN Cofactor0(f)
            ELSE NoRet
      [] op = "ONSET" ->
            IF Lev(f) < g THEN False
            ELSE IF Lev(f) = g THEN Cofactor1(f)
            ELSE NoRet
      [] op = "CHANGE" -> IF f = False THEN False ELSE NoRet

\* The frame with its operands in the order and with the sign in which they
\* are looked up: the swap of commuting operands, the negation of OFFSET
\* (undone in the result) and ONSET.
Normal(fr) ==
    IF fr.op \in {"INTERSEC", "UNION"} /\ fr.f < fr.g
    THEN [fr EXCEPT !.f = fr.g, !.g = fr.f]
    ELSE IF fr.op \in {"OFFSET", "ONSET"} /\ Neg(fr.f)
    THEN [fr EXCEPT !.f = Not(fr.f), !.inv = (fr.op = "OFFSET")]
    ELSE fr

Inverted(fr, h) == IF fr.inv /\ h # Null THEN Not(h) ELSE h

\* Change of a variable above all those of f, or of the top one: a node is
\* made at once.
Direct(fr) == fr.op = "CHANGE" /\ Lev(fr.f) <= fr.g

Slot(op, f, g) == 1 + (CacheKey(op, f, g) % Len(cache))

\* The cache is not asked for operands that nothing else refers to: slot 0.
Key(fr) == IF RfcOne(fr.f) /\ (fr.op \in BinaryOps => RfcOne(fr.g))
           THEN 0 ELSE Slot(fr.op, fr.f, fr.g)
Hit(fr) == /\ Key(fr) # 0
           /\ LET e == cache[Key(fr)] IN e.op = fr.op /\ e.f = fr.f /\ e.g = fr.g

ReturnTrivial ==
    /\ Running("enter")
    /\ LET h == Trivial(Top.op, Top.f, Top.g)
       IN  /\ h # NoRet
           /\ ret' = h
           /\ node' = Inc(node, h)
    /\ stack' = Front(stack)
    /\ UNCHANGED <<avail, nodeSpc, cache, handle, call, gc>>

ChangeAtTop ==
    /\ Running("enter")
    /\ Trivial(Top.op, Top.f, Top.g) = NoRet
    /\ Direct(Top)
    /\ LET h0 == IF Lev(Top.f) < Top.g THEN False ELSE Cofactor1(Top.f)
           h1 == IF Lev(Top.f) < Top.g THEN Top.f ELSE Cofactor0(Top.f)
       IN  /\ node' = Inc(Inc(node, h0), h1)
           /\ stack' = Replaced([Top EXCEPT !.v = Top.g, !.h0 = h0, !.h1 = h1, !.pc = "make"])
    /\ UNCHANGED <<avail, nodeSpc, cache, handle, call, ret, gc>>

ReturnCached ==
    /\ Running("enter")
    /\ Trivial(Top.op, Top.f, Top.g) = NoRet
    /\ ~Direct(Top)
    /\ LET fr == Normal(Top)
           h == cache[Key(fr)].h
       IN  /\ Hit(fr)
           /\ ret' = Inverted(fr, h)
           /\ node' = Inc(node, h)
    /\ stack' = Front(stack)
    /\ UNCHANGED <<avail, nodeSpc, cache, handle, call, gc>>

\* Not in the cache: the 0-edges first.
Descend ==
    /\ Running("enter")
    /\ Trivial(Top.op, Top.f, Top.g) = NoRet
    /\ ~Direct(Top)
    /\ LET fr == Normal(Top)
           binary == fr.op \in BinaryOps
           flev == Lev(fr.f)
           glev == IF binary THEN Lev(fr.g) ELSE 0
           f0 == IF flev >= glev THEN Cofactor0(fr.f) ELSE fr.f
           f1 == IF flev >= glev THEN Cofactor1(fr.f) ELSE False
           g0 == IF binary /\ flev <= glev THEN Cofactor0(fr.g) ELSE fr.g
           g1 == IF ~binary THEN fr.g ELSE IF flev <= glev THEN Cofactor1(fr.g) ELSE False
       IN  /\ ~Hit(fr)
           /\ stack' = Append(
                Replaced([fr EXCEPT !.v = IF flev >= glev THEN flev ELSE glev,
                                    !.f1 = f1, !.g1 = g1, !.key = Key(fr), !.pc = "h0"]),
                Frame(fr.op, f0, g0))
    /\ UNCHANGED <<node, avail, nodeSpc, cache, handle, call, ret, gc>>

\* "Saving to Cache": also the entries that follow from the result.  The
\* result goes to the slot found before the table, and the cache, may have
\* been enlarged.
Written(fr, h) ==
    LET entry(op, r) == [op |-> op, f |-> fr.f, g |-> fr.g, h |-> r]
        main == [cache EXCEPT ![fr.key] = entry(fr.op, h)]
    IN  IF fr.key = 0 THEN cache
        ELSE IF fr.op = "OFFSET" /\ h = fr.f
             THEN [main EXCEPT ![Slot("ONSET", fr.f, fr.g)] = entry("ONSET", False)]
        ELSE IF fr.op = "ONSET" /\ h = False
             THEN [main EXCEPT ![Slot("OFFSET", fr.f, fr.g)] = entry("OFFSET", fr.f)]
        ELSE main

\* The call on top returns h.
Return(fr, h) ==
    /\ ret' = Inverted(fr, h)
    /\ cache' = Written(fr, h)
    /\ stack' = Front(stack)

Resumed(pc) == stack # <<>> /\ ret # NoRet /\ Top.pc = pc

\* The result for the 0-edges; on to the 1-edges.
SecondHalf ==
    /\ Resumed("h0")
    /\ ret # Null
    /\ stack' = Append(Replaced([Top EXCEPT !.h0 = ret, !.pc = "h1"]),
                       Frame(Top.op, Top.f1, Top.g1))
    /\ ret' = NoRet
    /\ UNCHANGED <<node, avail, nodeSpc, cache, handle, call, gc>>

BothHalves ==
    /\ Resumed("h1")
    /\ ret # Null
    /\ stack' = Replaced([Top EXCEPT !.h1 = ret, !.pc = "make"])
    /\ ret' = NoRet
    /\ UNCHANGED <<node, avail, nodeSpc, cache, handle, call, gc>>

\* Mutation: the first half is not given back when the second overflows.
OverflowLeaks ==
    /\ ret = Null
    /\ Resumed("h0") \/ Resumed("h1")
    /\ Return(Top, Null)
    /\ UNCHANGED <<node, avail, nodeSpc, handle, call, gc>>

\* One half came to nothing.
Overflow ==
    /\ ret = Null
    /\ \/ Resumed("h0") /\ UNCHANGED node
       \/ Resumed("h1") /\ node' = Dec(node, Top.h0)
    /\ Return(Top, Null)
    /\ UNCHANGED <<avail, nodeSpc, handle, call, gc>>
-----------------------------------------------------------------------------
(***************************************************************************)
(* getzbddp() and getnode(): the node (Top.v, Top.h0, Top.h1).             *)
(***************************************************************************)
\* Mutation: the 0-edge is stored with the sign it has.
Stored0AsGiven == Top.h0

Stored0 == IF Neg(Top.h0) THEN Top.h0 ELSE Not(Top.h0)
NodeEdge(n) == IF Neg(Top.h0) THEN 2 * n + 1 ELSE 2 * n
Equivalent == {n \in Used : /\ node[n].var = Top.v
                            /\ node[n].f0 = Stored0
                            /\ node[n].f1 = Top.h1}

Eliminate ==
    /\ Running("make")
    /\ Top.h1 = False
    /\ Return(Top, Top.h0)
    /\ UNCHANGED <<node, avail, nodeSpc, handle, call, gc>>

Share ==
    /\ Running("make")
    /\ Top.h1 # False
    /\ \E n \in Equivalent :
        /\ node' = Inc(Dec(Dec(node, Top.h0), Top.h1), 2 * n)
        /\ Return(Top, NodeEdge(n))
    /\ UNCHANGED <<avail, nodeSpc, handle, call, gc>>

NewNeeded == Running("make") /\ Top.h1 # False /\ Equivalent = {}
\* Mutation: the last free node is given away too.
FullWhenEmpty == NodeUsed >= nodeSpc

Full == NodeUsed >= nodeSpc - 1

\* Once the table is enlarged or collected it is not looked at again.
Allocate ==
    /\ (NewNeeded /\ ~Full) \/ Running("allocate")
    /\ node' = [node EXCEPT ![Head(avail)] =
                    [var |-> Top.v, rfc |-> 1, f0 |-> Stored0, f1 |-> Top.h1]]
    /\ avail' = Tail(avail)
    /\ Return(Top, NodeEdge(Head(avail)))
    /\ UNCHANGED <<nodeSpc, handle, call, gc>>

\* node_enlarge(): the cache grows with the table, every entry being copied
\* to all the slots it may now belong to, unless malloc() fails for it.
Doubled[k \in 0..NodeLimit] == IF k = 0 THEN Len(cache) ELSE 2 * Doubled[k - 1]
EnoughAfter(k) == Doubled[k] >= nodeSpc' \div 2
GrownSpc == Doubled[CHOOSE k \in 0..NodeLimit :
                        EnoughAfter(k) /\ \A j \in 0..(k - 1) : ~EnoughAfter(j)]

\* Mutation: the new size is not held to the limit.
EnlargeUnlimited ==
    /\ NewNeeded
    /\ Full
    /\ nodeSpc < NodeLimit
    /\ nodeSpc' = 2 * nodeSpc
    /\ avail' = [k \in 1..(nodeSpc' - nodeSpc) |-> nodeSpc + k - 1] \o avail
    /\ stack' = Replaced([Top EXCEPT !.pc = "allocate"])
    /\ UNCHANGED <<node, cache, handle, call, ret, gc>>

Enlarge ==
    /\ NewNeeded
    /\ Full
    /\ nodeSpc < NodeLimit
    /\ nodeSpc' = IF 2 * nodeSpc > NodeLimit THEN NodeLimit ELSE 2 * nodeSpc
    /\ avail' = [k \in 1..(nodeSpc' - nodeSpc) |-> nodeSpc + k - 1] \o avail
    /\ cache' \in {cache, [k \in 1..GrownSpc |-> cache[1 + ((k - 1) % Len(cache))]]}
    /\ stack' = Replaced([Top EXCEPT !.pc = "allocate"])
    /\ UNCHANGED <<node, handle, call, ret, gc>>

\* node_enlarge() cannot enlarge: the limit, or malloc() fails.
StartGc ==
    /\ NewNeeded
    /\ Full
    /\ gc' = [on |-> TRUE, used |-> NodeUsed, pending |-> <<>>]
    /\ UNCHANGED <<node, avail, nodeSpc, cache, handle, call, stack, ret>>
-----------------------------------------------------------------------------
(***************************************************************************)
(* bddgc(): "pending" holds the edges that gc1() has still to follow.      *)
(***************************************************************************)
Collectable == {n \in Used : node[n].rfc = 0}

Followed(f) == IF Counted(f) THEN <<f>> ELSE <<>>

\* gc1(): node n of the table t is given back.
Collect(t, n, rest) ==
    /\ node' = [t EXCEPT ![n] = FreeNode]
    /\ avail' = <<n>> \o avail
    /\ gc' = [gc EXCEPT !.pending = Followed(t[n].f0) \o Followed(t[n].f1) \o rest]

\* The loop over the table goes on to the next node nothing refers to: gc1()
\* leaves none behind.
Scan ==
    /\ gc.on
    /\ gc.pending = <<>>
    /\ Collectable # {}
    /\ Collect(node, Min(Collectable), <<>>)
    /\ UNCHANGED <<nodeSpc, cache, handle, call, stack, ret>>

\* The sub-graphs of a collected node.
FollowEdge ==
    /\ gc.on
    /\ gc.pending # <<>>
    /\ LET f == Head(gc.pending)
           t == Dec(node, f)
       IN  IF t[Ndx(f)].rfc = 0
           THEN Collect(t, Ndx(f), Tail(gc.pending))
           ELSE /\ node' = t
                /\ gc' = [gc EXCEPT !.pending = Tail(@)]
                /\ UNCHANGED avail
    /\ UNCHANGED <<nodeSpc, cache, handle, call, stack, ret>>

Collected(f) == ~Cst(f) /\ Ndx(f) < nodeSpc /\ node[Ndx(f)].var = 0

\* Mutation: a collected second operand is not looked for.
StaleButSecond(e) == /\ e.op # "NULL"
                     /\ Collected(e.f) \/ Collected(e.h)

\* "Cache clear": whether the entry refers to a collected node.
Stale(e) == /\ e.op # "NULL"
            /\ \/ Collected(e.f)
               \/ e.op \notin {"OFFSET", "ONSET"} /\ Collected(e.g)
               \/ Collected(e.h)

Scanned == gc.on /\ gc.pending = <<>> /\ Collectable = {}

GcSucceeded ==
    /\ Scanned
    /\ NodeUsed < gc.used
    /\ cache' = [k \in 1..Len(cache) |-> IF Stale(cache[k]) THEN NoEntry ELSE cache[k]]
    /\ gc' = NoGc
    /\ stack' = Replaced([Top EXCEPT !.pc = "allocate"])
    /\ UNCHANGED <<node, avail, nodeSpc, handle, call, ret>>

\* getnode() returns bddnull, and the operands are given up.
NodeTableOverflow ==
    /\ Scanned
    /\ NodeUsed = gc.used
    /\ gc' = NoGc
    /\ node' = Dec(Dec(node, Top.h0), Top.h1)
    /\ call' = [call EXCEPT !.failed = TRUE]
    /\ Return(Top, Null)
    /\ UNCHANGED <<avail, nodeSpc, handle>>
-----------------------------------------------------------------------------
Program ==
    \/ \E h \in Handles, f \in {False, True} : Assign(h, f)
    \/ \E h, g \in Handles : Assign(h, handle[g])
    \/ \E op \in BinaryOps \cap Ops, h, a, g \in Handles : Call(op, h, a, g)
    \/ \E op \in UnaryOps \cap Ops, h, a \in Handles, v \in Vars : Call(op, h, a, v)

Apply == ReturnTrivial \/ ChangeAtTop \/ ReturnCached \/ Descend
            \/ SecondHalf \/ BothHalves \/ Overflow
GetNode == Eliminate \/ Share \/ Allocate \/ Enlarge \/ StartGc
Gc == Scan \/ FollowEdge \/ GcSucceeded \/ NodeTableOverflow
Machine == Finish \/ Apply \/ GetNode \/ Gc

Next == Program \/ Machine

Spec == Init /\ [][Next]_vars
-----------------------------------------------------------------------------
(***************************************************************************)
(* What a bddp of the table t stands for: a family of sets of variables.   *)
(* Down to level 0, so that it is defined whatever the table holds.        *)
(***************************************************************************)
ToggleEmpty(F) == IF {} \in F THEN F \ {{}} ELSE F \cup {{}}

Layers(t) ==
    LET Below[l \in 0..NumVars] ==
            [f \in Edges |->
                LET n == t[Ndx(f)]
                    F == IF Cst(f) \/ l = 0 THEN {}
                         ELSE Below[l - 1][Abs(n.f0)]
                                \cup {s \cup {n.var} : s \in Below[l - 1][n.f1]}
                IN  IF Neg(f) THEN ToggleEmpty(F) ELSE F]
    IN  Below

Meaning(t) == Layers(t)[NumVars]

\* The objects as what they stand for.
FamilyOf(f) == IF f = Null THEN {{0}} ELSE Meaning(node)[f]
Families == INSTANCE ZbddFamilies WITH
    family <- [h \in Handles |-> FamilyOf(handle[h])],
    call <- [op |-> call.op, to |-> call.to, a |-> call.a, g |-> call.g]

MeantOf(op, f, g) == Families!Meant(op, FamilyOf(f), IF op \in BinaryOps THEN FamilyOf(g) ELSE g)
-----------------------------------------------------------------------------
TypeOK ==
    /\ node \in [Index -> [var : 0..NumVars, rfc : Nat, f0 : Edges, f1 : Edges]]
    /\ avail \in Seq(Index)
    /\ nodeSpc \in InitSpc..NodeLimit
    /\ cache \in Seq([op : BinaryOps \cup UnaryOps \cup {"NULL"},
                      f : Edges, g : Operands, h : Edges \cup {Null}])
    /\ handle \in [Handles -> Edges \cup {Null}]
    /\ ret \in Edges \cup {Null, NoRet}
    /\ gc.pending \in Seq(Edges)

(***************************************************************************)
(* The count of a node is the number of references to it: from objects,    *)
(* from nodes, dead ones included, from results held by unfinished calls   *)
(* and from edges still to be followed.  Nothing leaks, not even when an   *)
(* allocation fails, and nothing refers to a free node.                    *)
(***************************************************************************)
References ==
    {<<"handle", h, handle[h]>> : h \in Handles}
        \cup {<<"f0", n, node[n].f0>> : n \in Used}
        \cup {<<"f1", n, node[n].f1>> : n \in Used}
        \cup {<<"h0", k, stack[k].h0>> : k \in 1..Len(stack)}
        \cup {<<"h1", k, stack[k].h1>> : k \in 1..Len(stack)}
        \cup {<<"pending", Len(gc.pending) - k, gc.pending[k]>> : k \in 1..Len(gc.pending)}
        \cup {<<"ret", 0, ret>>}
CountsExact ==
    \A n \in Index :
        node[n].rfc = Cardinality({r \in References : r[3] \in {2 * n, 2 * n + 1}})

(***************************************************************************)
(* The free list holds exactly the free nodes of the table, each once, and *)
(* is never empty: "NodeUsed >= NodeSpc-1U" keeps one back.                *)
(***************************************************************************)
FreeListExact ==
    /\ ToSet(avail) = {n \in 0..(nodeSpc - 1) : node[n].var = 0}
    /\ Len(avail) = Cardinality(ToSet(avail))
    /\ avail # <<>>
    /\ \A n \in Used : n < nodeSpc

(***************************************************************************)
(* Canonicity: the edges into the table stand for different families, so   *)
(* that operator== may compare GetID().  Dead nodes count: they can be     *)
(* shared again.                                                           *)
(***************************************************************************)
TableEdges == {f \in Edges : ~Cst(f) => Ndx(f) \in Used}
Canonical ==
    ~gc.on => Cardinality({FamilyOf(f) : f \in TableEdges}) = Cardinality(TableEdges)

(***************************************************************************)
(* Whatever the cache would answer is true, and refers to nodes that are   *)
(* in the table: entries do not outlive the nodes they name.               *)
(***************************************************************************)
CacheSound ==
    ~gc.on => \A e \in ToSet(cache) :
        e.op # "NULL" =>
                /\ e.f \in TableEdges
                /\ e.op \in BinaryOps => e.g \in TableEdges
                /\ e.h # Null => /\ e.h \in TableEdges
                                 /\ FamilyOf(e.h) = MeantOf(e.op, e.f, e.g)

(***************************************************************************)
(* Every operation gives the right family or bddnull, and no object other  *)
(* than the one that takes the result ever stands for another family,      *)
(* whatever is created, shared, collected or moved meanwhile.              *)
(***************************************************************************)
Refinement == Families!Spec

(***************************************************************************)
(* "Returns bddnull if not enough memory" (bddc.c:1774): an operation on   *)
(* operands that are not bddnull returns bddnull only if an allocation     *)
(* failed in it, or if its result might not fit beside the nodes referred  *)
(* to: a diagram has at most 2^NumVars - 1 nodes.                          *)
(***************************************************************************)
Room == NodeLimit - 1 - Cardinality({n \in Used : node[n].rfc > 0})
NullMeansNoMemory ==
    call # NoCall /\ stack = <<>> /\ ret = Null =>
        \/ call.failed
        \/ Room < 2^NumVars - 1
        \/ handle[call.a] = Null
        \/ call.op \in BinaryOps /\ handle[call.g] = Null
=============================================================================
