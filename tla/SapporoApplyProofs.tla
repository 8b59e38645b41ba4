------------------------- MODULE SapporoApplyProofs -------------------------
(***************************************************************************)
(* apply() gives the right families: the table stays canonical, the cache  *)
(* tells the truth, and the ZBDD objects do what ZbddFamilies promises, in *)
(* tables, caches and programs of every size.                              *)
(***************************************************************************)
EXTENDS SapporoNodesProofs

(***************************************************************************)
(* The calls on the stack and what each of them is about to return, in     *)
(* families: Plain is the operation on its operands, Due takes in account  *)
(* that OFFSET of a negative edge is computed on its complement, and       *)
(* Awaited is the half that the call waits for.                            *)
(***************************************************************************)
Plain(t, fr) == Applied(t, fr.op, fr.f, fr.g)
Due(t, fr) == IF fr.inv THEN ToggleEmpty(Plain(t, fr)) ELSE Plain(t, fr)
Awaited(t, fr) == IF fr.pc = "h0" THEN Without(fr.v, Plain(t, fr)) ELSE With(fr.v, Plain(t, fr))

FrameRight(t, fr) ==
    /\ fr.pc = "enter" => ~fr.inv /\ fr.key = 0
    /\ fr.pc # "enter" => \A s \in Plain(t, fr) : s \in SUBSET (1..fr.v)
    /\ fr.pc = "h0" => Applied(t, fr.op, fr.f1, fr.g1) = With(fr.v, Plain(t, fr))
    /\ fr.pc \in {"h1", "make", "allocate"} => Meaning(t)[fr.h0] = Without(fr.v, Plain(t, fr))
    /\ fr.pc \in {"make", "allocate"} => Meaning(t)[fr.h1] = With(fr.v, Plain(t, fr))

\* What the program asked for, and what call k on the stack s should return
\* if the first should return A.
Asked(t) == Applied(t, call.op, handle[call.a],
                    IF call.op \in BinaryOps THEN handle[call.g] ELSE call.g)
Expected(t, A, s, k) == IF k = 1 THEN A ELSE Awaited(t, s[k - 1])

CallsRight(t, A, s, r) ==
    /\ \A k \in 1..Len(s) : FrameRight(t, s[k]) /\ Due(t, s[k]) = Expected(t, A, s, k)
    /\ r \in Edges => Meaning(t)[r] = Expected(t, A, s, Len(s) + 1)

\* An operand that is bddnull makes the result bddnull.
NullOperand == handle[call.a] = Null \/ (call.op \in BinaryOps /\ handle[call.g] = Null)
NullInv == call # NoCall /\ NullOperand => stack = <<>> /\ ret = Null

\* What the program asked for is an operation on objects.
CallInv == call # NoCall => call.g \in IF call.op \in BinaryOps THEN Handles ELSE Vars

\* The node about to be allocated is not in the table, also when the table
\* is enlarged or collected first.
NewNodeInv ==
    stack # <<>> /\ (Top.pc = "allocate" \/ gc.on) => Top.h1 # False /\ Equivalent = {}

\* An entry whose nodes are in the table tells the truth.
EntryIn(t, e) ==
    /\ e.op # "NULL" /\ e.h # Null
    /\ InTab(t, e.f) /\ InTab(t, e.h)
    /\ e.op \in BinaryOps => InTab(t, e.g)
EntryRight(t, e) == EntryIn(t, e) => Meaning(t)[e.h] = Applied(t, e.op, e.f, e.g)
EntriesRight == \A k \in 1..Len(cache) : EntryRight(node, cache[k])

SInv == /\ Structured(node)
        /\ CallsRight(node, Asked(node), stack, ret)
        /\ NullInv
        /\ CallInv
        /\ NewNodeInv
        /\ EntriesRight
-----------------------------------------------------------------------------
(***************************************************************************)
(* What the calls read is in the table.                                    *)
(***************************************************************************)
FrameIn(t, fr) ==
    /\ InTab(t, fr.f) /\ InTab(t, fr.h0) /\ InTab(t, fr.h1)
    /\ fr.op \in BinaryOps => fr.g \in Edges /\ InTab(t, fr.g)
    /\ fr.pc = "h0" => /\ InTab(t, fr.f1)
                       /\ fr.op \in BinaryOps => fr.g1 \in Edges /\ InTab(t, fr.g1)
FramesIn(t, s) == \A k \in 1..Len(s) : FrameIn(t, s[k])

StateIn ==
    /\ FramesIn(node, stack)
    /\ ret \in Edges => InTab(node, ret)
    /\ \A h \in Handles : handle[h] \in Edges => InTab(node, handle[h])

LEMMA StateInTable == IInv => StateIn
<1> SUFFICES ASSUME IInv
             PROVE  StateIn
    OBVIOUS
<1>1. \A f \in Edges : UsedEdge(node, f) => InTab(node, f)
    BY EdgeFacts DEF UsedEdge, InTab
<1>2. \A f \in Edges : LiveEdge(f) => InTab(node, f)
    BY <1>1, StateFacts
<1>3. ASSUME NEW k \in 1..Len(stack)
      PROVE  FrameIn(node, stack[k])
    <2>1. stack[k] \in FrameType /\ FrameInv(stack[k]) /\ OperandsLive(stack[k])
        BY StateFacts DEF IInv, FramesInv, OperandsInv
    <2> DEFINE fr == stack[k]
    <2>2. fr.f \in Edges /\ fr.f1 \in Edges /\ fr.h0 \in Edges /\ fr.h1 \in Edges
        BY <2>1 DEF FrameType
    <2>3. /\ fr.op \in BinaryOps => fr.g \in Edges
          /\ fr.op \in BinaryOps /\ fr.pc = "h0" => fr.g1 \in Edges
        BY <2>1 DEF FrameInv, OperandFits
    <2>4. InTab(node, fr.h0) /\ InTab(node, fr.h1)
        <3> DEFINE R == RefSet(handle, node, stack, gc.pending, ret)
        <3>1. <<"h0", k, fr.h0>> \in R /\ <<"h1", k, fr.h1>> \in R
            BY DEF RefSet, H0Refs, H1Refs
        <3>2. Sound(node, R) /\ fr.h0 \in Values /\ fr.h1 \in Values
            BY <2>2, StateFacts DEF Values
        <3> HIDE DEF R, fr
        <3>3. /\ Counted(fr.h0) => UsedEdge(node, fr.h0)
              /\ Counted(fr.h1) => UsedEdge(node, fr.h1)
            BY <3>1, <3>2, RefUsed
        <3> QED
            BY <1>1, <2>2, <3>3 DEF UsedEdge
    <2> QED
        BY <1>2, <2>1, <2>2, <2>3, <2>4 DEF OperandsLive, FrameIn
<1> QED
    BY <1>1, <1>3, StateFacts DEF StateIn, FramesIn
-----------------------------------------------------------------------------
(***************************************************************************)
(* From one table to another one: edges into both stand for the same.      *)
(***************************************************************************)
Agrees(t, u) ==
    \A f \in Edges : InTab(t, f) /\ InTab(u, f) => Meaning(u)[f] = Meaning(t)[f]

LEMMA PartAgrees ==
    ASSUME NEW t, Structured(t), NEW u, Structured(u), PartOf(t, u) \/ PartOf(u, t)
    PROVE  Agrees(t, u)
BY MeaningStays DEF Agrees

LEMMA AppliedKept ==
    ASSUME NEW t, NEW u, Agrees(t, u), NEW op \in BinaryOps \cup UnaryOps,
           NEW f \in Edges, InTab(t, f), InTab(u, f),
           NEW g, op \in BinaryOps => g \in Edges /\ InTab(t, g) /\ InTab(u, g)
    PROVE  Applied(u, op, f, g) = Applied(t, op, f, g)
<1>1. Meaning(u)[f] = Meaning(t)[f]
    BY DEF Agrees
<1>2. op \in BinaryOps => Meaning(u)[g] = Meaning(t)[g]
    BY DEF Agrees
<1> QED
    BY <1>1, <1>2 DEF Applied

\* What is right of a call stays right, and it is to return the same.
LEMMA FrameKept ==
    ASSUME NEW t, NEW u, Agrees(t, u), NEW fr \in FrameType,
           FrameIn(t, fr), FrameIn(u, fr), FrameRight(t, fr)
    PROVE  /\ FrameRight(u, fr) /\ Plain(u, fr) = Plain(t, fr)
           /\ Due(u, fr) = Due(t, fr) /\ Awaited(u, fr) = Awaited(t, fr)
<1>1. /\ fr.op \in BinaryOps \cup UnaryOps
      /\ fr.f \in Edges /\ fr.f1 \in Edges /\ fr.h0 \in Edges /\ fr.h1 \in Edges
      /\ fr.op \in BinaryOps => fr.g \in Edges
      /\ fr.op \in BinaryOps /\ fr.pc = "h0" => fr.g1 \in Edges
    BY DEF FrameType, FrameIn
<1>2. Plain(u, fr) = Plain(t, fr)
    BY <1>1, AppliedKept DEF Plain, FrameIn
<1>3. fr.pc = "h0" => Applied(u, fr.op, fr.f1, fr.g1) = Applied(t, fr.op, fr.f1, fr.g1)
    BY <1>1, AppliedKept DEF FrameIn
<1>4. Meaning(u)[fr.h0] = Meaning(t)[fr.h0] /\ Meaning(u)[fr.h1] = Meaning(t)[fr.h1]
    BY <1>1 DEF FrameIn, Agrees
<1> QED
    BY <1>2, <1>3, <1>4, Zenon DEF FrameRight, Due, Awaited

LEMMA CallsKept ==
    ASSUME NEW t, NEW u, Agrees(t, u), NEW A, NEW s \in Seq(FrameType),
           FramesIn(t, s), FramesIn(u, s),
           NEW r, r \in Edges => InTab(t, r) /\ InTab(u, r), CallsRight(t, A, s, r)
    PROVE  CallsRight(u, A, s, r)
<1>1. Len(s) \in Nat
    OBVIOUS
<1>2. ASSUME NEW k \in 1..Len(s)
      PROVE  /\ FrameRight(u, s[k])
             /\ Due(u, s[k]) = Due(t, s[k]) /\ Awaited(u, s[k]) = Awaited(t, s[k])
    BY FrameKept DEF FramesIn, CallsRight
<1>3. ASSUME NEW k \in 1..(Len(s) + 1)
      PROVE  Expected(u, A, s, k) = Expected(t, A, s, k)
    <2>1. CASE k = 1
        BY <2>1 DEF Expected
    <2>2. CASE k # 1
        <3>1. k - 1 \in 1..Len(s)
            BY <1>1, <2>2
        <3> QED
            BY <1>2, <2>2, <3>1 DEF Expected
    <2> QED
        BY <2>1, <2>2
<1>4. 1..Len(s) \subseteq 1..(Len(s) + 1) /\ Len(s) + 1 \in 1..(Len(s) + 1)
    BY <1>1
<1>5. ASSUME NEW k \in 1..Len(s)
      PROVE  FrameRight(u, s[k]) /\ Due(u, s[k]) = Expected(u, A, s, k)
    BY <1>2, <1>3, <1>4, <1>5 DEF CallsRight
<1>6. r \in Edges => Meaning(u)[r] = Expected(u, A, s, Len(s) + 1)
    BY <1>3, <1>4 DEF CallsRight, Agrees
<1> QED
    BY <1>5, <1>6 DEF CallsRight

\* The entries of the cache that were in the table before.
LEMMA EntryKept ==
    ASSUME NEW t, NEW u, Agrees(t, u), NEW e \in EntryType,
           e.op \in BinaryOps => e.g \in Edges,
           EntryIn(u, e) => EntryIn(t, e), EntryRight(t, e)
    PROVE  EntryRight(u, e)
<1> SUFFICES ASSUME EntryIn(u, e)
             PROVE  Meaning(u)[e.h] = Applied(u, e.op, e.f, e.g)
    BY DEF EntryRight
<1>1. EntryIn(t, e)
    OBVIOUS
<1>2. e.op \in BinaryOps \cup UnaryOps /\ e.f \in Edges /\ e.h \in Edges
    BY DEF EntryIn, EntryType
<1>3. Applied(u, e.op, e.f, e.g) = Applied(t, e.op, e.f, e.g)
    BY <1>1, <1>2, AppliedKept DEF EntryIn
<1>4. Meaning(u)[e.h] = Meaning(t)[e.h]
    BY <1>1, <1>2 DEF EntryIn, Agrees
<1> QED
    BY <1>1, <1>3, <1>4 DEF EntryRight
-----------------------------------------------------------------------------
(***************************************************************************)
(* The stack: a call returns, goes on, or makes another call.              *)
(***************************************************************************)
LEMMA CallsPop ==
    ASSUME NEW t, NEW A, NEW s \in Seq(FrameType), s # <<>>, NEW r, CallsRight(t, A, s, r),
           NEW x, x \in Edges => Meaning(t)[x] = Due(t, s[Len(s)])
    PROVE  CallsRight(t, A, Front(s), x)
<1>1. /\ Len(s) \in Nat /\ Len(s) >= 1 /\ Len(Front(s)) = Len(s) - 1
      /\ \A k \in 1..(Len(s) - 1) : Front(s)[k] = s[k]
    BY TopFacts
<1>2. \A k \in 1..Len(s) : Expected(t, A, Front(s), k) = Expected(t, A, s, k)
    <2> SUFFICES ASSUME NEW k \in 1..Len(s), k # 1
                 PROVE  Front(s)[k - 1] = s[k - 1]
        BY DEF Expected
    <2>1. k - 1 \in 1..(Len(s) - 1)
        BY <1>1
    <2> QED
        BY <1>1, <2>1
<1>3. ASSUME NEW k \in 1..Len(Front(s))
      PROVE  FrameRight(t, Front(s)[k]) /\ Due(t, Front(s)[k]) = Expected(t, A, Front(s), k)
    <2>1. k \in 1..(Len(s) - 1) /\ k \in 1..Len(s)
        BY <1>1
    <2> QED
        BY <1>1, <1>2, <2>1 DEF CallsRight
<1>4. Len(s) \in 1..Len(s) /\ Len(Front(s)) + 1 = Len(s)
    BY <1>1
<1>5. x \in Edges => Meaning(t)[x] = Expected(t, A, Front(s), Len(Front(s)) + 1)
    BY <1>2, <1>4 DEF CallsRight
<1> QED
    BY <1>3, <1>5 DEF CallsRight

LEMMA CallsReplace ==
    ASSUME NEW t, NEW A, NEW s \in Seq(FrameType), s # <<>>, NEW r, CallsRight(t, A, s, r),
           NEW fr \in FrameType, FrameRight(t, fr), Due(t, fr) = Due(t, s[Len(s)]),
           NEW x, x \notin Edges
    PROVE  CallsRight(t, A, [s EXCEPT ![Len(s)] = fr], x)
<1> DEFINE s1 == [s EXCEPT ![Len(s)] = fr]
<1>1. /\ Len(s) \in Nat /\ Len(s) >= 1 /\ Len(s1) = Len(s) /\ s1[Len(s)] = fr
      /\ \A k \in 1..(Len(s) - 1) : s1[k] = s[k]
    BY TopFacts, ReplaceFacts
<1> HIDE DEF s1
<1>2. ASSUME NEW k \in 1..Len(s)
      PROVE  Expected(t, A, s1, k) = Expected(t, A, s, k)
    <2>1. CASE k = 1
        BY <2>1 DEF Expected
    <2>2. CASE k # 1
        <3>1. k - 1 \in 1..(Len(s) - 1)
            BY <1>1, <2>2
        <3> QED
            BY <1>1, <2>2, <3>1 DEF Expected
    <2> QED
        BY <2>1, <2>2
<1>3. ASSUME NEW k \in 1..Len(s1)
      PROVE  FrameRight(t, s1[k]) /\ Due(t, s1[k]) = Expected(t, A, s1, k)
    <2>1. k \in 1..Len(s) /\ Len(s) \in 1..Len(s)
        BY <1>1
    <2>2. CASE k = Len(s)
        BY <1>1, <1>2, <2>1, <2>2 DEF CallsRight
    <2>3. CASE k # Len(s)
        <3>1. s1[k] = s[k]
            BY <1>1, <2>1, <2>3
        <3> QED
            BY <1>2, <2>1, <3>1 DEF CallsRight
    <2> QED
        BY <2>2, <2>3
<1>4. CallsRight(t, A, s1, x)
    BY <1>3 DEF CallsRight
<1> QED
    BY <1>4 DEF s1

LEMMA CallsPush ==
    ASSUME NEW t, NEW A, NEW s \in Seq(FrameType), NEW r, CallsRight(t, A, s, r),
           NEW fr \in FrameType, FrameRight(t, fr),
           Due(t, fr) = Expected(t, A, s, Len(s) + 1), NEW x, x \notin Edges
    PROVE  CallsRight(t, A, Append(s, fr), x)
<1> DEFINE s1 == Append(s, fr)
<1>1. /\ Len(s) \in Nat /\ Len(s1) = Len(s) + 1 /\ s1[Len(s) + 1] = fr
      /\ \A k \in 1..Len(s) : s1[k] = s[k]
    BY PushFacts
<1> HIDE DEF s1
<1>2. ASSUME NEW k \in 1..(Len(s) + 1)
      PROVE  Expected(t, A, s1, k) = Expected(t, A, s, k)
    <2>1. CASE k = 1
        BY <2>1 DEF Expected
    <2>2. CASE k # 1
        <3>1. k - 1 \in 1..Len(s)
            BY <1>1, <2>2
        <3> QED
            BY <1>1, <2>2, <3>1 DEF Expected
    <2> QED
        BY <2>1, <2>2
<1>3. ASSUME NEW k \in 1..Len(s1)
      PROVE  FrameRight(t, s1[k]) /\ Due(t, s1[k]) = Expected(t, A, s1, k)
    <2>1. k \in 1..(Len(s) + 1)
        BY <1>1
    <2>2. CASE k = Len(s) + 1
        BY <1>1, <1>2, <2>1, <2>2
    <2>3. CASE k # Len(s) + 1
        <3>1. k \in 1..Len(s)
            BY <1>1, <2>1, <2>3
        <3> QED
            BY <1>1, <1>2, <2>1, <3>1 DEF CallsRight
    <2> QED
        BY <2>2, <2>3
<1>4. CallsRight(t, A, s1, x)
    BY <1>3 DEF CallsRight
<1> QED
    BY <1>4 DEF s1

\* One call waits for another one, which is to return a half of what it is
\* to return itself.
LEMMA CallsCall ==
    ASSUME NEW t, NEW A, NEW s \in Seq(FrameType), s # <<>>, NEW r, CallsRight(t, A, s, r),
           NEW fr \in FrameType, FrameRight(t, fr), Due(t, fr) = Due(t, s[Len(s)]),
           NEW top \in FrameType, FrameRight(t, top), Due(t, top) = Awaited(t, fr),
           NEW x, x \notin Edges
    PROVE  CallsRight(t, A, Append([s EXCEPT ![Len(s)] = fr], top), x)
<1> DEFINE s1 == [s EXCEPT ![Len(s)] = fr]
<1>1. /\ Len(s) \in Nat /\ Len(s) >= 1 /\ s1 \in Seq(FrameType) /\ Len(s1) = Len(s)
      /\ s1[Len(s)] = fr
    BY TopFacts, ReplaceFacts
<1>2. CallsRight(t, A, s1, x)
    BY CallsReplace
<1> HIDE DEF s1
<1>3. Expected(t, A, s1, Len(s1) + 1) = Awaited(t, fr)
    <2>1. Len(s1) + 1 # 1 /\ (Len(s1) + 1) - 1 = Len(s)
        BY <1>1
    <2> QED
        BY <1>1, <2>1 DEF Expected
<1>4. CallsRight(t, A, Append(s1, top), x)
    BY <1>1, <1>2, <1>3, CallsPush
<1> QED
    BY <1>4 DEF s1
-----------------------------------------------------------------------------
(***************************************************************************)
(* The call on top.                                                        *)
(***************************************************************************)
LEMMA TopRight ==
    ASSUME IInv, SInv, stack # <<>>
    PROVE  /\ Top \in FrameType /\ FrameInv(Top) /\ FrameIn(node, Top) /\ FrameRight(node, Top)
           /\ Top.op \in BinaryOps \cup UnaryOps /\ BinaryOps \cap UnaryOps = {}
           /\ Top.f \in Edges /\ Top.h0 \in Edges /\ Top.h1 \in Edges
           /\ Top.op \in BinaryOps => Top.g \in Edges
           /\ Top.op \in UnaryOps => Top.g \in Vars
           /\ CallsRight(node, Asked(node), stack, ret)
           /\ ret \in Edges => Meaning(node)[ret] = Awaited(node, Top) /\ InTab(node, ret)
<1>1. Len(stack) \in Nat /\ Len(stack) >= 1 /\ Top \in FrameType /\ FrameInv(Top)
    BY TopState
<1>2. Len(stack) \in 1..Len(stack) /\ Len(stack) + 1 # 1 /\ (Len(stack) + 1) - 1 = Len(stack)
    BY <1>1
<1>3. FrameIn(node, Top) /\ (ret \in Edges => InTab(node, ret))
    BY <1>2, StateInTable DEF StateIn, FramesIn, Top
<1>4. FrameRight(node, Top) /\ (ret \in Edges => Meaning(node)[ret] = Awaited(node, Top))
    BY <1>2 DEF SInv, CallsRight, Top, Expected
<1>5. BinaryOps \cap UnaryOps = {}
    BY DEF BinaryOps, UnaryOps
<1>6. /\ Top.op \in BinaryOps => Top.g \in Edges
      /\ Top.op \in UnaryOps => Top.g \in Vars
    BY <1>1, <1>5 DEF FrameInv, OperandFits
<1> QED
    BY <1>1, <1>3, <1>4, <1>5, <1>6 DEF FrameType, SInv

\* A call that has just begun.
LEMMA EnterRight ==
    ASSUME IInv, SInv, Running("enter")
    PROVE  /\ stack # <<>> /\ ret = NoRet /\ ~gc.on /\ Top.pc = "enter"
           /\ InTab(node, Top.f) /\ (Top.op \in BinaryOps => InTab(node, Top.g))
           /\ ~Top.inv /\ Due(node, Top) = Plain(node, Top) /\ Top.h0 = False /\ Top.h1 = False
<1>1. stack # <<>> /\ ret = NoRet /\ ~gc.on /\ Top.pc = "enter"
    BY DEF Running
<1> QED
    BY <1>1, TopRight DEF FrameIn, FrameRight, FrameInv, Due

LEMMA ReturnTrivialRight ==
    ASSUME IInv, SInv, ReturnTrivial
    PROVE  CallsRight(node, Asked(node), stack', ret')
<1>1. /\ Running("enter") /\ Trivial(Top.op, Top.f, Top.g) # NoRet
      /\ ret' = Trivial(Top.op, Top.f, Top.g) /\ stack' = Front(stack)
    BY DEF ReturnTrivial
<1>2. stack # <<>> /\ stack \in Seq(FrameType)
    BY <1>1, EnterRight, StateFacts
<1>3. Meaning(node)[ret'] = Plain(node, Top)
    BY <1>1, <1>2, EnterRight, TopRight, TrivialBinary, TrivialUnary DEF Plain, SInv
<1>4. Due(node, Top) = Plain(node, Top)
    BY <1>1, EnterRight
<1> QED
    BY <1>1, <1>2, <1>3, <1>4, TopRight, CallsPop DEF Top

\* The operands put in order give the same.
LEMMA NormalRight ==
    ASSUME IInv, SInv, Running("enter"), NEW fr, fr = Normal(Top)
    PROVE  /\ fr \in FrameType /\ FrameInv(fr) /\ fr.op = Top.op /\ fr.pc = "enter"
           /\ fr.h0 = False /\ fr.h1 = False
           /\ fr.f \in Edges /\ InTab(node, fr.f)
           /\ fr.op \in BinaryOps => fr.g \in Edges /\ InTab(node, fr.g)
           /\ fr.op \in UnaryOps => fr.g \in Vars /\ fr.g = Top.g /\ Lev(fr.f) = Lev(Top.f)
           /\ fr.inv => fr.op = "OFFSET"
           /\ fr.op \in {"OFFSET", "ONSET"} => ~Neg(fr.f)
           /\ Due(node, fr) = Due(node, Top)
<1>1. /\ stack # <<>> /\ Top.pc = "enter" /\ InTab(node, Top.f)
      /\ Top.op \in BinaryOps => InTab(node, Top.g)
      /\ ~Top.inv /\ Due(node, Top) = Plain(node, Top)
    BY EnterRight
<1>2. /\ fr \in FrameType /\ FrameInv(fr) /\ fr.op = Top.op /\ fr.pc = "enter"
      /\ fr.h0 = False /\ fr.h1 = False
    BY <1>1, NormalFacts
<1>3. /\ Top \in FrameType /\ Top.op \in BinaryOps \cup UnaryOps /\ BinaryOps \cap UnaryOps = {}
      /\ Top.f \in Edges
      /\ Top.op \in BinaryOps => Top.g \in Edges
      /\ Top.op \in UnaryOps => Top.g \in Vars
    BY <1>1, TopRight
<1> USE <1>1, <1>2, <1>3
<1>4. CASE Top.op \in {"INTERSEC", "UNION"} /\ Top.f < Top.g
    <2>1. Top.op \in BinaryOps /\ Top.op \notin UnaryOps /\ Top.op \notin {"OFFSET", "ONSET"}
        BY <1>4 DEF BinaryOps, UnaryOps
    <2>2. fr = [Top EXCEPT !.f = Top.g, !.g = Top.f]
        BY <1>4 DEF Normal
    <2>3. fr.f = Top.g /\ fr.g = Top.f /\ fr.inv = Top.inv
        BY <2>2 DEF FrameType
    <2>4. Plain(node, fr) = Plain(node, Top)
        <3>1. \A F, G : F \cap G = G \cap F /\ F \cup G = G \cup F
            OBVIOUS
        <3>2. /\ Applied(node, "INTERSEC", fr.f, fr.g) = Applied(node, "INTERSEC", fr.g, fr.f)
              /\ Applied(node, "UNION", fr.f, fr.g) = Applied(node, "UNION", fr.g, fr.f)
            <4>1. /\ Applied(node, "INTERSEC", fr.f, fr.g) = Meaning(node)[fr.f] \cap Meaning(node)[fr.g]
                  /\ Applied(node, "INTERSEC", fr.g, fr.f) = Meaning(node)[fr.g] \cap Meaning(node)[fr.f]
                  /\ Applied(node, "UNION", fr.f, fr.g) = Meaning(node)[fr.f] \cup Meaning(node)[fr.g]
                  /\ Applied(node, "UNION", fr.g, fr.f) = Meaning(node)[fr.g] \cup Meaning(node)[fr.f]
                BY AppliedFacts
            <4> QED
                BY <3>1, <4>1, Zenon
        <3>3. Applied(node, Top.op, fr.f, fr.g) = Applied(node, Top.op, fr.g, fr.f)
            BY <1>4, <3>2
        <3> QED
            BY <2>3, <3>3 DEF Plain
    <2> QED
        BY <2>1, <2>3, <2>4 DEF Due
<1>5. CASE Top.op \in {"OFFSET", "ONSET"} /\ Neg(Top.f)
    <2>1. Top.op \in UnaryOps /\ Top.op \notin BinaryOps /\ Top.op \notin {"INTERSEC", "UNION"}
        BY <1>5 DEF BinaryOps, UnaryOps
    <2>2. fr = [Top EXCEPT !.f = Not(Top.f), !.inv = (Top.op = "OFFSET")]
        BY <1>5, <2>1 DEF Normal
    <2>3. fr.f = Not(Top.f) /\ fr.g = Top.g /\ fr.inv = (Top.op = "OFFSET")
        BY <2>2 DEF FrameType
    <2>4. fr.f \in Edges /\ InTab(node, fr.f) /\ Lev(fr.f) = Lev(Top.f) /\ ~Neg(fr.f)
        BY <1>5, <2>3, EdgeFacts, SignFacts, LevFacts
    <2>5. Meaning(node)[fr.f] = ToggleEmpty(Meaning(node)[Top.f])
        BY <2>3, NegatedMeaning DEF SInv
    <2>6. Due(node, fr) = Plain(node, Top)
        <3>1. CASE Top.op = "OFFSET"
            <4>1. fr.inv
                BY <2>3, <3>1
            <4> QED
                BY <2>3, <2>5, <3>1, <4>1, AppliedFacts, ToggleFacts DEF Plain, Due
        <3>2. CASE Top.op = "ONSET"
            <4>1. ~fr.inv
                BY <2>3, <3>2
            <4> QED
                BY <2>3, <2>5, <3>2, <4>1, AppliedFacts, ToggleFacts DEF Plain, Due
        <3> QED
            BY <1>5, <3>1, <3>2
    <2> QED
        BY <2>1, <2>3, <2>4, <2>6
<1>6. CASE /\ ~(Top.op \in {"INTERSEC", "UNION"} /\ Top.f < Top.g)
           /\ ~(Top.op \in {"OFFSET", "ONSET"} /\ Neg(Top.f))
    <2>1. fr = Top
        BY <1>6 DEF Normal
    <2> QED
        BY <1>6, <2>1
<1> QED
    BY <1>4, <1>5, <1>6

\* What a call returns, from what it computed.
LEMMA InvertedRight ==
    ASSUME NEW t, Structured(t), NEW fr, fr.inv \in BOOLEAN, NEW h \in Edges \cup {Null},
           h \in Edges => InTab(t, h) /\ Meaning(t)[h] = Plain(t, fr)
    PROVE  Inverted(fr, h) \in Edges => Meaning(t)[Inverted(fr, h)] = Due(t, fr)
<1>1. Null \notin Edges
    BY ConstantFacts
<1>2. CASE h = Null
    BY <1>1, <1>2 DEF Inverted
<1>3. CASE h \in Edges
    BY <1>1, <1>3, NegatedMeaning DEF Inverted, Due
<1> QED
    BY <1>2, <1>3

LEMMA ReturnCachedRight ==
    ASSUME IInv, SInv, ReturnCached
    PROVE  CallsRight(node, Asked(node), stack', ret')
<1> DEFINE fr == Normal(Top)
           h == cache[Key(fr)].h
<1>1. Running("enter") /\ Hit(fr) /\ ret' = Inverted(fr, h) /\ stack' = Front(stack)
    BY DEF ReturnCached
<1>2. stack # <<>> /\ Top.pc = "enter" /\ ~gc.on /\ stack \in Seq(FrameType)
    BY <1>1, EnterRight, StateFacts
<1>3. /\ fr \in FrameType /\ fr.op = Top.op /\ Due(node, fr) = Due(node, Top)
      /\ fr.f \in Edges /\ InTab(node, fr.f) /\ (fr.op \in BinaryOps => InTab(node, fr.g))
    BY <1>1, NormalRight
<1>4. Key(fr) \in 0..Len(cache)
    BY <1>2, NormalFacts
<1> HIDE DEF fr
<1>5. h \in Edges \cup {Null} /\ UsedEdge(node, h) /\ fr.op # "NULL"
    BY <1>1, <1>2, <1>3, <1>4, HitInTable DEF FrameType, BinaryOps, UnaryOps
<1>6. h \in Edges => InTab(node, h)
    BY <1>5, EdgeFacts DEF UsedEdge, InTab
<1>7. h \in Edges => Meaning(node)[h] = Plain(node, fr)
    <2> DEFINE e == cache[Key(fr)]
    <2>1. Key(fr) \in 1..Len(cache) /\ e.op = fr.op /\ e.f = fr.f /\ e.g = fr.g
        BY <1>1, <1>4 DEF Hit
    <2>2. EntryRight(node, e)
        BY <2>1 DEF SInv, EntriesRight
    <2>3. h \in Edges => EntryIn(node, e)
        BY <1>3, <1>5, <1>6, <2>1, ConstantFacts DEF EntryIn
    <2> QED
        BY <2>1, <2>2, <2>3 DEF EntryRight, Plain
<1>8. ret' \in Edges => Meaning(node)[ret'] = Due(node, Top)
    <2>1. fr.inv \in BOOLEAN
        BY <1>3 DEF FrameType
    <2> QED
        BY <1>1, <1>3, <1>5, <1>6, <1>7, <2>1, InvertedRight DEF SInv
<1> QED
    BY <1>1, <1>2, <1>8, TopRight, CallsPop DEF Top

LEMMA ChangeAtTopRight ==
    ASSUME IInv, SInv, ChangeAtTop
    PROVE  CallsRight(node, Asked(node), stack', ret')
<1> DEFINE h0 == IF Lev(Top.f) < Top.g THEN False ELSE Cofactor1(Top.f)
           h1 == IF Lev(Top.f) < Top.g THEN Top.f ELSE Cofactor0(Top.f)
           fr == [Top EXCEPT !.v = Top.g, !.h0 = h0, !.h1 = h1, !.pc = "make"]
           F == Meaning(node)[Top.f]
           g == Top.g
<1>1. /\ Running("enter") /\ Direct(Top) /\ stack' = Replaced(fr) /\ ret' = ret
    BY DEF ChangeAtTop
<1>2. /\ stack # <<>> /\ stack \in Seq(FrameType) /\ ret' \notin Edges /\ Structured(node)
      /\ Top \in FrameType /\ InTab(node, Top.f) /\ Top.f \in Edges
      /\ Due(node, Top) = Plain(node, Top) /\ ~Top.inv
    BY <1>1, EnterRight, TopRight, StateFacts, ConstantFacts DEF SInv
<1>3. /\ Top.op = "CHANGE" /\ g \in Vars /\ Lev(Top.f) <= g /\ Lev(Top.f) = Height(node, Top.f)
      /\ Cofactor0(Top.f) = HalfZero(node, Top.f) /\ Cofactor1(Top.f) = HalfOne(node, Top.f)
    BY <1>1, <1>2, TopRight, LevFacts DEF Direct, UnaryOps
<1>4. g \in Nat /\ g >= 1 /\ g \in 0..NumVars /\ Height(node, Top.f) \in 0..NumVars
    <2>1. g \in 1..NumVars /\ NumVars \in Nat
        BY <1>3, ConstantFacts DEF Vars
    <2>2. Height(node, Top.f) \in 0..NumVars
        BY <1>2, HeightFacts
    <2> QED
        BY <2>1, <2>2
<1>5. /\ h0 \in Edges /\ h1 \in Edges
      /\ Meaning(node)[h0] = Without(g, Changed(g, F)) /\ Meaning(node)[h1] = With(g, Changed(g, F))
    <2>1. CASE Lev(Top.f) < g
        <3>1. h0 = False /\ h1 = Top.f
            BY <2>1
        <3>2. Height(node, Top.f) < g
            BY <1>3, <2>1
        <3>3. Without(g, Changed(g, F)) = {} /\ With(g, Changed(g, F)) = F
            BY <1>2, <1>4, <3>2, LowFamily
        <3> QED
            BY <1>2, <3>1, <3>3, ConstantMeaning, ConstantFacts
    <2>2. CASE Lev(Top.f) = g
        <3>1. ~Cst(Top.f)
            BY <1>3, <1>4, <2>2 DEF Lev
        <3>2. h0 = HalfOne(node, Top.f) /\ h1 = HalfZero(node, Top.f)
            BY <1>3, <1>4, <2>2
        <3> QED
            <4>1. /\ HalfZero(node, Top.f) \in Edges /\ HalfOne(node, Top.f) \in Edges
                  /\ Meaning(node)[HalfZero(node, Top.f)] = Without(g, F)
                  /\ Meaning(node)[HalfOne(node, Top.f)] = With(g, F)
                <5>1. /\ HalfZero(node, Top.f) \in Edges /\ HalfOne(node, Top.f) \in Edges
                      /\ Meaning(node)[HalfZero(node, Top.f)] = Without(Height(node, Top.f), F)
                      /\ Meaning(node)[HalfOne(node, Top.f)] = With(Height(node, Top.f), F)
                    BY <1>2, <3>1, HalfFacts
                <5>2. Height(node, Top.f) = g
                    BY <1>3, <2>2
                <5> QED
                    BY <5>1, <5>2, Zenon
            <4>2. Without(g, Changed(g, F)) = With(g, F) /\ With(g, Changed(g, F)) = Without(g, F)
                BY ChangedHalves
            <4> QED
                BY <3>2, <4>1, <4>2
    <2> QED
        BY <1>3, <1>4, <2>1, <2>2
<1> HIDE DEF h0, h1
<1>6. /\ fr \in FrameType /\ fr.op = "CHANGE" /\ fr.f = Top.f /\ fr.g = g /\ fr.v = g
      /\ fr.h0 = h0 /\ fr.h1 = h1 /\ fr.pc = "make" /\ ~fr.inv
    BY <1>2, <1>3, <1>4, <1>5 DEF FrameType
<1> HIDE DEF fr
<1>7. Plain(node, fr) = Plain(node, Top) /\ Plain(node, fr) = Changed(g, F)
    BY <1>3, <1>6, AppliedFacts DEF Plain
<1>8. \A s \in Plain(node, fr) : s \in SUBSET (1..g)
    <2>1. g \in 1..g /\ "CHANGE" \in UnaryOps /\ "CHANGE" \notin BinaryOps
        BY <1>4 DEF UnaryOps, BinaryOps
    <2>2. \A s \in Applied(node, "CHANGE", Top.f, g) : s \in SUBSET (1..g)
        BY <1>2, <1>3, <2>1, AppliedBound
    <2> QED
        BY <1>3, <1>6, <2>2 DEF Plain
<1>9. FrameRight(node, fr) /\ Due(node, fr) = Due(node, Top)
    BY <1>2, <1>5, <1>6, <1>7, <1>8 DEF FrameRight, Due
<1> QED
    BY <1>1, <1>2, <1>6, <1>9, TopRight, CallsReplace DEF Top, Replaced

LEMMA DescendRight ==
    ASSUME IInv, SInv, Descend
    PROVE  CallsRight(node, Asked(node), stack', ret')
<1> DEFINE fr == Normal(Top)
           binary == fr.op \in BinaryOps
           flev == Lev(fr.f)
           glev == IF binary THEN Lev(fr.g) ELSE 0
           f0 == IF flev >= glev THEN Cofactor0(fr.f) ELSE fr.f
           f1 == IF flev >= glev THEN Cofactor1(fr.f) ELSE False
           g0 == IF binary /\ flev <= glev THEN Cofactor0(fr.g) ELSE fr.g
           g1 == IF ~binary THEN fr.g ELSE IF flev <= glev THEN Cofactor1(fr.g) ELSE False
           v == IF flev >= glev THEN flev ELSE glev
           fr1 == [fr EXCEPT !.v = v, !.f1 = f1, !.g1 = g1, !.key = Key(fr), !.pc = "h0"]
           top == Frame(fr.op, f0, g0)
<1>1. /\ Running("enter") /\ Trivial(Top.op, Top.f, Top.g) = NoRet /\ ~Direct(Top)
      /\ stack' = Append(Replaced(fr1), top) /\ ret' = ret
    BY DEF Descend
<1>2. /\ stack # <<>> /\ stack \in Seq(FrameType) /\ ret' \notin Edges /\ Structured(node)
      /\ Top.pc = "enter"
    BY <1>1, EnterRight, StateFacts, ConstantFacts DEF SInv
<1>3. /\ fr \in FrameType /\ fr.op = Top.op /\ fr.h0 = False /\ fr.h1 = False
      /\ fr.f \in Edges /\ InTab(node, fr.f)
      /\ fr.op \in BinaryOps => fr.g \in Edges /\ InTab(node, fr.g)
      /\ fr.op \in UnaryOps => fr.g \in Vars /\ fr.g = Top.g /\ Lev(fr.f) = Lev(Top.f)
      /\ Due(node, fr) = Due(node, Top)
    BY <1>1, NormalRight
<1>4. /\ fr.op \in BinaryOps \cup UnaryOps /\ BinaryOps \cap UnaryOps = {}
      /\ Cst(fr.f) \/ (binary /\ Cst(fr.g)) => Cst(Top.f) \/ (binary /\ Cst(Top.g))
    BY <1>2, <1>3, TopRight, NormalFacts
<1>5. /\ binary => ~Cst(fr.f) /\ ~Cst(fr.g)
      /\ ~binary => ~Cst(fr.f) /\ flev > fr.g
    <2> HIDE DEF fr
    <2>1. /\ OperandFits(Top.op, Top.g) /\ LiveEdge(Top.f) /\ (Top.op \in BinaryOps => LiveEdge(Top.g))
          /\ Top \in FrameType
        BY <1>2, TopState DEF FrameInv, OperandsLive
    <2>2. /\ Top.op \in BinaryOps => ~Cst(Top.f) /\ ~Cst(Top.g)
          /\ Top.op \in {"OFFSET", "ONSET"} => ~Cst(Top.f)
        BY <1>1, <2>1, TrivialFacts DEF FrameType
    <2>3. CASE binary
        BY <1>3, <1>4, <2>2, <2>3
    <2>4. CASE ~binary
        <3>1. Lev(Top.f) \in 0..NumVars /\ Top.g \in Vars /\ Top.f \in Edges
            BY <1>2, <1>3, <1>4, <2>1, <2>4, HeightFacts, LevFacts, TopRight DEF FrameType
        <3>2. Lev(Top.f) > Top.g
            <4>1. CASE Top.op = "CHANGE"
                BY <1>1, <3>1, <4>1 DEF Direct, Vars
            <4>2. CASE Top.op = "OFFSET"
                <5>1. Cofactor0(Top.f) # NoRet /\ Top.f # NoRet
                    BY <2>1, <2>2, <3>1, <4>2, CofactorLive, ConstantFacts
                <5> QED
                    BY <1>1, <3>1, <4>2, <5>1 DEF Trivial, Vars
            <4>3. CASE Top.op = "ONSET"
                <5>1. Cofactor1(Top.f) # NoRet /\ False # NoRet
                    BY <2>1, <2>2, <3>1, <4>3, CofactorLive, ConstantFacts
                <5> QED
                    BY <1>1, <3>1, <4>3, <5>1 DEF Trivial, Vars
            <4> QED
                BY <1>3, <1>4, <2>4, <4>1, <4>2, <4>3 DEF UnaryOps
        <3>3. ~Cst(fr.f)
            <4>1. Lev(fr.f) > 0
                BY <1>3, <1>4, <2>4, <3>1, <3>2 DEF Vars
            <4> QED
                BY <4>1 DEF Lev
        <3> QED
            BY <1>3, <1>4, <2>4, <3>2, <3>3
    <2> QED
        BY <2>3, <2>4
<1> HIDE DEF fr
<1>6. /\ flev = Height(node, fr.f) /\ flev \in Vars /\ flev \in Nat
      /\ binary => glev = Height(node, fr.g) /\ glev \in Vars
      /\ glev \in Nat
    <2>1. Height(node, fr.f) \in 1..NumVars
        BY <1>2, <1>3, <1>5, BelowFacts
    <2>2. binary => Height(node, fr.g) \in 1..NumVars
        BY <1>2, <1>3, <1>5, BelowFacts
    <2> QED
        BY <2>1, <2>2, LevFacts DEF Vars
<1>7. /\ v \in Vars /\ flev <= v /\ glev <= v /\ v \in 0..NumVars
      /\ flev >= glev <=> flev = v
      /\ flev <= glev <=> glev = v
    BY <1>6, ConstantFacts DEF Vars
<1>8. /\ f0 = LowerZero(node, fr.f, v) /\ f1 = LowerOne(node, fr.f, v)
      /\ binary => g0 = LowerZero(node, fr.g, v) /\ g1 = LowerOne(node, fr.g, v)
      /\ ~binary => g0 = fr.g /\ g1 = fr.g
    <2> HIDE DEF v
    <2> QED
        BY <1>6, <1>7, LevFacts DEF LowerZero, LowerOne
<1> HIDE DEF f0, f1, g0, g1, v, flev, glev
<1>9. /\ f0 \in Edges /\ InTab(node, f0) /\ f1 \in Edges /\ InTab(node, f1)
      /\ Meaning(node)[f0] = Without(v, Meaning(node)[fr.f])
      /\ Meaning(node)[f1] = With(v, Meaning(node)[fr.f])
    BY <1>2, <1>3, <1>6, <1>7, <1>8, LowerFacts
<1>10. binary =>
        /\ g0 \in Edges /\ g1 \in Edges
        /\ Meaning(node)[g0] = Without(v, Meaning(node)[fr.g])
        /\ Meaning(node)[g1] = With(v, Meaning(node)[fr.g])
    BY <1>2, <1>3, <1>6, <1>7, <1>8, LowerFacts
<1>11. ~binary => fr.g # v /\ fr.g \in 1..v /\ fr.op \in UnaryOps
    BY <1>3, <1>4, <1>5, <1>6, <1>7 DEF Vars, flev
<1>12. /\ Applied(node, fr.op, f0, g0) = Without(v, Plain(node, fr))
       /\ Applied(node, fr.op, f1, g1) = With(v, Plain(node, fr))
    <2>1. fr.op \in UnaryOps => ~binary
        BY <1>4
    <2> QED
        BY <1>4, <1>8, <1>9, <1>10, <1>11, <2>1, AppliedHalves DEF Plain
<1>13. \A s \in Plain(node, fr) : s \in SUBSET (1..v)
    <2>1. fr.op \in UnaryOps => ~binary
        BY <1>4
    <2> QED
        BY <1>2, <1>3, <1>4, <1>6, <1>7, <1>11, <2>1, AppliedBound DEF Plain
<1>14. /\ fr1 \in FrameType /\ top \in FrameType
    <2>1. g0 \in Operands /\ g1 \in Operands
        BY <1>3, <1>8, <1>10 DEF FrameType, Operands
    <2>2. Key(fr) \in Nat
        <3>1. Key(fr) \in 0..Len(cache) /\ Len(cache) \in Nat
            BY <1>2, NormalFacts, CacheFacts DEF fr, IInv
        <3> QED
            BY <3>1
    <2> QED
        <3>1. fr1 \in FrameType
            BY <1>3, <1>7, <1>9, <2>1, <2>2 DEF FrameType
        <3>2. 0 \in 0..NumVars /\ False \in Edges /\ False \in Operands /\ 0 \in Nat
            BY ConstantFacts DEF Operands
        <3>3. top \in FrameType
            BY <1>4, <1>9, <2>1, <3>2 DEF FrameType, Frame
        <3> QED
            BY <3>1, <3>3
<1>15. /\ fr1.op = fr.op /\ fr1.f = fr.f /\ fr1.g = fr.g /\ fr1.v = v /\ fr1.f1 = f1 /\ fr1.g1 = g1
       /\ fr1.pc = "h0" /\ fr1.inv = fr.inv
       /\ top.op = fr.op /\ top.f = f0 /\ top.g = g0 /\ top.pc = "enter" /\ ~top.inv /\ top.key = 0
    BY <1>3 DEF FrameType, Frame
<1> HIDE DEF fr1, top
<1>16. FrameRight(node, fr1) /\ Due(node, fr1) = Due(node, Top)
    <2>1. Plain(node, fr1) = Plain(node, fr)
        BY <1>15 DEF Plain
    <2> QED
        BY <1>3, <1>12, <1>13, <1>15, <2>1 DEF FrameRight, Due
<1>17. FrameRight(node, top) /\ Due(node, top) = Awaited(node, fr1)
    BY <1>12, <1>15 DEF FrameRight, Due, Awaited, Plain
<1> QED
    BY <1>1, <1>2, <1>14, <1>16, <1>17, TopRight, CallsCall DEF Top, Replaced

LEMMA SecondHalfRight ==
    ASSUME IInv, SInv, SecondHalf
    PROVE  CallsRight(node, Asked(node), stack', ret')
<1> DEFINE fr == [Top EXCEPT !.h0 = ret, !.pc = "h1"]
           top == Frame(Top.op, Top.f1, Top.g1)
<1>1. /\ stack # <<>> /\ Top.pc = "h0" /\ ret # NoRet /\ ret # Null
      /\ stack' = Append(Replaced(fr), top) /\ ret' = NoRet
    BY DEF SecondHalf, Resumed
<1>2. /\ stack \in Seq(FrameType) /\ ret \in Edges /\ NoRet \notin Edges
    BY <1>1, StateFacts, ConstantFacts DEF Values
<1>3. /\ Top \in FrameType /\ FrameRight(node, Top)
      /\ Meaning(node)[ret] = Awaited(node, Top)
      /\ CallsRight(node, Asked(node), stack, ret)
    BY <1>1, <1>2, TopRight
<1>4. fr \in FrameType /\ top \in FrameType
    <2>1. 0 \in 0..NumVars /\ False \in Edges /\ False \in Operands /\ 0 \in Nat
        BY ConstantFacts DEF Operands
    <2> QED
        BY <1>2, <1>3, <2>1 DEF FrameType, Frame
<1>5. /\ fr.op = Top.op /\ fr.f = Top.f /\ fr.g = Top.g /\ fr.v = Top.v /\ fr.inv = Top.inv
      /\ fr.h0 = ret /\ fr.pc = "h1"
      /\ top.op = Top.op /\ top.f = Top.f1 /\ top.g = Top.g1 /\ top.pc = "enter" /\ ~top.inv
      /\ top.key = 0
    BY <1>3 DEF FrameType, Frame
<1> HIDE DEF fr, top
<1>6. Plain(node, fr) = Plain(node, Top)
    BY <1>5 DEF Plain
<1>7. FrameRight(node, fr) /\ Due(node, fr) = Due(node, Top)
    BY <1>1, <1>3, <1>5, <1>6 DEF FrameRight, Due, Awaited
<1>8. FrameRight(node, top) /\ Due(node, top) = Awaited(node, fr)
    BY <1>1, <1>3, <1>5, <1>6 DEF FrameRight, Due, Awaited, Plain
<1> QED
    BY <1>1, <1>2, <1>3, <1>4, <1>7, <1>8, CallsCall DEF Top, Replaced

LEMMA BothHalvesRight ==
    ASSUME IInv, SInv, BothHalves
    PROVE  CallsRight(node, Asked(node), stack', ret')
<1> DEFINE fr == [Top EXCEPT !.h1 = ret, !.pc = "make"]
<1>1. /\ stack # <<>> /\ Top.pc = "h1" /\ ret # NoRet /\ ret # Null
      /\ stack' = Replaced(fr) /\ ret' = NoRet
    BY DEF BothHalves, Resumed
<1>2. /\ stack \in Seq(FrameType) /\ ret \in Edges /\ NoRet \notin Edges
    BY <1>1, StateFacts, ConstantFacts DEF Values
<1>3. /\ Top \in FrameType /\ FrameRight(node, Top)
      /\ Meaning(node)[ret] = Awaited(node, Top)
      /\ CallsRight(node, Asked(node), stack, ret)
    BY <1>1, <1>2, TopRight
<1>4. /\ fr \in FrameType
      /\ fr.op = Top.op /\ fr.f = Top.f /\ fr.g = Top.g /\ fr.v = Top.v /\ fr.inv = Top.inv
      /\ fr.h0 = Top.h0 /\ fr.h1 = ret /\ fr.pc = "make"
    BY <1>2, <1>3 DEF FrameType
<1> HIDE DEF fr
<1>5. Plain(node, fr) = Plain(node, Top)
    BY <1>4 DEF Plain
<1>6. FrameRight(node, fr) /\ Due(node, fr) = Due(node, Top)
    BY <1>1, <1>3, <1>4, <1>5 DEF FrameRight, Due, Awaited
<1> QED
    BY <1>1, <1>2, <1>3, <1>4, <1>6, CallsReplace DEF Top, Replaced

\* The table was enlarged or collected for the call on top.
LEMMA TopWaitsRight ==
    ASSUME IInv, SInv, stack # <<>>, Top.pc = "make", ret = NoRet
    PROVE  CallsRight(node, Asked(node), Replaced([Top EXCEPT !.pc = "allocate"]), NoRet)
<1> DEFINE fr == [Top EXCEPT !.pc = "allocate"]
<1>1. stack \in Seq(FrameType) /\ NoRet \notin Edges
    BY StateFacts, ConstantFacts
<1>2. /\ Top \in FrameType /\ FrameRight(node, Top) /\ CallsRight(node, Asked(node), stack, ret)
    BY TopRight
<1>3. /\ fr \in FrameType
      /\ fr.op = Top.op /\ fr.f = Top.f /\ fr.g = Top.g /\ fr.v = Top.v /\ fr.inv = Top.inv
      /\ fr.h0 = Top.h0 /\ fr.h1 = Top.h1 /\ fr.pc = "allocate"
    BY <1>2 DEF FrameType
<1> HIDE DEF fr
<1>4. Plain(node, fr) = Plain(node, Top)
    BY <1>3 DEF Plain
<1>5. FrameRight(node, fr) /\ Due(node, fr) = Due(node, Top)
    BY <1>2, <1>3, <1>4 DEF FrameRight, Due
<1> QED
    BY <1>1, <1>2, <1>3, <1>5, CallsReplace DEF Top, Replaced, fr
-----------------------------------------------------------------------------
(***************************************************************************)
(* Results: what is returned and what is written to the cache.             *)
(***************************************************************************)
LEMMA WithoutAll ==
    ASSUME NEW v, NEW F
    PROVE  Without(v, F) = F <=> With(v, F) = {}
BY DEF Without, With

LEMMA WrittenRight ==
    ASSUME IInv, stack # <<>>, NEW t, Structured(t), NEW h \in Edges \cup {Null},
           h \in Edges => Meaning(t)[h] = Plain(t, Top),
           \A k \in 1..Len(cache) : EntryRight(t, cache[k]), NEW w, w = Written(Top, h)
    PROVE  \A k \in 1..Len(w) : EntryRight(t, w[k])
<1> SUFFICES ASSUME NEW k \in 1..Len(w), WrittenFor(w[k], h), EntryIn(t, w[k])
             PROVE  Meaning(t)[w[k].h] = Applied(t, w[k].op, w[k].f, w[k].g)
    BY WrittenFacts DEF EntryRight
<1> DEFINE e == w[k]
           F == Meaning(t)[Top.f]
<1>1. e.f = Top.f /\ e.g = Top.g /\ Follows(Top.op, h, e) /\ e.h # Null
    BY DEF WrittenFor, EntryIn
<1>2. Top.f \in Edges /\ False \in Edges /\ Meaning(t)[False] = {}
    BY TopState, ConstantFacts, ConstantMeaning DEF FrameType
<1> HIDE DEF e
<1>3. CASE e.op = Top.op /\ e.h = h
    BY <1>1, <1>3 DEF Plain, e
<1>4. CASE Top.op = "OFFSET" /\ h = Top.f /\ e.op = "ONSET" /\ e.h = False
    <2>1. Without(Top.g, F) = F
        BY <1>2, <1>4, AppliedFacts DEF Plain
    <2>2. With(Top.g, F) = {}
        BY <2>1, WithoutAll
    <2>3. Applied(t, "ONSET", Top.f, Top.g) = With(Top.g, F)
        BY AppliedFacts
    <2> QED
        BY <1>1, <1>2, <1>4, <2>2, <2>3 DEF e
<1>5. CASE Top.op = "ONSET" /\ h = False /\ e.op = "OFFSET" /\ e.h = Top.f
    <2>1. With(Top.g, F) = {}
        BY <1>2, <1>5, AppliedFacts DEF Plain
    <2>2. Without(Top.g, F) = F
        BY <2>1, WithoutAll
    <2>3. Applied(t, "OFFSET", Top.f, Top.g) = Without(Top.g, F)
        BY AppliedFacts
    <2> QED
        BY <1>1, <1>5, <2>2, <2>3 DEF e
<1> QED
    BY <1>1, <1>3, <1>4, <1>5 DEF Follows

LEMMA ReturnRight ==
    ASSUME IInv, stack # <<>>, NEW t, Structured(t), NEW A, CallsRight(t, A, stack, ret),
           \A k \in 1..Len(cache) : EntryRight(t, cache[k]), NEW h \in Edges \cup {Null},
           h \in Edges => InTab(t, h) /\ Meaning(t)[h] = Plain(t, Top), Return(Top, h)
    PROVE  /\ CallsRight(t, A, stack', ret')
           /\ \A k \in 1..Len(cache') : EntryRight(t, cache'[k])
<1>1. stack \in Seq(FrameType) /\ Top.inv \in BOOLEAN
    BY StateFacts, TopState DEF FrameType
<1>2. ret' = Inverted(Top, h) /\ cache' = Written(Top, h) /\ stack' = Front(stack)
    BY DEF Return
<1>3. ret' \in Edges => Meaning(t)[ret'] = Due(t, Top)
    BY <1>1, <1>2, InvertedRight
<1>4. CallsRight(t, A, stack', ret')
    BY <1>1, <1>2, <1>3, CallsPop DEF Top
<1> QED
    BY <1>2, <1>4, WrittenRight

\* The halves of the node that getzbddp() is asked for.
LEMMA MakeRight ==
    ASSUME IInv, SInv, stack # <<>>, Top.pc \in {"make", "allocate"}
    PROVE  /\ Meaning(node)[Top.h0] = Without(Top.v, Plain(node, Top))
           /\ Meaning(node)[Top.h1] = With(Top.v, Plain(node, Top))
           /\ \A s \in Plain(node, Top) : s \in SUBSET (1..Top.v)
           /\ InTab(node, Top.h0) /\ InTab(node, Top.h1)
           /\ Top.h0 \in Edges /\ Top.h1 \in Edges /\ Top.v \in Vars
<1>1. /\ FrameRight(node, Top) /\ FrameIn(node, Top) /\ FrameInv(Top)
      /\ Top.h0 \in Edges /\ Top.h1 \in Edges
    BY TopRight
<1> QED
    BY <1>1 DEF FrameRight, FrameIn, FrameInv

LEMMA EliminateRight ==
    ASSUME IInv, SInv, Eliminate
    PROVE  /\ CallsRight(node, Asked(node), stack', ret')
           /\ \A k \in 1..Len(cache') : EntryRight(node, cache'[k])
<1>1. stack # <<>> /\ Top.pc = "make" /\ Top.h1 = False /\ Return(Top, Top.h0)
    BY DEF Eliminate, Running
<1>2. /\ Meaning(node)[Top.h0] = Without(Top.v, Plain(node, Top))
      /\ Meaning(node)[Top.h1] = With(Top.v, Plain(node, Top))
      /\ InTab(node, Top.h0) /\ Top.h0 \in Edges
    BY <1>1, MakeRight
<1>3. With(Top.v, Plain(node, Top)) = {}
    BY <1>1, <1>2, ConstantMeaning DEF SInv
<1>4. Meaning(node)[Top.h0] = Plain(node, Top)
    BY <1>2, <1>3, WithoutAll
<1> QED
    BY <1>1, <1>2, <1>4, ReturnRight DEF SInv, EntriesRight

LEMMA ShareRight ==
    ASSUME IInv, SInv, Share
    PROVE  /\ CallsRight(node, Asked(node), stack', ret')
           /\ \A k \in 1..Len(cache') : EntryRight(node, cache'[k])
<1>1. stack # <<>> /\ Top.pc = "make"
    BY DEF Share, Running
<1>2. PICK n \in Equivalent : Return(Top, NodeEdge(n))
    BY DEF Share
<1>3. /\ n \in UsedIn(node) /\ node[n].var = Top.v
      /\ node[n].f0 = StoredEdge(Top.h0) /\ node[n].f1 = Top.h1
    BY DEF Equivalent, Stored0, StoredEdge, Used, UsedIn
<1>4. /\ Meaning(node)[Top.h0] = Without(Top.v, Plain(node, Top))
      /\ Meaning(node)[Top.h1] = With(Top.v, Plain(node, Top))
      /\ Top.h0 \in Edges
    BY <1>1, MakeRight
<1>5. NodeEdge(n) = EdgeTo(n, Top.h0)
    BY DEF NodeEdge, EdgeTo
<1>6. NodeEdge(n) \in Edges /\ InTab(node, NodeEdge(n)) /\ Meaning(node)[NodeEdge(n)] = Plain(node, Top)
    BY <1>3, <1>4, <1>5, NodeMeaning DEF SInv
<1> QED
    BY <1>1, <1>2, <1>6, ReturnRight DEF SInv, EntriesRight

LEMMA NullRight ==
    ASSUME IInv, SInv, Overflow \/ NodeTableOverflow
    PROVE  /\ CallsRight(node, Asked(node), stack', ret')
           /\ \A k \in 1..Len(cache') : EntryRight(node, cache'[k])
<1>1. stack # <<>> /\ Return(Top, Null)
    BY DEF Overflow, Resumed, NodeTableOverflow, Scanned, IInv, ControlInv
<1>2. Null \notin Edges
    BY ConstantFacts
<1> QED
    BY <1>1, <1>2, ReturnRight DEF SInv, EntriesRight
-----------------------------------------------------------------------------
(***************************************************************************)
(* From one state to the next.                                             *)
(***************************************************************************)
LEMMA SameTable ==
    ASSUME NEW t, Structured(t), NEW u \in TableType, SameNodes(t, u)
    PROVE  /\ Structured(u) /\ Agrees(t, u)
           /\ \A f \in Edges : InTab(u, f) <=> InTab(t, f)
<1>1. UsedIn(u) = UsedIn(t)
    BY DEF UsedIn, SameNodes
<1>2. PartOf(u, t) /\ PartOf(t, u)
    BY <1>1 DEF PartOf, SameNodes, UsedIn
<1>3. \A f \in Edges : InTab(u, f) <=> InTab(t, f)
    BY EdgeFacts DEF InTab, SameNodes
<1>4. \A n \in UsedIn(u) : InTab(u, u[n].f0) /\ InTab(u, u[n].f1)
    <2>1. \A n \in UsedIn(u) : u[n].f0 = t[n].f0 /\ u[n].f1 = t[n].f1 /\ u[n].f0 \in Edges /\ u[n].f1 \in Edges
        BY DEF UsedIn, SameNodes, TableType, NodeType
    <2>2. \A n \in UsedIn(u) : InTab(t, t[n].f0) /\ InTab(t, t[n].f1)
        BY <1>1 DEF Structured, NodeOrdered
    <2> QED
        BY <1>3, <2>1, <2>2
<1>5. Structured(u)
    BY <1>2, <1>4, PartStructured
<1> QED
    BY <1>2, <1>3, <1>5, PartAgrees

SameCall == handle' = handle /\ (call' = call \/ call' = [call EXCEPT !.failed = TRUE])

LEMMA CallKept ==
    ASSUME IInv, stack # <<>>, SameCall
    PROVE  /\ call # NoCall /\ call \in CallType /\ call' # NoCall
           /\ call'.op = call.op /\ call'.a = call.a /\ call'.g = call.g
<1>1. call # NoCall /\ call \in CallType
    BY DEF IInv, ControlInv, TypesInv
<1>2. call' \in CallType
    BY <1>1, CallTypes DEF SameCall
<1> QED
    BY <1>1, <1>2, CallTypes DEF SameCall, CallType

\* What was asked for stays the same.
LEMMA AskedKept ==
    ASSUME IInv, IInv', SInv, stack # <<>>, SameCall, Agrees(node, node')
    PROVE  Asked(node)' = Asked(node)
<1>1. /\ call # NoCall /\ call \in CallType
      /\ call'.op = call.op /\ call'.a = call.a /\ call'.g = call.g /\ handle' = handle
    BY CallKept DEF SameCall
<1>2. ~NullOperand /\ call.g \in IF call.op \in BinaryOps THEN Handles ELSE Vars
    BY <1>1 DEF SInv, NullInv, CallInv
<1>3. handle \in [Handles -> Edges \cup {Null}] /\ call.a \in Handles /\ call.op \in BinaryOps \cup UnaryOps
    BY <1>1, StateFacts DEF CallType
<1>4. StateIn /\ StateIn'
    <2>1. (IInv => StateIn)'
        BY StateInTable, PTL
    <2> QED
        BY <2>1, StateInTable
<1>5. handle[call.a] \in Edges /\ InTab(node, handle[call.a]) /\ InTab(node', handle[call.a])
    BY <1>1, <1>2, <1>3, <1>4 DEF NullOperand, StateIn
<1>6. call.op \in BinaryOps =>
        /\ handle[call.g] \in Edges /\ InTab(node, handle[call.g]) /\ InTab(node', handle[call.g])
    BY <1>1, <1>2, <1>3, <1>4 DEF NullOperand, StateIn
<1> DEFINE g == IF call.op \in BinaryOps THEN handle[call.g] ELSE call.g
<1>7. Applied(node', call.op, handle[call.a], g) = Applied(node, call.op, handle[call.a], g)
    BY <1>3, <1>5, <1>6, AppliedKept
<1> QED
    BY <1>1, <1>7 DEF Asked

\* The entries of the next cache.
LEMMA EntriesNext ==
    ASSUME IInv, IInv', [Next]_vars
    PROVE  \A k \in 1..Len(cache') : /\ cache'[k] \in EntryType
                                     /\ cache'[k].op \in BinaryOps => cache'[k].g \in Edges
<1>1. cache' \in Seq(EntryType)
    BY CacheTypeStep
<1>2. \A k \in 1..Len(cache') : cache'[k].op # "NULL" => OperandFits(cache'[k].op, cache'[k].g)
    BY DEF IInv, CacheInv, EntryWithin
<1>3. "NULL" \notin BinaryOps
    BY DEF BinaryOps
<1> QED
    BY <1>1, <1>2, <1>3 DEF OperandFits

LEMMA SameStep ==
    ASSUME IInv, IInv', SInv, [Next]_vars, SameNodes(node, node'), stack # <<>>, SameCall,
           CallsRight(node, Asked(node), stack', ret'),
           \A k \in 1..Len(cache') : EntryRight(node, cache'[k])
    PROVE  /\ Structured(node') /\ CallsRight(node', Asked(node)', stack', ret')
           /\ EntriesRight'
<1>1. node' \in TableType
    BY TallyStep
<1>2. /\ Structured(node') /\ Agrees(node, node')
      /\ \A f \in Edges : InTab(node', f) <=> InTab(node, f)
    BY <1>1, SameTable DEF SInv
<1>3. StateIn' /\ stack' \in Seq(FrameType)
    <2>1. (IInv => StateIn)'
        BY StateInTable, PTL
    <2> QED
        BY <2>1, StackStep DEF StackOk
<1>4. FramesIn(node', stack') /\ (ret' \in Edges => InTab(node', ret'))
    BY <1>3 DEF StateIn
<1>5. FramesIn(node, stack')
    <2>1. ASSUME NEW fr \in FrameType, FrameIn(node', fr)
          PROVE  FrameIn(node, fr)
        BY <1>2, <2>1 DEF FrameIn, FrameType
    <2> QED
        BY <1>3, <1>4, <2>1 DEF FramesIn
<1>6. CallsRight(node', Asked(node), stack', ret')
    BY <1>2, <1>3, <1>4, <1>5, CallsKept
<1>7. CallsRight(node', Asked(node)', stack', ret')
    BY <1>2, <1>6, AskedKept
<1>8. ASSUME NEW k \in 1..Len(cache')
      PROVE  EntryRight(node', cache'[k])
    <2>1. cache'[k] \in EntryType /\ (cache'[k].op \in BinaryOps => cache'[k].g \in Edges)
        BY EntriesNext
    <2>2. EntryIn(node', cache'[k]) => EntryIn(node, cache'[k])
        BY <1>2, <2>1, ConstantFacts DEF EntryIn, EntryType
    <2> QED
        BY <1>2, <2>1, <2>2, EntryKept
<1> QED
    BY <1>2, <1>7, <1>8 DEF EntriesRight

\* The edges of the node that getzbddp() makes are lower than the node.
LEMMA MakeHeights ==
    ASSUME IInv, SInv, stack # <<>>, Top.pc \in {"make", "allocate"}
    PROVE  Height(node, Top.h0) < Top.v /\ Height(node, Top.h1) < Top.v
<1> DEFINE F == Plain(node, Top)
           v == Top.v
<1>1. /\ Meaning(node)[Top.h0] = Without(v, F) /\ Meaning(node)[Top.h1] = With(v, F)
      /\ \A s \in F : s \in SUBSET (1..v)
      /\ InTab(node, Top.h0) /\ InTab(node, Top.h1)
      /\ Top.h0 \in Edges /\ Top.h1 \in Edges /\ v \in Nat /\ v - 1 \in Nat
    BY MakeRight, ConstantFacts DEF Vars
<1> HIDE DEF F, v
<1>2. \A s : s \in SUBSET (1..v) /\ v \notin s => s \in SUBSET (1..(v - 1))
    BY <1>1
<1>3. \A s \in Without(v, F) : s \in SUBSET (1..(v - 1))
    BY <1>1, <1>2 DEF Without
<1>4. \A s \in With(v, F) : s \in SUBSET (1..(v - 1))
    <2>1. ASSUME NEW s \in SUBSET (1..v)
          PROVE  s \ {v} \in SUBSET (1..v) /\ v \notin s \ {v}
        OBVIOUS
    <2> QED
        BY <1>1, <1>2, <2>1 DEF With
<1>5. Height(node, Top.h0) <= v - 1 /\ Height(node, Top.h1) <= v - 1
    BY <1>1, <1>3, <1>4, MeaningHeight DEF SInv
<1>6. Height(node, Top.h0) \in 0..NumVars /\ Height(node, Top.h1) \in 0..NumVars
    BY <1>1, HeightFacts DEF SInv
<1>7. Height(node, Top.h0) < v /\ Height(node, Top.h1) < v
    BY <1>1, <1>5, <1>6, ConstantFacts
<1> QED
    BY <1>7 DEF v

LEMMA AllocateTable ==
    ASSUME IInv, SInv, Allocate
    PROVE  Structured(node') /\ PartOf(node, node')
<1> DEFINE a == Head(avail)
           x == [var |-> Top.v, rfc |-> 1, f0 |-> Stored0, f1 |-> Top.h1]
<1>1. /\ stack # <<>> /\ Top.pc \in {"make", "allocate"} /\ Top.v \in Vars
      /\ Top.h0 \in Edges /\ Top.h1 \in Edges
    BY AllocateTop
<1>2. a \in Index /\ node[a].var = 0 /\ Structured(node) /\ node' = [node EXCEPT ![a] = x]
    BY HeadFree DEF SInv, Allocate
<1>3. Top.h1 # False /\ Equivalent = {}
    BY <1>1 DEF Allocate, NewNeeded, Running, SInv, NewNodeInv
<1>4. Stored0 \in Edges /\ Neg(Stored0)
    BY <1>1, StoredFacts
<1>5. InTab(node, Stored0) /\ Height(node, Stored0) = Height(node, Top.h0)
    BY <1>1, MakeRight, SignFacts DEF Stored0
<1>6. Height(node, Top.h0) < Top.v /\ Height(node, Top.h1) < Top.v /\ InTab(node, Top.h1)
    BY <1>1, MakeRight, MakeHeights
<1>7. \A m \in UsedIn(node) : ~(node[m].var = Top.v /\ node[m].f0 = Stored0 /\ node[m].f1 = Top.h1)
    BY <1>3 DEF Equivalent, Used, UsedIn
<1>8. x \in NodeType /\ x.var # 0 /\ x.var = Top.v /\ x.f0 = Stored0 /\ x.f1 = Top.h1
    BY <1>1, <1>4, ConstantFacts DEF NodeType, Vars
<1> HIDE DEF x, a
<1>9. /\ Neg(x.f0) /\ x.f1 # False /\ InTab(node, x.f0) /\ Height(node, x.f0) < x.var
      /\ InTab(node, x.f1) /\ Height(node, x.f1) < x.var
      /\ \A m \in UsedIn(node) : ~(node[m].var = x.var /\ node[m].f0 = x.f0 /\ node[m].f1 = x.f1)
    BY <1>3, <1>4, <1>5, <1>6, <1>7, <1>8
<1> QED
    BY <1>2, <1>8, <1>9, NewNodeStructured

LEMMA AllocateRight ==
    ASSUME IInv, IInv', SInv, Allocate, [Next]_vars
    PROVE  /\ Structured(node') /\ CallsRight(node', Asked(node)', stack', ret')
           /\ EntriesRight'
<1> DEFINE a == Head(avail)
           t == node'
<1>1. /\ stack # <<>> /\ ret = NoRet /\ ~gc.on /\ Top.pc \in {"make", "allocate"}
      /\ Top \in FrameType /\ stack \in Seq(FrameType) /\ NoRet \notin Edges
    BY AllocateTop, StateFacts, ConstantFacts
<1>2. /\ node' = [node EXCEPT ![a] = [var |-> Top.v, rfc |-> 1, f0 |-> Stored0, f1 |-> Top.h1]]
      /\ Return(Top, NodeEdge(a)) /\ handle' = handle /\ call' = call
    BY DEF Allocate
<1>3. Structured(t) /\ PartOf(node, t) /\ Structured(node)
    BY AllocateTable DEF SInv
<1>4. Agrees(node, t) /\ \A f \in Edges : InTab(node, f) => InTab(t, f)
    BY <1>3, PartAgrees, PartFacts
<1>5. /\ a \in UsedIn(t) /\ t[a].var = Top.v /\ t[a].f1 = Top.h1
      /\ t[a].f0 = StoredEdge(Top.h0)
    <2>1. Top.v # 0 /\ a \in Index /\ node \in TableType
        BY AllocateTop, HeadFree, StateFacts DEF Vars
    <2> QED
        BY <1>2, <2>1 DEF UsedIn, Stored0, StoredEdge, TableType
<1> HIDE DEF t, a
<1>6. StateIn
    BY StateInTable
<1>7. FramesIn(node, stack) /\ FramesIn(t, stack)
    <2>1. \A fr \in FrameType : FrameIn(node, fr) => FrameIn(t, fr)
        BY <1>4 DEF FrameIn, FrameType
    <2> QED
        BY <1>1, <1>6, <2>1 DEF StateIn, FramesIn
<1>8. CallsRight(t, Asked(node), stack, ret)
    BY <1>1, <1>4, <1>7, CallsKept DEF SInv
<1>9. /\ Plain(t, Top) = Plain(node, Top)
      /\ Meaning(t)[Top.h0] = Meaning(node)[Top.h0] /\ Meaning(t)[Top.h1] = Meaning(node)[Top.h1]
    <2>1. FrameIn(node, Top) /\ FrameIn(t, Top) /\ FrameRight(node, Top)
        <3>1. Len(stack) \in 1..Len(stack)
            BY <1>1, TopState
        <3> QED
            BY <1>1, <1>7, <3>1, TopRight DEF FramesIn, Top
    <2>2. Plain(t, Top) = Plain(node, Top)
        BY <1>1, <1>4, <2>1, FrameKept
    <2> QED
        BY <1>1, <1>4, <2>1, <2>2 DEF FrameIn, FrameType, Agrees
<1>10. /\ Meaning(t)[Top.h0] = Without(Top.v, Plain(t, Top)) /\ Top.h0 \in Edges
       /\ Meaning(t)[Top.h1] = With(Top.v, Plain(t, Top))
    BY <1>1, <1>9, MakeRight
<1>11. NodeEdge(a) \in Edges /\ InTab(t, NodeEdge(a)) /\ Meaning(t)[NodeEdge(a)] = Plain(t, Top)
    <2>1. NodeEdge(a) = EdgeTo(a, Top.h0)
        BY DEF NodeEdge, EdgeTo
    <2>2. /\ Meaning(t)[Top.h0] = Without(t[a].var, Plain(t, Top))
          /\ Meaning(t)[t[a].f1] = With(t[a].var, Plain(t, Top))
        BY <1>5, <1>10
    <2>3. /\ Structured(t) /\ a \in UsedIn(t) /\ Top.h0 \in Edges
          /\ t[a].f0 = StoredEdge(Top.h0)
        BY <1>3, <1>5, <1>10
    <2>4. \A e : e = EdgeTo(a, Top.h0) => /\ e \in Edges /\ InTab(t, e)
                                          /\ Meaning(t)[e] = Plain(t, Top)
        BY <2>2, <2>3, NodeMeaning, SMTT(40)
    <2> QED
        BY <2>1, <2>4
<1>12. ASSUME NEW k \in 1..Len(cache)
       PROVE  EntryRight(t, cache[k])
    <2>1. cache[k] \in EntryType
        BY CacheFacts DEF IInv
    <2>2. /\ cache[k].op # "NULL" => EntryInv(cache[k])
          /\ cache[k].op # "NULL" => OperandFits(cache[k].op, cache[k].g)
        BY <1>1 DEF IInv, CacheInv, EntryWithin
    <2>3. cache[k].op \in BinaryOps => cache[k].g \in Edges
        BY <2>2 DEF OperandFits, BinaryOps
    <2>4. EntryIn(t, cache[k]) => EntryIn(node, cache[k])
        BY <2>2 DEF EntryIn, EntryInv, InTable, InTab
    <2>5. EntryRight(node, cache[k])
        BY DEF SInv, EntriesRight
    <2> QED
        BY <1>4, <2>1, <2>3, <2>4, <2>5, EntryKept
<1>13. /\ CallsRight(t, Asked(node), stack', ret')
       /\ \A k \in 1..Len(cache') : EntryRight(t, cache'[k])
    BY <1>1, <1>2, <1>3, <1>8, <1>11, <1>12, ReturnRight
<1>14. Asked(node)' = Asked(node)
    BY <1>1, <1>2, <1>4, AskedKept DEF SameCall, t
<1> QED
    BY <1>3, <1>13, <1>14 DEF EntriesRight, t

\* What a node of a counted table refers to is in the table.
LEMMA ChildrenIn ==
    ASSUME NEW t, NEW R, Sound(t, R), ZeroRefs(t) \subseteq R, OneRefs(t) \subseteq R,
           NEW n \in UsedIn(t)
    PROVE  InTab(t, t[n].f0) /\ InTab(t, t[n].f1)
<1>1. <<"f0", n, t[n].f0>> \in R /\ <<"f1", n, t[n].f1>> \in R
    BY DEF ZeroRefs, OneRefs
<1>2. t[n].f0 \in Edges /\ t[n].f1 \in Edges
    BY DEF UsedIn, Sound, TableType, NodeType
<1>3. /\ Counted(t[n].f0) => UsedEdge(t, t[n].f0)
      /\ Counted(t[n].f1) => UsedEdge(t, t[n].f1)
    BY <1>1, <1>2, RefUsed DEF Values
<1> QED
    BY <1>2, <1>3, EdgeFacts DEF UsedEdge, InTab

LEMMA CollectTable ==
    ASSUME IInv, SInv, NEW t, NEW n, NEW rest, CollectsFrom(t, n, rest)
    PROVE  /\ Structured(node') /\ PartOf(node', node)
           /\ UNCHANGED <<nodeSpc, cache, handle, call, stack, ret>>
<1>1. /\ Sound(node', RefSetNext)
      /\ \A k \in Index \ {n} : node'[k].var = node[k].var
                /\ node'[k].f0 = node[k].f0 /\ node'[k].f1 = node[k].f1
      /\ node'[n].var = 0
    BY CollectStep DEF IInv, TypesInv
<1>2. PartOf(node', node)
    BY <1>1 DEF PartOf, UsedIn
<1>3. \A k \in UsedIn(node') : InTab(node', node'[k].f0) /\ InTab(node', node'[k].f1)
    <2>1. ZeroRefs(node') \subseteq RefSetNext /\ OneRefs(node') \subseteq RefSetNext
        BY DEF RefSetNext, RefSet
    <2> QED
        BY <1>1, <2>1, ChildrenIn
<1>4. Structured(node')
    BY <1>1, <1>2, <1>3, PartStructured DEF SInv, Sound
<1> QED
    BY <1>2, <1>4 DEF CollectsFrom

LEMMA CollectRight ==
    ASSUME IInv, IInv', SInv, [Next]_vars, NEW t, NEW n, NEW rest, CollectsFrom(t, n, rest), gc.on
    PROVE  /\ Structured(node') /\ CallsRight(node', Asked(node)', stack', ret')
           /\ EntriesRight'
<1>1. /\ Structured(node') /\ PartOf(node', node) /\ Structured(node)
      /\ cache' = cache /\ handle' = handle /\ call' = call /\ stack' = stack /\ ret' = ret
    BY CollectTable DEF SInv
<1>2. /\ Agrees(node, node') /\ \A f \in Edges : InTab(node', f) => InTab(node, f)
    BY <1>1, PartAgrees, PartFacts
<1>3. stack # <<>> /\ stack \in Seq(FrameType)
    BY StateFacts DEF IInv, ControlInv
<1>4. StateIn /\ StateIn'
    <2>1. (IInv => StateIn)'
        BY StateInTable, PTL
    <2> QED
        BY <2>1, StateInTable
<1>5. CallsRight(node', Asked(node), stack, ret)
    <2>1. FramesIn(node, stack) /\ FramesIn(node', stack)
        BY <1>1, <1>4 DEF StateIn
    <2>2. ret \in Edges => InTab(node, ret) /\ InTab(node', ret)
        BY <1>1, <1>4 DEF StateIn
    <2> QED
        BY <1>2, <1>3, <2>1, <2>2, CallsKept DEF SInv
<1>6. Asked(node)' = Asked(node)
    BY <1>1, <1>2, <1>3, AskedKept DEF SameCall
<1>7. ASSUME NEW k \in 1..Len(cache')
      PROVE  EntryRight(node', cache'[k])
    <2>1. cache'[k] \in EntryType /\ (cache'[k].op \in BinaryOps => cache'[k].g \in Edges)
        BY EntriesNext
    <2>2. EntryIn(node', cache'[k]) => EntryIn(node, cache'[k])
        BY <1>2, <2>1, ConstantFacts DEF EntryIn, EntryType
    <2>3. EntryRight(node, cache'[k])
        BY <1>1 DEF SInv, EntriesRight
    <2> QED
        BY <1>2, <2>1, <2>2, <2>3, EntryKept
<1> QED
    BY <1>1, <1>5, <1>6, <1>7 DEF EntriesRight

\* Between two operations nothing is on the stack.
LEMMA IdleRight ==
    ASSUME IInv, IInv', SInv, [Next]_vars, SameNodes(node, node'), cache' = cache,
           CallsRight(node', Asked(node)', stack', ret')
    PROVE  /\ Structured(node') /\ CallsRight(node', Asked(node)', stack', ret')
           /\ EntriesRight'
<1>1. node' \in TableType
    BY TallyStep
<1>2. /\ Structured(node') /\ Agrees(node, node')
      /\ \A f \in Edges : InTab(node', f) <=> InTab(node, f)
    BY <1>1, SameTable DEF SInv
<1>3. ASSUME NEW k \in 1..Len(cache')
      PROVE  EntryRight(node', cache'[k])
    <2>1. cache'[k] \in EntryType /\ (cache'[k].op \in BinaryOps => cache'[k].g \in Edges)
        BY EntriesNext
    <2>2. EntryIn(node', cache'[k]) => EntryIn(node, cache'[k])
        BY <1>2, <2>1, ConstantFacts DEF EntryIn, EntryType
    <2>3. EntryRight(node, cache'[k])
        BY DEF SInv, EntriesRight
    <2> QED
        BY <1>2, <2>1, <2>2, <2>3, EntryKept
<1> QED
    BY <1>2, <1>3 DEF EntriesRight

LEMMA EmptyStack ==
    ASSUME NEW t, NEW A, NEW r, r \notin Edges
    PROVE  CallsRight(t, A, <<>>, r)
BY DEF CallsRight

LEMMA CallRight ==
    ASSUME IInv, NEW op \in BinaryOps \cup UnaryOps, NEW h, NEW a, NEW g, Call(op, h, a, g)
    PROVE  /\ node' = node /\ cache' = cache
           /\ CallsRight(node', Asked(node)', stack', ret')
<1> DEFINE arg == IF op \in BinaryOps THEN handle[g] ELSE g
           fr == Frame(op, handle[a], arg)
<1>1. /\ stack = <<>> /\ ret = NoRet /\ node' = node /\ cache' = cache /\ handle' = handle
      /\ call' = [op |-> op, to |-> h, a |-> a, g |-> g, failed |-> FALSE]
      /\ \/ ret' = Null /\ stack' = stack
         \/ ret' = ret /\ stack' = <<fr>>
    BY DEF Call, Idle, IInv, ControlInv
<1>2. ret' \notin Edges
    BY <1>1, ConstantFacts
<1>3. CASE stack' = <<>>
    BY <1>1, <1>2, <1>3, EmptyStack
<1>4. CASE stack' = <<fr>>
    <2>1. call'.op = op /\ call'.a = a /\ call'.g = g
        BY <1>1
    <2>2. Asked(node)' = Applied(node, op, handle[a], arg)
        BY <1>1, <2>1 DEF Asked
    <2>3. /\ fr.op = op /\ fr.f = handle[a] /\ fr.g = arg /\ fr.pc = "enter" /\ ~fr.inv /\ fr.key = 0
        BY DEF Frame
    <2> HIDE DEF fr, arg
    <2>4. FrameRight(node, fr) /\ Due(node, fr) = Asked(node)'
        BY <2>2, <2>3 DEF FrameRight, Due, Plain
    <2>5. Len(stack') = 1 /\ stack'[1] = fr
        BY <1>4
    <2> QED
        BY <1>1, <1>2, <2>4, <2>5 DEF CallsRight, Expected
<1> QED
    BY <1>1, <1>3, <1>4

\* The entries that a step does not write are those of before.
LEMMA EntriesStay ==
    ASSUME IInv, SInv, [Next]_vars, ~WriteStep
    PROVE  \A k \in 1..Len(cache') : EntryRight(node, cache'[k])
<1> SUFFICES ASSUME NEW k \in 1..Len(cache')
             PROVE  EntryRight(node, cache'[k])
    OBVIOUS
<1>1. EntryFrom(cache'[k])
    BY CacheTypeStep
<1>2. CASE \E j \in 1..Len(cache) : cache'[k] = cache[j]
    BY <1>2 DEF SInv, EntriesRight
<1>3. CASE cache'[k] = NoEntry
    BY <1>3 DEF NoEntry, EntryRight, EntryIn
<1> QED
    BY <1>1, <1>2, <1>3 DEF EntryFrom

\* The steps of the program.
LEMMA ProgramRight ==
    ASSUME IInv, IInv', SInv, [Next]_vars, Program \/ Finish
    PROVE  /\ Structured(node') /\ CallsRight(node', Asked(node)', stack', ret')
           /\ EntriesRight'
<1>1. ASSUME NEW h \in Handles, NEW f \in Edges \cup {Null}, UsedEdge(node, f), Assign(h, f)
      PROVE  /\ Structured(node') /\ CallsRight(node', Asked(node)', stack', ret')
             /\ EntriesRight'
    <2>1. SameNodes(node, node')
        BY <1>1, AssignSound DEF Values
    <2>2. cache' = cache /\ stack' = <<>> /\ ret' \notin Edges
        BY <1>1, ConstantFacts DEF Assign, Idle, IInv, ControlInv
    <2>3. CallsRight(node', Asked(node)', stack', ret')
        BY <2>2, EmptyStack
    <2> QED
        BY <2>1, <2>2, <2>3, IdleRight
<1>2. ASSUME NEW op \in BinaryOps \cup UnaryOps, NEW h, NEW a, NEW g, Call(op, h, a, g)
      PROVE  /\ Structured(node') /\ CallsRight(node', Asked(node)', stack', ret')
             /\ EntriesRight'
    <2>1. node' = node /\ cache' = cache /\ CallsRight(node', Asked(node)', stack', ret')
        BY <1>2, CallRight
    <2>2. SameNodes(node, node')
        BY <2>1 DEF SameNodes
    <2> QED
        BY <2>1, <2>2, IdleRight
<1>3. CASE Finish
    <2>1. SameNodes(node, node')
        BY <1>3, FinishSound
    <2>2. cache' = cache /\ stack' = <<>> /\ ret' \notin Edges
        BY <1>3, ConstantFacts DEF Finish
    <2>3. CallsRight(node', Asked(node)', stack', ret')
        BY <2>2, EmptyStack
    <2> QED
        BY <2>1, <2>2, <2>3, IdleRight
<1> QED
    BY <1>1, <1>2, <1>3, ProgramSteps

\* The steps that let a call go on or return without a new node.
LEMMA ApplyRight ==
    ASSUME IInv, IInv', SInv, [Next]_vars,
           Apply \/ Eliminate \/ Share \/ NodeTableOverflow
    PROVE  /\ Structured(node') /\ CallsRight(node', Asked(node)', stack', ret')
           /\ EntriesRight'
<1>1. SameNodes(node, node')
    BY ReturnTrivialSound, ChangeAtTopSound, ReturnCachedSound, DescendSound, SecondHalfSound,
       BothHalvesSound, OverflowSound, EliminateSound, ShareSound, NodeTableOverflowSound DEF Apply
<1>2. stack # <<>>
    BY ReturnsFacts, PushesFacts DEF Apply, ReturnStep, PushStep, Returns
<1>3. SameCall
    BY DEF SameCall, Apply, ReturnTrivial, ChangeAtTop, ReturnCached, Descend, SecondHalf,
           BothHalves, Overflow, Eliminate, Share, NodeTableOverflow
<1>4. CallsRight(node, Asked(node), stack', ret')
    BY ReturnTrivialRight, ChangeAtTopRight, ReturnCachedRight, DescendRight, SecondHalfRight,
       BothHalvesRight, NullRight, EliminateRight, ShareRight DEF Apply
<1>5. \A k \in 1..Len(cache') : EntryRight(node, cache'[k])
    <2>1. CASE Overflow \/ NodeTableOverflow \/ Eliminate \/ Share
        BY <2>1, NullRight, EliminateRight, ShareRight
    <2>2. CASE ReturnTrivial \/ ChangeAtTop \/ ReturnCached \/ Descend \/ SecondHalf \/ BothHalves
        <3>1. cache' = cache
            BY <2>2 DEF ReturnTrivial, ChangeAtTop, ReturnCached, Descend, SecondHalf, BothHalves
        <3> QED
            BY <3>1 DEF SInv, EntriesRight
    <2> QED
        BY <2>1, <2>2 DEF Apply
<1> QED
    BY <1>1, <1>2, <1>3, <1>4, <1>5, SameStep

\* The table is enlarged, or a collection begins or ends.
LEMMA TableRight ==
    ASSUME IInv, IInv', SInv, [Next]_vars, Enlarge \/ StartGc \/ GcSucceeded
    PROVE  /\ Structured(node') /\ CallsRight(node', Asked(node)', stack', ret')
           /\ EntriesRight'
<1>1. /\ stack # <<>> /\ Top.pc = "make" /\ ret = NoRet /\ ret' = ret
      /\ node' = node /\ handle' = handle /\ call' = call
    BY DEF Enlarge, StartGc, NewNeeded, Running, GcSucceeded, Scanned, IInv, ControlInv
<1>2. SameNodes(node, node') /\ SameCall
    BY <1>1 DEF SameNodes, SameCall
<1>3. CallsRight(node, Asked(node), stack', ret')
    <2>1. CASE StartGc
        BY <2>1 DEF StartGc, SInv
    <2>2. CASE Enlarge \/ GcSucceeded
        BY <1>1, <2>2, TopWaitsRight DEF Enlarge, GcSucceeded
    <2> QED
        BY <2>1, <2>2
<1>4. \A k \in 1..Len(cache') : EntryRight(node, cache'[k])
    <2>1. ret' = NoRet
        BY <1>1
    <2>2. ~WriteStep
        BY <2>1, ReturnsFacts DEF WriteStep, ReturnStep, Returns
    <2> QED
        BY <2>2, EntriesStay
<1> QED
    BY <1>1, <1>2, <1>3, <1>4, SameStep

LEMMA FollowRight ==
    ASSUME IInv, IInv', SInv, [Next]_vars, Scan \/ FollowEdge
    PROVE  /\ Structured(node') /\ CallsRight(node', Asked(node)', stack', ret')
           /\ EntriesRight'
<1>1. gc.on /\ stack # <<>> /\ cache' = cache /\ SameCall /\ stack' = stack /\ ret' = ret
    BY DEF Scan, FollowEdge, IInv, ControlInv, SameCall
<1>2. CASE \E t, n, rest : CollectsFrom(t, n, rest)
    BY <1>1, <1>2, CollectRight
<1>3. CASE SameNodes(node, node')
    <2>1. CallsRight(node, Asked(node), stack', ret')
        BY <1>1 DEF SInv
    <2>2. \A k \in 1..Len(cache') : EntryRight(node, cache'[k])
        BY <1>1 DEF SInv, EntriesRight
    <2> QED
        BY <1>1, <1>3, <2>1, <2>2, SameStep
<1> QED
    BY <1>2, <1>3, ScanCollects, FollowEdgeCollects

LEMMA CallsStep ==
    ASSUME IInv, IInv', SInv, [Next]_vars
    PROVE  /\ Structured(node') /\ CallsRight(node', Asked(node)', stack', ret')
           /\ EntriesRight'
<1>1. CASE UNCHANGED vars
    <2>1. Asked(node)' = Asked(node)
        BY <1>1 DEF vars, Asked
    <2> QED
        BY <1>1, <2>1 DEF vars, SInv, EntriesRight
<1>2. CASE Program \/ Finish
    BY <1>2, ProgramRight
<1>3. CASE Apply \/ Eliminate \/ Share \/ NodeTableOverflow
    BY <1>3, ApplyRight
<1>4. CASE Allocate
    BY <1>4, AllocateRight
<1>5. CASE Enlarge \/ StartGc \/ GcSucceeded
    BY <1>5, TableRight
<1>6. CASE Scan \/ FollowEdge
    BY <1>6, FollowRight
<1> QED
    BY <1>1, <1>2, <1>3, <1>4, <1>5, <1>6 DEF Next, Machine, GetNode, Gc

\* Who works, and whether a collection is on.
LEMMA MachineSteps ==
    ASSUME IInv, [Next]_vars
    PROVE  \/ Program \/ Finish \/ UNCHANGED vars
           \/ stack # <<>> /\ SameCall
<1>1. CASE ReturnStep \/ PushStep \/ StartGc \/ Scan \/ FollowEdge
    <2>1. stack # <<>>
        BY <1>1, ReturnsFacts, PushesFacts
           DEF Returns, StartGc, NewNeeded, Running, Scan, FollowEdge, IInv, ControlInv
    <2>2. SameCall
        BY <1>1 DEF SameCall, ReturnStep, PushStep, ReturnTrivial, ChangeAtTop, ReturnCached, Descend,
               SecondHalf, BothHalves, Overflow, Eliminate, Share, Allocate, Enlarge, StartGc, Scan,
               FollowEdge, GcSucceeded, NodeTableOverflow
    <2> QED
        BY <2>1, <2>2
<1> QED
    BY <1>1, NextCases

LEMMA NullStep ==
    ASSUME IInv, SInv, [Next]_vars
    PROVE  NullInv' /\ CallInv'
<1>1. ASSUME NEW op \in BinaryOps \cup UnaryOps, NEW h \in Handles, NEW a \in Handles,
             NEW g \in IF op \in BinaryOps THEN Handles ELSE Vars, Call(op, h, a, g)
      PROVE  NullInv' /\ CallInv'
    <2>1. /\ stack = <<>> /\ handle' = handle
          /\ call' = [op |-> op, to |-> h, a |-> a, g |-> g, failed |-> FALSE]
          /\ handle[a] = Null \/ (op \in BinaryOps /\ handle[g] = Null) =>
                stack' = stack /\ ret' = Null
        BY <1>1 DEF Call, Idle, IInv, ControlInv
    <2>2. call'.op = op /\ call'.a = a /\ call'.g = g
        BY <2>1
    <2> QED
        BY <1>1, <2>1, <2>2 DEF NullInv, NullOperand, CallInv
<1>2. ASSUME NEW h, NEW f, Assign(h, f)
      PROVE  NullInv' /\ CallInv'
    BY <1>2 DEF Assign, Idle, NullInv, CallInv
<1>3. CASE Finish
    BY <1>3 DEF Finish, NullInv, CallInv
<1>4. CASE stack # <<>> /\ SameCall
    <2>1. /\ call # NoCall /\ call'.op = call.op /\ call'.a = call.a /\ call'.g = call.g
          /\ handle' = handle
        BY <1>4, CallKept DEF SameCall
    <2>2. ~NullOperand /\ call.g \in IF call.op \in BinaryOps THEN Handles ELSE Vars
        BY <1>4, <2>1 DEF SInv, NullInv, CallInv
    <2>3. ~NullOperand'
        BY <2>1, <2>2 DEF NullOperand
    <2> QED
        BY <2>1, <2>2, <2>3 DEF NullInv, CallInv
<1>5. CASE UNCHANGED vars
    BY <1>5 DEF vars, SInv, NullInv, CallInv, NullOperand
<1>6. CASE Program
    BY <1>1, <1>2, <1>6, ProgramSteps
<1> QED
    BY <1>3, <1>4, <1>5, <1>6, MachineSteps

LEMMA NewNodeStep ==
    ASSUME IInv, SInv, [Next]_vars
    PROVE  NewNodeInv'
<1> SUFFICES ASSUME stack' # <<>>, Top'.pc = "allocate" \/ gc'.on
             PROVE  Top'.h1 # False /\ Equivalent' = {}
    BY DEF NewNodeInv
<1>1. \A n \in Index : node'[n].var # 0 /\ ~(Enlarge \/ GcSucceeded) =>
            \/ Allocate
            \/ node[n].var = node'[n].var /\ node[n].f0 = node'[n].f0 /\ node[n].f1 = node'[n].f1
    <2>1. CASE SameNodes(node, node')
        BY <2>1 DEF SameNodes
    <2>2. ASSUME NEW t, NEW n, NEW rest, CollectsFrom(t, n, rest)
          PROVE  \A k \in Index : node'[k].var # 0 =>
                    node[k].var = node'[k].var /\ node[k].f0 = node'[k].f0 /\ node[k].f1 = node'[k].f1
        BY <2>2, CollectTable DEF PartOf, UsedIn
    <2> QED
        BY <2>1, <2>2, StepSound
<1>2. CASE Enlarge \/ GcSucceeded
    <2>1. /\ stack # <<>> /\ stack' = Replaced([Top EXCEPT !.pc = "allocate"]) /\ node' = node
          /\ Top.h1 # False /\ Equivalent = {}
        BY <1>2 DEF Enlarge, NewNeeded, Running, GcSucceeded, Scanned, IInv, ControlInv, SInv, NewNodeInv
    <2>2. stack \in Seq(FrameType) /\ Top \in FrameType /\ [Top EXCEPT !.pc = "allocate"] \in FrameType
        BY <2>1, StateFacts, TopState DEF FrameType
    <2>3. Len(stack') = Len(stack) /\ stack'[Len(stack)] = [Top EXCEPT !.pc = "allocate"]
        BY <2>1, <2>2, ReplaceFacts DEF Replaced
    <2>4. Top' = [Top EXCEPT !.pc = "allocate"]
        BY <2>3 DEF Top
    <2>5. Top'.v = Top.v /\ Top'.h0 = Top.h0 /\ Top'.h1 = Top.h1
        BY <2>2, <2>4 DEF FrameType
    <2> QED
        BY <2>1, <2>5 DEF Equivalent, Used, Stored0
<1>3. CASE /\ stack' = stack /\ (gc.on \/ Top.pc = "allocate" \/ StartGc)
           /\ ~(Enlarge \/ GcSucceeded)
    <2>1. Top' = Top /\ stack # <<>>
        BY <1>3 DEF Top
    <2>2. Top.h1 # False /\ Equivalent = {}
        BY <1>3, <2>1 DEF StartGc, NewNeeded, SInv, NewNodeInv
    <2>3. ~Allocate /\ ~Enlarge /\ ~GcSucceeded
        <3>1. ~Allocate
            <4>1. SUFFICES ASSUME Allocate
                           PROVE  FALSE
                OBVIOUS
            <4>2. stack' = Front(stack) /\ stack \in Seq(FrameType)
                BY <4>1, ReturnsFacts, StateFacts DEF Returns, ReturnStep
            <4>3. Len(stack) \in Nat /\ Len(Front(stack)) = Len(stack) - 1
                BY <2>1, <4>2, TopFacts
            <4>4. Front(stack) = stack
                BY <1>3, <4>2
            <4>5. Len(Front(stack)) = Len(stack)
                BY <4>4
            <4> QED
                BY <4>3, <4>5
        <3> QED
            BY <1>3, <3>1
    <2>4. Equivalent' = {}
        <3>1. Stored0' = Stored0
            BY <2>1 DEF Stored0
        <3> QED
            BY <1>1, <2>1, <2>2, <2>3, <3>1 DEF Equivalent, Used
    <2> QED
        BY <2>1, <2>2, <2>4
<1>4. CASE gc'.on
    <2>1. ~ReturnStep /\ ~PushStep
        BY <1>4, ReturnsFacts, PushesFacts DEF Returns, NoGc
    <2>2. CASE StartGc
        BY <1>3, <2>1, <2>2 DEF StartGc, PushStep
    <2>3. CASE Scan \/ FollowEdge \/ UNCHANGED vars
        BY <1>3, <1>4, <2>1, <2>3 DEF Scan, FollowEdge, vars, PushStep
    <2>4. CASE Program \/ Finish
        <3>1. gc' = gc /\ stack = <<>>
            BY <2>4, ProgramSteps DEF Assign, Call, Idle, Finish, IInv, ControlInv
        <3> QED
            BY <1>4, <3>1 DEF IInv, ControlInv
    <2> QED
        BY <2>1, <2>2, <2>3, <2>4, NextCases
<1>5. CASE Top'.pc = "allocate"
    <2>1. stack'[Len(stack')].pc = "allocate"
        BY <1>5 DEF Top
    <2>2. stack' = stack \/ Enlarge \/ GcSucceeded
        BY <2>1, AllocatePc
    <2>3. stack' = stack => Top.pc = "allocate"
        BY <1>5 DEF Top
    <2> QED
        BY <1>2, <1>3, <2>2, <2>3
<1> QED
    BY <1>4, <1>5
-----------------------------------------------------------------------------
(***************************************************************************)
(* The inductive invariant.                                                *)
(***************************************************************************)
LEMMA InitRight == Init => SInv
<1> SUFFICES ASSUME Init
             PROVE  SInv
    OBVIOUS
<1>1. IInv
    BY InitInv
<1>2. node \in TableType
    BY <1>1, StateFacts
<1>3. UsedIn(node) = {}
    BY DEF Init, UsedIn, FreeNode
<1>4. Structured(node)
    BY <1>2, <1>3 DEF Structured
<1>5. stack = <<>> /\ ret = NoRet /\ call = NoCall /\ gc = NoGc
    BY DEF Init
<1>6. CallsRight(node, Asked(node), stack, ret)
    BY <1>5, EmptyStack, ConstantFacts
<1>7. \A k \in 1..Len(cache) : cache[k] = NoEntry
    BY SizesAssumption DEF Init
<1>8. EntriesRight
    BY <1>7 DEF EntriesRight, EntryRight, EntryIn, NoEntry
<1> QED
    BY <1>4, <1>5, <1>6, <1>8 DEF SInv, NullInv, CallInv, NewNodeInv

LEMMA SInvKept == IInv /\ IInv' /\ SInv /\ [Next]_vars => SInv'
<1> SUFFICES ASSUME IInv, IInv', SInv, [Next]_vars
             PROVE  SInv'
    OBVIOUS
<1>1. /\ Structured(node') /\ CallsRight(node', Asked(node)', stack', ret')
      /\ EntriesRight'
    BY CallsStep
<1>2. NullInv' /\ CallInv' /\ NewNodeInv'
    BY NullStep, NewNodeStep
<1>3. CallsRight(node, Asked(node), stack, ret)' <=> CallsRight(node', Asked(node)', stack', ret')
    OBVIOUS
<1>4. Structured(node)' <=> Structured(node')
    OBVIOUS
<1> QED
    BY <1>1, <1>2, <1>3, <1>4 DEF SInv

LEMMA SInvAlways == Spec => [](IInv /\ SInv)
<1>1. Init => IInv /\ SInv
    BY InitInv, InitRight
<1>2. IInv /\ SInv /\ [Next]_vars => IInv' /\ SInv'
    BY IInvKept, SInvKept
<1> QED
    BY <1>1, <1>2, PTL DEF Spec

(***************************************************************************)
(* Different edges into the table stand for different families, so that    *)
(* ZBDD::operator== may compare edges: in the middle of any operation,     *)
(* after any number of collections, the dead nodes included.               *)
(***************************************************************************)
THEOREM TableCanonical == Spec => []Canonical
<1>1. ASSUME IInv, SInv
      PROVE  Canonical
    <2>1. TableEdges \subseteq Edges /\ \A f \in TableEdges : InTab(node, f) /\ f # Null
        BY ConstantFacts DEF TableEdges, Used, InTab
    <2>2. \A f \in TableEdges : FamilyOf(f) = Meaning(node)[f]
        BY <2>1 DEF FamilyOf
    <2> DEFINE M == [f \in TableEdges |-> FamilyOf(f)]
               S == {FamilyOf(f) : f \in TableEdges}
    <2>3. IsFiniteSet(TableEdges)
        <3>1. True \in Int /\ Edges = 0..True
            BY ConstantFacts DEF Edges
        <3>2. 0 \in Int /\ IsFiniteSet(Edges)
            BY <3>1, FS_Interval
        <3> QED
            BY <2>1, <3>2, FS_Subset
    <2>4. M \in Injection(TableEdges, S)
        <3>1. ASSUME NEW f \in TableEdges, NEW g \in TableEdges, M[f] = M[g]
              PROVE  f = g
            BY <1>1, <2>1, <2>2, <3>1, MeaningInjective DEF SInv
        <3>2. M \in [TableEdges -> S]
            OBVIOUS
        <3> HIDE DEF M, S
        <3> QED
            BY <3>1, <3>2 DEF Injection, IsInjective
    <2>5. M \in Surjection(TableEdges, S)
        BY DEF Surjection
    <2>6. ExistsBijection(TableEdges, S)
        BY <2>4, <2>5 DEF ExistsBijection, Bijection
    <2>7. Cardinality(S) = Cardinality(TableEdges)
        <3> HIDE DEF S
        <3> QED
            BY <2>3, <2>6, FS_Bijection
    <2> QED
        BY <2>7 DEF Canonical
<1> QED
    BY <1>1, SInvAlways, PTL

(***************************************************************************)
(* Whatever the cache would answer is right: whichever entries the hash    *)
(* function makes collide, whatever follows from an entry, through the     *)
(* growth of the cache and through collections.                            *)
(***************************************************************************)
THEOREM CacheTruthful == Spec => []CacheSound
<1>1. ASSUME IInv, SInv
      PROVE  CacheSound
    <2>1. ASSUME ~gc.on, NEW k \in 1..Len(cache), cache[k].op # "NULL"
          PROVE  /\ cache[k].f \in TableEdges
                 /\ cache[k].op \in BinaryOps => cache[k].g \in TableEdges
                 /\ cache[k].h # Null =>
                        /\ cache[k].h \in TableEdges
                        /\ FamilyOf(cache[k].h) = MeantOf(cache[k].op, cache[k].f, cache[k].g)
        <3> DEFINE e == cache[k]
        <3>1. e \in EntryType /\ EntryInv(e) /\ EntryWithin(e)
            BY <1>1, <2>1, CacheFacts DEF IInv, CacheInv
        <3>2. EntryRight(node, e)
            BY <1>1 DEF SInv, EntriesRight
        <3> HIDE DEF e
        <3>3. /\ e.op # "NULL" /\ e.f \in Edges /\ InTable(e.f)
              /\ e.op \in BinaryOps => e.g \in Edges /\ InTable(e.g)
              /\ e.h # Null => e.h \in Edges /\ InTable(e.h)
            BY <2>1, <3>1 DEF EntryType, EntryInv, EntryWithin, OperandFits, e
        <3>4. \A f \in Edges : InTable(f) => f \in TableEdges /\ InTab(node, f) /\ f # Null
            BY EdgeFacts, ConstantFacts DEF InTable, TableEdges, Used, InTab
        <3>5. e.h # Null => Meaning(node)[e.h] = Applied(node, e.op, e.f, e.g)
            BY <3>2, <3>3, <3>4 DEF EntryRight, EntryIn
        <3>6. MeantOf(e.op, e.f, e.g) = Applied(node, e.op, e.f, e.g)
            BY <3>3, <3>4 DEF MeantOf, Applied, FamilyOf
        <3>7. e.h # Null => FamilyOf(e.h) = MeantOf(e.op, e.f, e.g)
            BY <3>5, <3>6 DEF FamilyOf
        <3> QED
            BY <3>3, <3>4, <3>7 DEF e
    <2>2. cache \in Seq(EntryType)
        BY <1>1, CacheFacts DEF IInv
    <2>3. \A e \in ToSet(cache) : \E k \in 1..Len(cache) : e = cache[k]
        BY <2>2 DEF ToSet
    <2> QED
        BY <2>1, <2>3 DEF CacheSound
<1> QED
    BY <1>1, SInvAlways, PTL
-----------------------------------------------------------------------------
(***************************************************************************)
(* The ZBDD objects do what ZbddFamilies promises.                         *)
(***************************************************************************)
FamilyIn(t, f) == IF f = Null THEN {{0}} ELSE Meaning(t)[f]

\* No edge stands for what bddnull is shown as.
LEMMA NullTold ==
    ASSUME NEW t, Structured(t), NEW f \in Edges \cup {Null}, f \in Edges => InTab(t, f)
    PROVE  FamilyIn(t, f) = {{0}} <=> f = Null
<1>1. CASE f \in Edges
    <2>1. f # Null /\ FamilyIn(t, f) = Meaning(t)[f]
        BY <1>1, ConstantFacts DEF FamilyIn
    <2>2. {0} \in Meaning(t)[f] => {0} \in SUBSET (1..Height(t, f))
        BY <1>1, MeaningFacts
    <2>3. Height(t, f) \in Nat => {0} \notin SUBSET (1..Height(t, f))
        OBVIOUS
    <2>4. Height(t, f) \in Nat
        BY <1>1, HeightFacts
    <2>5. {0} \notin Meaning(t)[f]
        BY <2>2, <2>3, <2>4
    <2> QED
        BY <2>1, <2>5
<1> QED
    BY <1>1 DEF FamilyIn

LEMMA AgreesStep ==
    ASSUME IInv, SInv, [Next]_vars
    PROVE  Agrees(node, node')
<1>1. node' \in TableType
    BY TallyStep
<1>2. CASE SameNodes(node, node')
    BY <1>1, <1>2, SameTable DEF SInv
<1>3. CASE Allocate
    BY <1>3, AllocateTable, PartAgrees DEF SInv
<1>4. ASSUME NEW t, NEW n, NEW rest, CollectsFrom(t, n, rest)
      PROVE  Agrees(node, node')
    BY <1>4, CollectTable, PartAgrees DEF SInv
<1> QED
    BY <1>2, <1>3, <1>4, StepSound

\* The objects of a state, and the next one.
LEMMA ObjectFacts ==
    ASSUME IInv, IInv', NEW h \in Handles
    PROVE  /\ handle[h] \in Edges \cup {Null} /\ handle'[h] \in Edges \cup {Null}
           /\ handle[h] \in Edges => InTab(node, handle[h])
           /\ handle'[h] \in Edges => InTab(node', handle'[h])
<1>1. StateIn /\ StateIn'
    <2>1. (IInv => StateIn)'
        BY StateInTable, PTL
    <2> QED
        BY <2>1, StateInTable
<1>2. handle \in [Handles -> Edges \cup {Null}] /\ handle' \in [Handles -> Edges \cup {Null}]
    BY DEF IInv, TypesInv, TypeOK
<1> QED
    BY <1>1, <1>2 DEF StateIn

\* An object that is not assigned stands for what it stood for.
LEMMA ObjectStays ==
    ASSUME IInv, IInv', SInv, [Next]_vars, NEW h \in Handles, handle'[h] = handle[h]
    PROVE  FamilyIn(node', handle'[h]) = FamilyIn(node, handle[h])
BY ObjectFacts, AgreesStep DEF Agrees, FamilyIn

\* An object takes the edge f over.
LEMMA ObjectTakes ==
    ASSUME IInv, IInv', SInv, [Next]_vars, NEW x \in Handles, NEW f \in Edges \cup {Null},
           f \in Edges => InTab(node, f), handle' = [handle EXCEPT ![x] = f]
    PROVE  [h \in Handles |-> FamilyIn(node', handle'[h])] =
                [[h \in Handles |-> FamilyIn(node, handle[h])] EXCEPT ![x] = FamilyIn(node, f)]
<1>1. handle \in [Handles -> Edges \cup {Null}]
    BY StateFacts
<1>2. handle'[x] = f /\ \A h \in Handles \ {x} : handle'[h] = handle[h]
    BY <1>1
<1>3. FamilyIn(node', f) = FamilyIn(node, f)
    BY <1>2, ObjectFacts, AgreesStep DEF Agrees, FamilyIn
<1>4. \A h \in Handles \ {x} : FamilyIn(node', handle'[h]) = FamilyIn(node, handle[h])
    BY <1>2, ObjectStays
<1> QED
    BY <1>2, <1>3, <1>4

\* The objects and the operation as ZbddFamilies has them.
Objects == [h \in Handles |-> FamilyIn(node, handle[h])]
ObjectsNext == [h \in Handles |-> FamilyIn(node', handle'[h])]
Request == [op |-> call.op, to |-> call.to, a |-> call.a, g |-> call.g]

LEMMA ObjectsShown ==
    /\ [h \in Handles |-> FamilyOf(handle[h])] = Objects
    /\ [h \in Handles |-> FamilyOf(handle[h])]' = ObjectsNext
BY DEF Objects, ObjectsNext, FamilyOf, FamilyIn, Meaning

LEMMA RequestShown ==
    ASSUME IInv
    PROVE  Request = Families!NoCall <=> call = NoCall
<1>1. call = NoCall => Request = Families!NoCall
    BY DEF Request, NoCall, Families!NoCall
<1>2. call \in CallType => Request # Families!NoCall
    <2>1. "none" \notin BinaryOps \cup UnaryOps
        BY DEF BinaryOps, UnaryOps
    <2>2. Request = Families!NoCall => call.op = "none"
        BY DEF Request, Families!NoCall
    <2> QED
        BY <2>1, <2>2 DEF CallType
<1> QED
    BY <1>1, <1>2, CallTypes DEF IInv, TypesInv

LEMMA AssignShown ==
    ASSUME IInv, IInv', SInv, [Next]_vars, NEW h \in Handles, NEW f \in Edges \cup {Null},
           f \in Edges => InTab(node, f), Assign(h, f)
    PROVE  Families!Assign(h, FamilyIn(node, f))
<1>1. call = NoCall /\ call' = call /\ handle' = [handle EXCEPT ![h] = f]
    BY DEF Assign, Idle, Store
<1>2. ObjectsNext = [Objects EXCEPT ![h] = FamilyIn(node, f)]
    BY <1>1, ObjectTakes DEF Objects, ObjectsNext
<1>3. Request = Families!NoCall /\ Request' = Request
    BY <1>1, RequestShown DEF Request
<1> QED
    BY <1>2, <1>3, ObjectsShown DEF Families!Assign, Request

LEMMA StutterShown ==
    ASSUME IInv, IInv', SInv, [Next]_vars, handle' = handle
    PROVE  ObjectsNext = Objects
BY ObjectStays DEF Objects, ObjectsNext

LEMMA CallShown ==
    ASSUME IInv, IInv', SInv, [Next]_vars, NEW op, NEW h, NEW a, NEW g, Call(op, h, a, g)
    PROVE  Families!Call(op, h, a, g)
<1>1. /\ call = NoCall /\ handle' = handle
      /\ call' = [op |-> op, to |-> h, a |-> a, g |-> g, failed |-> FALSE]
    BY DEF Call, Idle
<1>2. ObjectsNext = Objects
    BY <1>1, StutterShown
<1>3. Request = Families!NoCall
    BY <1>1, RequestShown
<1>4. Request' = [op |-> op, to |-> h, a |-> a, g |-> g]
    BY <1>1 DEF Request
<1> QED
    BY <1>2, <1>3, <1>4, ObjectsShown DEF Families!Call, Request

\* The result is the right family, or bddnull.
LEMMA ResultShown ==
    ASSUME IInv, SInv, call # NoCall, stack = <<>>
    PROVE  FamilyIn(node, ret) \in Families!Results
<1>1. /\ call \in CallType /\ ret \in Edges \cup {Null}
      /\ call.g \in IF call.op \in BinaryOps THEN Handles ELSE Vars
      /\ call.a \in Handles /\ call.op \in BinaryOps \cup UnaryOps
    BY StateFacts DEF IInv, TypesInv, ControlInv, SInv, CallInv, CallType, Values
<1>2. /\ Objects[call.a] = FamilyIn(node, handle[call.a])
      /\ call.op \in BinaryOps => Objects[call.g] = FamilyIn(node, handle[call.g])
    BY <1>1 DEF Objects
<1>3. ASSUME NEW h \in Handles
      PROVE  /\ handle[h] \in Edges \cup {Null} /\ (handle[h] \in Edges => InTab(node, handle[h]))
             /\ FamilyIn(node, handle[h]) = {{0}} <=> handle[h] = Null
    <2>1. handle[h] \in Edges \cup {Null}
        BY StateFacts
    <2>2. handle[h] \in Edges => InTab(node, handle[h])
        BY StateInTable DEF StateIn
    <2> QED
        BY <2>1, <2>2, NullTold DEF SInv
<1>4. Families!NullOperand <=> NullOperand
    <2>1. Families!NullOperand <=>
            \/ Objects[call.a] = {{0}}
            \/ call.op \in BinaryOps /\ Objects[call.g] = {{0}}
        BY ObjectsShown DEF Families!NullOperand, Families!NullFamily, Families!BinaryOps, BinaryOps
    <2> QED
        BY <1>1, <1>2, <1>3, <2>1 DEF NullOperand
<1>5. FamilyIn(node, Null) = {{0}}
    BY DEF FamilyIn
<1>6. CASE NullOperand
    <2>1. ret = Null
        BY <1>6 DEF SInv, NullInv
    <2> QED
        BY <1>4, <1>5, <1>6, <2>1 DEF Families!Results, Families!NullFamily
<1>7. CASE ~NullOperand /\ ret = Null
    BY <1>4, <1>5, <1>7 DEF Families!Results, Families!NullFamily
<1>8. CASE ~NullOperand /\ ret \in Edges
    <2>1. Meaning(node)[ret] = Asked(node)
        <3>1. Len(stack) + 1 = 1
            OBVIOUS
        <3> QED
            BY <1>8, <3>1 DEF SInv, CallsRight, Expected
    <2>2. FamilyIn(node, ret) = Asked(node)
        BY <1>8, <2>1, ConstantFacts DEF FamilyIn
    <2>3. FamilyIn(node, handle[call.a]) = Meaning(node)[handle[call.a]]
        BY <1>8 DEF NullOperand, FamilyIn
    <2>4. Families!Operand = IF call.op \in BinaryOps THEN Meaning(node)[handle[call.g]] ELSE call.g
        <3>1. Families!Operand = IF call.op \in BinaryOps THEN Objects[call.g] ELSE call.g
            BY ObjectsShown DEF Families!Operand, Families!BinaryOps, BinaryOps
        <3> QED
            BY <1>2, <1>8, <3>1 DEF NullOperand, FamilyIn
    <2>5. Asked(node) = Families!Meant(call.op, Objects[call.a], Families!Operand)
        BY <1>2, <2>3, <2>4 DEF Asked, Applied
    <2> DEFINE M == Families!Meant(call.op, Objects[call.a], Families!Operand)
    <2>6. Families!Results = {M, {{0}}}
        BY <1>4, <1>8, ObjectsShown DEF Families!Results, Families!NullFamily
    <2> QED
        BY <2>2, <2>5, <2>6
<1> QED
    BY <1>1, <1>6, <1>7, <1>8

LEMMA FinishShown ==
    ASSUME IInv, IInv', SInv, [Next]_vars, Finish
    PROVE  Families!Finish
<1>1. /\ call # NoCall /\ stack = <<>> /\ call' = NoCall
      /\ handle' = [handle EXCEPT ![call.to] = ret]
    BY DEF Finish
<1>2. call.to \in Handles /\ ret \in Edges \cup {Null}
    BY <1>1, StateFacts DEF IInv, TypesInv, ControlInv, CallType, Values
<1>3. ret \in Edges => InTab(node, ret)
    BY StateInTable DEF StateIn
<1>4. ObjectsNext = [Objects EXCEPT ![call.to] = FamilyIn(node, ret)]
    BY <1>1, <1>2, <1>3, ObjectTakes DEF Objects, ObjectsNext
<1>5. FamilyIn(node, ret) \in Families!Results
    BY <1>1, ResultShown
<1>6. Request # Families!NoCall
    BY <1>1, RequestShown
<1>7. Request' = Families!NoCall
    BY <1>1 DEF Request, NoCall, Families!NoCall
<1> QED
    BY <1>4, <1>5, <1>6, <1>7, ObjectsShown DEF Families!Finish, Request

LEMMA ProgramShown ==
    ASSUME IInv, IInv', SInv, [Next]_vars, Program
    PROVE  Families!Next
<1>1. CASE \E h \in Handles, f \in {False, True} : Assign(h, f)
    <2>1. PICK h \in Handles, f \in {False, True} : Assign(h, f)
        BY <1>1
    <2>2. f \in Edges /\ InTab(node, f) /\ f # Null
        BY ConstantFacts, ValueFacts DEF InTab
    <2>3. Families!Assign(h, FamilyIn(node, f))
        BY <2>1, <2>2, AssignShown
    <2>4. FamilyIn(node, f) \in {{}, {{}}}
        BY <2>2, ConstantMeaning DEF SInv, FamilyIn
    <2> QED
        BY <2>3, <2>4 DEF Families!Next
<1>2. CASE \E h, g \in Handles : Assign(h, handle[g])
    <2>1. PICK h \in Handles, g \in Handles : Assign(h, handle[g])
        BY <1>2
    <2>2. handle[g] \in Edges \cup {Null} /\ (handle[g] \in Edges => InTab(node, handle[g]))
        BY ObjectFacts
    <2>3. Families!Assign(h, FamilyIn(node, handle[g]))
        BY <2>1, <2>2, AssignShown
    <2>4. FamilyIn(node, handle[g]) = Objects[g]
        BY DEF Objects
    <2> QED
        BY <2>3, <2>4, ObjectsShown DEF Families!Next
<1>3. CASE \E op \in BinaryOps \cap Ops, h, a, g \in Handles : Call(op, h, a, g)
    <2>1. PICK op \in BinaryOps \cap Ops, h \in Handles, a \in Handles, g \in Handles :
                Call(op, h, a, g)
        BY <1>3
    <2>2. Families!Call(op, h, a, g)
        BY <2>1, CallShown
    <2> QED
        BY <2>2 DEF Families!Next, Families!BinaryOps, BinaryOps
<1>4. CASE \E op \in UnaryOps \cap Ops, h, a \in Handles, v \in Vars : Call(op, h, a, v)
    <2>1. PICK op \in UnaryOps \cap Ops, h \in Handles, a \in Handles, v \in Vars :
                Call(op, h, a, v)
        BY <1>4
    <2>2. Families!Call(op, h, a, v)
        BY <2>1, CallShown
    <2> QED
        BY <2>2 DEF Families!Next, Families!UnaryOps, UnaryOps, Vars
<1> QED
    BY <1>1, <1>2, <1>3, <1>4 DEF Program

LEMMA StepShown ==
    ASSUME IInv, IInv', SInv, [Next]_vars
    PROVE  [Families!Next]_Families!vars
<1>1. CASE Program
    BY <1>1, ProgramShown
<1>2. CASE Finish
    BY <1>2, FinishShown DEF Families!Next
<1>3. CASE handle' = handle /\ Request' = Request
    <2>1. ObjectsNext = Objects
        BY <1>3, StutterShown
    <2> QED
        BY <1>3, <2>1, ObjectsShown DEF Families!vars, Request
<1>4. stack # <<>> /\ SameCall => handle' = handle /\ Request' = Request
    <2>1. SameCall => call'.to = call.to
        BY DEF SameCall, IInv, TypesInv, CallType, NoCall
    <2> QED
        BY <2>1, CallKept DEF SameCall, Request
<1>5. UNCHANGED vars => handle' = handle /\ Request' = Request
    BY DEF vars, Request
<1> QED
    BY <1>1, <1>2, <1>3, <1>4, <1>5, MachineSteps

LEMMA InitShown == Init => Families!Init
<1> SUFFICES ASSUME Init
             PROVE  Families!Init
    OBVIOUS
<1>1. IInv /\ SInv
    BY InitInv, InitRight
<1>2. Request = Families!NoCall
    BY <1>1, RequestShown DEF Init
<1>3. Objects = [h \in Handles |-> {}]
    <2>1. FamilyIn(node, False) = {}
        BY <1>1, ConstantMeaning, ConstantFacts DEF SInv, FamilyIn
    <2> QED
        BY <2>1 DEF Objects, Init
<1> QED
    BY <1>2, <1>3, ObjectsShown DEF Families!Init, Request

(***************************************************************************)
(* SAPPORO implements ZbddFamilies: every operation gives the right family *)
(* or bddnull, bddnull at once if an operand is, and no object but the one *)
(* that takes the result ever stands for another family, whatever is       *)
(* created, shared, collected, cached or moved meanwhile.                  *)
(***************************************************************************)
THEOREM FamiliesImplemented == Spec => Refinement
<1>1. Init => Families!Init
    BY InitShown
<1>2. IInv /\ SInv /\ IInv' /\ [Next]_vars => [Families!Next]_Families!vars
    BY StepShown
<1> QED
    BY <1>1, <1>2, SInvAlways, PTL DEF Spec, Refinement, Families!Spec
=============================================================================
