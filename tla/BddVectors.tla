----------------------------- MODULE BddVectors -----------------------------
(***************************************************************************)
(* The BDD operations of bddc.c and BDD.cc, level by level.                *)
(*                                                                         *)
(* A BDD is a term: <<0>>, <<1>> or <<variable, 0-branch, 1-branch>>,      *)
(* reduced and ordered by the levels of the variables.  Negative edges,    *)
(* which share the nodes of a function and of its negation, are left out   *)
(* of the terms; where the code branches on them, Neg(f) is what they say: *)
(* the value of f when every variable is 0.  Of the cache only the entries *)
(* of shifts are kept: what the others hold stays true when new variables  *)
(* come between, since the old ones keep their order.                      *)
(***************************************************************************)
EXTENDS Integers, Sequences, FiniteSets, FiniteSetsExt, SequencesExt

CONSTANT SysVars      \* BDDV_SysVarTop: variables that number the elements of vectors

VARIABLES
    order,        \* VarID: the variable of every level from 1 on
    active        \* BDDV_Active: there are vectors, and variables for their indices

VarUsed == Len(order)
LevOfVar(v) == IF v = 0 THEN 0 ELSE CHOOSE l \in DOMAIN order : order[l] = v
VarOfLev(l) == order[l]

\* bddnewvaroflev: the levels from lev on move up.
WithNewVar(vars, lev) == InsertAt(vars, lev, Len(vars) + 1)

\* The levels of a program's own variables; those of vectors are above.
TopLev == IF active THEN VarUsed - SysVars ELSE VarUsed
UserVars == {order[l] : l \in 1..TopLev}

False == <<0>>
True  == <<1>>
Constant(f) == Len(f) = 1
Top(f) == IF Constant(f) THEN 0 ELSE f[1]
LevOf(f) == LevOfVar(Top(f))

RECURSIVE Neg(_), Not(_)
Neg(f) == IF Constant(f) THEN f = True ELSE Neg(f[2])
Not(f) ==
    CASE f = False -> True
      [] f = True -> False
      [] OTHER -> <<f[1], Not(f[2]), Not(f[3])>>
Abs(f) == IF Neg(f) THEN Not(f) ELSE f

\* getbddp()
Node(v, f0, f1) == IF f0 = f1 THEN f0 ELSE <<v, f0, f1>>
Var(v) == Node(v, False, True)

\* The branches of f at variable v, which is not below the top of f.
Branch(f, v, b) == IF Top(f) = v THEN f[2 + b] ELSE f
TopOfBoth(f, g) == IF LevOf(f) <= LevOf(g) THEN Top(g) ELSE Top(f)
-----------------------------------------------------------------------------
(***************************************************************************)
(* apply()                                                                 *)
(***************************************************************************)
RECURSIVE And(_, _), XorPositive(_, _), Xor(_, _), Cofactor(_, _), Univ(_, _), Support(_),
          At(_, _, _), Shift(_, _, _), AndFalse(_, _)

And(f, g) ==
    LET v == TopOfBoth(f, g)
    IN  CASE f = False \/ g = False \/ f = Not(g) -> False
          [] f = g \/ g = True -> f
          [] f = True -> g
          [] OTHER -> Node(v, And(Branch(f, v, 0), Branch(g, v, 0)),
                              And(Branch(f, v, 1), Branch(g, v, 1)))

Or(f, g) == Not(And(Not(f), Not(g)))

XorPositive(f, g) ==
    LET v == TopOfBoth(f, g)
    IN  Node(v, Xor(Branch(f, v, 0), Branch(g, v, 0)), Xor(Branch(f, v, 1), Branch(g, v, 1)))

\* The negations of the operands are taken out.
Xor(f, g) ==
    CASE f = g -> False
      [] f = Not(g) -> True
      [] Constant(f) -> IF f = False THEN g ELSE Not(g)
      [] Constant(g) -> IF g = False THEN f ELSE Not(f)
      [] Neg(f) # Neg(g) -> Not(XorPositive(Abs(f), Abs(g)))
      [] OTHER -> XorPositive(Abs(f), Abs(g))

\* f where g holds; elsewhere whatever makes it small.
Cofactor(f, g) ==
    LET v == TopOfBoth(f, g)
        f0 == Branch(f, v, 0)
        f1 == Branch(f, v, 1)
        g0 == Branch(g, v, 0)
        g1 == Branch(g, v, 1)
    IN  CASE Constant(f) \/ g = True -> f
          [] g = False \/ f = Not(g) -> False
          [] f = g -> True
          [] OTHER ->
                CASE g0 = False /\ g1 # False -> Cofactor(f1, g1)
                  [] g1 = False /\ g0 # False -> Cofactor(f0, g0)
                  [] OTHER -> Node(v, Cofactor(f0, g0), Cofactor(f1, g1))

\* For all values of the variables of g, which is a disjunction of variables.
Univ(f, given) ==
    LET g == Abs(given)
        v == TopOfBoth(f, g)
        g0 == Branch(g, v, 0)
        h0 == Univ(Branch(f, v, 0), g0)
        h1 == Univ(Branch(f, v, 1), g0)
    IN  CASE Constant(f) \/ Constant(given) -> f
          [] ~Constant(f) /\ ~Constant(given) ->
                IF g0 # Branch(g, v, 1) THEN And(h0, h1) ELSE Node(v, h0, h1)

Exist(f, g) == Not(Univ(Not(f), g))

\* The disjunction of the variables that f depends on.
Support(f) ==
    IF Constant(f) THEN False
    ELSE LET below == And(Not(Support(f[2])), Not(Support(f[3])))
         IN  Node(f[1], Not(below), True)

\* BC_AT0, BC_AT1
At(f, v, b) ==
    CASE Constant(f) \/ LevOf(f) < LevOfVar(v) -> f
      [] Top(f) = v -> f[2 + b]
      [] OTHER -> Node(f[1], At(f[2], v, b), At(f[3], v, b))

\* What a shift gives; the orders of the variables under which it
\* was computed, of which there are others than the present one when it, or a
\* part of it, comes from an entry made before a variable; and the cache then.
Shifted(result, orders, cache) == [result |-> result, orders |-> orders, cache |-> cache]

\* The result for f |-> s, which the cache has now.
Remembered(f, s, result, orders, cache) ==
    Shifted(result, orders, <<f, s>> :> [result |-> result, orders |-> orders] @@ cache)

\* BC_LSHIFT, BC_RSHIFT with -s.  The cache is that of shifts: the results by
\* node and shift.  An entry made before a variable gives the old result.
Shift(f, s, cache) ==
    LET g == Abs(f)
        f0 == Shift(g[2], s, cache)
        f1 == Shift(g[3], s, f0.cache)
        new == Remembered(g, s, Node(VarOfLev(LevOf(g) + s), f0.result, f1.result),
                          {order} \cup f0.orders \cup f1.orders, f1.cache)
        r == IF <<g, s>> \in DOMAIN cache
             THEN Shifted(cache[<<g, s>>].result, cache[<<g, s>>].orders, cache)
             ELSE new
    IN  IF Constant(f) \/ s = 0 THEN Shifted(f, {order}, cache)
        ELSE Shifted(IF Neg(f) THEN Not(r.result) ELSE r.result, r.orders, r.cache)

\* A level that does not exist ends the program.
RECURSIVE LevelsOf(_)
LevelsOf(f) == IF Constant(f) THEN {} ELSE {LevOf(f)} \cup LevelsOf(f[2]) \cup LevelsOf(f[3])
CanShift(f, s) ==
    /\ s \in -(VarUsed - 1)..(VarUsed - 1)
    /\ \A l \in LevelsOf(f) : l + s \in 1..VarUsed

\* andfalse(): 1 if f & g is not false.
AndFalse(f, g) ==
    LET v == TopOfBoth(f, g)
    IN  CASE f = False \/ g = False \/ f = Not(g) -> FALSE
          [] f = True \/ g = True \/ f = g -> TRUE
          [] OTHER -> \/ AndFalse(Branch(f, v, 0), Branch(g, v, 0))
                      \/ AndFalse(Branch(f, v, 1), Branch(g, v, 1))
Imply(f, g) == ~AndFalse(f, Not(g))
-----------------------------------------------------------------------------
(***************************************************************************)
(* BDD.cc                                                                  *)
(***************************************************************************)
Choice(v, f0, f1) == Or(And(Not(Var(v)), f0), And(Var(v), f1))

Swap(f, v, w) ==
    IF v = w THEN f
    ELSE LET at(a, b) == At(At(f, v, a), w, b)
         IN  Or(And(Var(v), Choice(w, at(0, 1), at(1, 1))),
                And(Not(Var(v)), Choice(w, at(0, 0), at(1, 0))))

\* What is left of f when the variables up to v are forgotten.
RECURSIVE Smooth(_, _), Spread(_, _)
Smooth(f, v) ==
    CASE Constant(f) -> f
      [] ~Constant(f) /\ LevOf(f) <= LevOfVar(v) -> True
      [] OTHER -> Choice(Top(f), Smooth(f[2], v), Smooth(f[3], v))

\* f with up to k of the variables changed; BDDvar(k) has to exist.
Spread(f, k) ==
    IF Constant(f) \/ k = 0 THEN f
    ELSE Or(Choice(Top(f), Spread(f[2], k), Spread(f[3], k)),
            Choice(Top(f), Spread(f[3], k - 1), Spread(f[2], k - 1)))

\* The functions that BDD_Random() can return.
RECURSIVE Random(_)
Random(level) ==
    IF level = 0 THEN {False, True}
    ELSE {Choice(VarOfLev(level), f0, f1) : f0 \in Random(level - 1), f1 \in Random(level - 1)}
-----------------------------------------------------------------------------
(***************************************************************************)
(* What the operations are for: sets of assignments, an assignment being   *)
(* the set of the variables that are 1.                                    *)
(***************************************************************************)
RECURSIVE Holds(_, _)
Holds(f, a) == IF Constant(f) THEN f = True ELSE Holds(IF f[1] \in a THEN f[3] ELSE f[2], a)
Assignments == SUBSET ToSet(order)
Models(f) == {a \in Assignments : Holds(f, a)}

\* Reduced and ordered: no other term stands for the same function.
RECURSIVE IsBdd(_)
IsBdd(f) ==
    \/ f \in {False, True}
    \/ /\ Len(f) = 3
       /\ f[2] # f[3]
       /\ \A b \in {2, 3} : IsBdd(f[b]) /\ LevOf(f[b]) < LevOf(f)
-----------------------------------------------------------------------------
(***************************************************************************)
(* Vectors of functions (BDDV: BDD.h, BDD.cc).  A vector is one BDD: the   *)
(* system variables 1, 2, ..., above all the others, are the bits of the   *)
(* index, and a part whose elements are equal does not mention them.       *)
(***************************************************************************)
Vector(f, len, lev) == [bdd |-> f, len |-> len, lev |-> lev]
NoVector == Vector(False, 0, 0)
MaxLen == 2^SysVars

\* How many bits number the elements.
GetLev(len) == CHOOSE l \in 0..SysVars : 2^l >= len /\ (l > 0 => 2^(l - 1) < len)

\* BDDV(f, len)
Repeated(f, len) == Vector(IF len = 0 THEN False ELSE f, len, GetLev(len))

Uniform(v) == LevOf(v.bdd) <= TopLev

Former(v) ==
    IF v.len <= 1 THEN NoVector
    ELSE Vector(At(v.bdd, v.lev, 0), 2^(v.lev - 1), v.lev - 1)
Latter(v) ==
    LET len == v.len - 2^(v.lev - 1)
    IN  IF v.len <= 1 THEN v
        ELSE Vector(At(v.bdd, v.lev, 1), len, GetLev(len))

\* operator||; a vector longer than MaxLen ends the program.
RECURSIVE Concat(_, _), ShiftVector(_, _, _), CofactVector(_, _), SpreadVector(_, _),
          TopVector(_), Part(_, _, _), BitsAt(_, _, _)

\* Mutation: a short vector is not filled up first.
ConcatUneven(v, w) ==
    CASE v.len = 0 -> w
      [] w.len = 0 -> v
      [] v.len # 2^v.lev -> Concat(Former(v), Concat(Latter(v), w))
      [] OTHER -> Vector(Choice(v.lev + 1, v.bdd, w.bdd), v.len + w.len, v.lev + 1)

Concat(v, w) ==
    CASE v.len = 0 -> w
      [] w.len = 0 -> v
      [] OTHER ->
            CASE v.len # 2^v.lev -> Concat(Former(v), Concat(Latter(v), w))
              [] v.len = 2^v.lev /\ v.len < w.len -> Concat(Concat(v, Former(w)), Latter(w))
              [] OTHER -> Vector(Choice(v.lev + 1, v.bdd, w.bdd), v.len + w.len, v.lev + 1)

\* The operators that work on the one BDD; for two vectors the lengths agree.
NotVector(v) == [v EXCEPT !.bdd = Not(@)]
AndVector(v, w) == [v EXCEPT !.bdd = And(@, w.bdd)]
OrVector(v, w) == [v EXCEPT !.bdd = Or(@, w.bdd)]
XorVector(v, w) == [v EXCEPT !.bdd = Xor(@, w.bdd)]
AtVector(v, x, b) == [v EXCEPT !.bdd = At(@, x, b)]
SwapVector(v, x, y) == [v EXCEPT !.bdd = Swap(@, x, y)]
ImplyVector(v, w) == v.len = w.len /\ Imply(v.bdd, w.bdd)

\* operator<<, operator>> with -s: a shift must not reach the system variables.
ShiftVector(v, s, cache) ==
    LET all == Shift(v.bdd, s, cache)
        v0 == ShiftVector(Former(v), s, cache)
        v1 == ShiftVector(Latter(v), s, v0.cache)
    IN  IF Uniform(v) THEN Shifted([v EXCEPT !.bdd = all.result], all.orders, all.cache)
        ELSE Shifted(Concat(v0.result, v1.result), v0.orders \cup v1.orders, v1.cache)

CofactVector(v, w) ==
    IF v.lev > 0 THEN Concat(CofactVector(Former(v), Former(w)), CofactVector(Latter(v), Latter(w)))
    ELSE [v EXCEPT !.bdd = Cofactor(@, w.bdd)]

\* A uniform part of several elements becomes a single one.
SpreadVector(v, k) ==
    IF Uniform(v) THEN Vector(Spread(v.bdd, k), 1, 0)
    ELSE Concat(SpreadVector(Former(v), k), SpreadVector(Latter(v), k))

\* Mutation: the variables are compared by their numbers.
TopVectorByNumber(v) ==
    LET t0 == TopVector(Former(v))
        t1 == TopVector(Latter(v))
    IN  IF Uniform(v) THEN Top(v.bdd) ELSE IF t0 > t1 THEN t0 ELSE t1

TopVector(v) ==
    LET t0 == TopVector(Former(v))
        t1 == TopVector(Latter(v))
    IN  IF Uniform(v) THEN Top(v.bdd)
        ELSE IF LevOfVar(t0) > LevOfVar(t1) THEN t0 ELSE t1

\* The len elements from start on.
Part(v, start, len) ==
    LET half == 2^(v.lev - 1)
    IN  CASE len = 0 -> NoVector
          [] start = 0 /\ len = v.len -> v
          [] OTHER ->
                CASE start + len <= half -> Part(Former(v), start, len)
                  [] start >= half -> Part(Latter(v), start - half, len)
                  [] OTHER -> Concat(Part(Former(v), start, half - start),
                                     Part(Latter(v), 0, start + len - half))

\* GetBDD(): the bits of the index from the highest one down.
BitsAt(f, index, bits) ==
    IF bits = 0 THEN f
    ELSE BitsAt(At(f, bits, (index \div 2^(bits - 1)) % 2), index, bits - 1)
GetBDD(v, index) == BitsAt(v.bdd, index, v.lev)

Mask1(index, len) ==
    Concat(Concat(Repeated(False, index), Repeated(True, 1)), Repeated(False, len - index - 1))
Mask2(index, len) == Concat(Repeated(False, index), Repeated(True, len - index))
-----------------------------------------------------------------------------
(***************************************************************************)
(* BDDV_ImportPla(): a table of product terms.  A table has the numbers of *)
(* inputs and outputs, a type, and rows of a cube and output symbols.      *)
(* The variables of the inputs exist already (PlaVars).                    *)
(***************************************************************************)
PlaVars(pla) == 2 * pla.inputs

\* Input i is level i, or every other level.
InputLevel(i, sopf) == IF sopf THEN 2 * i ELSE i
RowReadable(pla, row) ==
    /\ Len(row.cube) = pla.inputs
    /\ Len(row.outs) = pla.outputs
Term(row, sopf) ==
    FoldLeft(LAMBDA t, i :
                LET x == Var(VarOfLev(InputLevel(i, sopf)))
                IN  CASE row.cube[i] = "0" -> And(t, Not(x))
                      [] row.cube[i] = "1" -> And(t, x)
                      [] OTHER -> t,
             True, [i \in DOMAIN row.cube |-> i])

\* The terms of the outputs with the symbol.
Collected(pla, symbol, sopf) ==
    FoldLeft(LAMBDA v, row :
                FoldLeft(LAMBDA w, i :
                            IF row.outs[i] # symbol THEN w
                            ELSE OrVector(w, AndVector(Repeated(Term(row, sopf), pla.outputs),
                                                       Mask1(i - 1, pla.outputs))),
                         v, [i \in 1..pla.outputs |-> i]),
             Repeated(False, pla.outputs), pla.rows)

NoPla == Vector(False, -1, 0)        \* BDDV(-1)

ImportPla(pla, sopf) ==
    LET on == Collected(pla, "1", sopf)
        off == Collected(pla, "0", sopf)
        dc == Collected(pla, "-", sopf)
        none == Repeated(False, pla.outputs)
        apart(v, w) == AndVector(v, w) = none
    IN  CASE pla.outputs <= 0 \/ \E i \in DOMAIN pla.rows : ~RowReadable(pla, pla.rows[i]) -> NoPla
          [] OTHER ->
                CASE pla.type = "f" -> Concat(on, none)
                  [] pla.type = "fd" -> Concat(AndVector(on, NotVector(dc)), dc)
                  [] pla.type = "fr" ->
                        IF apart(on, off) THEN Concat(on, NotVector(OrVector(on, off))) ELSE NoPla
                  [] pla.type = "fdr" ->
                        IF /\ apart(on, off) /\ apart(on, dc) /\ apart(off, dc)
                           /\ OrVector(OrVector(on, off), dc) = Repeated(True, pla.outputs)
                        THEN Concat(on, dc) ELSE NoPla
-----------------------------------------------------------------------------
(***************************************************************************)
(* What vectors are for: sequences of functions.                           *)
(***************************************************************************)
Elements(v) == [i \in 1..v.len |-> GetBDD(v, i - 1)]

\* The only vector with these elements.
RECURSIVE Encoded(_)
Encoded(s) ==
    LET lev == GetLev(Len(s))
        half == 2^(lev - 1)
    IN  CASE s = <<>> -> False
          [] Len(s) = 1 -> s[1]
          [] OTHER -> Node(lev, Encoded(SubSeq(s, 1, half)), Encoded(SubSeq(s, half + 1, Len(s))))
VectorOf(s) == Vector(Encoded(s), Len(s), GetLev(Len(s)))
=============================================================================
