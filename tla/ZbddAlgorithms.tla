--------------------------- MODULE ZbddAlgorithms ---------------------------
(***************************************************************************)
(* The recursive algorithms of the class ZBDD (SAPPOROBDD/ZBDD.cc).  A     *)
(* diagram is written as the family it stands for: diagrams are canonical  *)
(* and the operations they are made of give the right families             *)
(* (SapporoNodes), so testing two for equality, the top variable and the   *)
(* cofactors depend on the family alone.  Nothing is said of the operation *)
(* cache and of the failure of allocations, which SapporoNodes has.        *)
(* Variables are numbers; Level says where they are.                       *)
(*                                                                         *)
(* A recursion is a function on the families over the variables of the     *)
(* operands.  Its step, ...Step, takes the function for the inner calls.   *)
(***************************************************************************)
EXTENDS Integers, FiniteSets

CONSTANT Level(_)  \* BDD_LevOfVar; 0 for no variable

Empty == {}      \* 0
Unit == {{}}     \* 1

Support(f) == UNION f
Top(f) ==
    IF Support(f) = {} THEN 0
    ELSE CHOOSE v \in Support(f) : \A w \in Support(f) : Level(w) <= Level(v)
HigherOf(v, w) == IF Level(v) < Level(w) THEN w ELSE v
LowerOf(v, w) == IF Level(v) < Level(w) THEN v ELSE w

Over(f, g) == SUBSET SUBSET (Support(f) \cup Support(g))
Pairs(f, g) == Over(f, g) \X Over(f, g)

OffSet(f, v) == {s \in f : v \notin s}
OnSet0(f, v) == {s \ {v} : s \in {x \in f : v \in x}}
OnSet(f, v) == {s \in f : v \in s}
Change(f, v) == {IF v \in s THEN s \ {v} ELSE s \cup {v} : s \in f}
Single(v) == Change(Unit, v)

Swap(f, v, w) ==
    LET f00 == OffSet(OffSet(f, v), w)
        f11 == OnSet(OnSet(f, v), w)
    IN  IF v = w THEN f
        ELSE Change(Change((f \ f00) \ f11, v), w) \cup f00 \cup f11
-----------------------------------------------------------------------------
(***************************************************************************)
(* Filters                                                                 *)
(***************************************************************************)
\* The sets of f that contain a set of g.
RestrictStep(inner, fc, g) ==
    LET f == fc \ Unit
        top == HigherOf(Top(f), Top(g))
        g0 == OffSet(g, top)
    IN  CASE fc = Empty \/ g = Empty -> Empty
          [] fc = g -> g
          [] {} \in g -> fc
          [] OTHER -> Change(inner[<<OnSet0(f, top), OnSet0(g, top) \cup g0>>], top)
                        \cup inner[<<OffSet(f, top), g0>>]
RestrictBy(f, g) ==
    LET found[p \in Pairs(f, g)] == RestrictStep(found, p[1], p[2])
    IN  found[<<f, g>>]

\* The sets of f that are contained in a set of g.
PermitStep(inner, f, g) ==
    LET top == HigherOf(Top(f), Top(g))
        g0 == OffSet(g, top)
        g1 == OnSet0(g, top)
    IN  CASE f = Empty \/ g = Empty -> Empty
          [] f = g -> f
          [] g = Unit -> f \cap Unit
          [] f = Unit /\ g # Empty -> Unit
          [] OTHER -> Change(inner[<<OnSet0(f, top), g1>>], top)
                        \cup inner[<<OffSet(f, top), g0 \cup g1>>]
Permit(f, g) ==
    LET found[p \in Pairs(f, g)] == PermitStep(found, p[1], p[2])
    IN  found[<<f, g>>]

\* The sets of f of at most n elements.
PermitSymStep(inner, f, n) ==
    CASE f = Empty \/ f = Unit -> f
      [] n < 1 -> f \cap Unit
      [] OTHER -> LET top == Top(f)
                  IN  Change(inner[<<OnSet0(f, top), n - 1>>], top)
                        \cup inner[<<OffSet(f, top), n>>]
PermitSym(f, n) ==
    LET found[p \in Over(f, f) \X Int] == PermitSymStep(found, p[1], p[2])
    IN  found[<<f, n>>]
-----------------------------------------------------------------------------
(***************************************************************************)
(* Multiplication, division and meet                                       *)
(***************************************************************************)
\* The operand with the higher top variable goes first; between operands
\* with the same one the numbers of their nodes decide.
Ordered(f, g) == IF Level(Top(f)) < Level(Top(g)) THEN <<g, f>> ELSE <<f, g>>

\* operator*
TimesStep(inner, fc, gc) ==
    LET f == Ordered(fc, gc)[1]
        g == Ordered(fc, gc)[2]
        top == Top(f)
        f0 == OffSet(f, top)
        f1 == OnSet0(f, top)
        g0 == OffSet(g, top)
        g1 == OnSet0(g, top)
    IN  CASE fc = Empty \/ gc = Empty -> Empty
          [] fc = Unit -> gc
          [] gc = Unit -> fc
          [] OTHER ->
                IF top # Top(g) THEN Change(inner[<<f1, g>>], top) \cup inner[<<f0, g>>]
                ELSE Change(inner[<<f1, g1>>] \cup inner[<<f1, g0>>] \cup inner[<<f0, g1>>], top)
                        \cup inner[<<f0, g0>>]
Times(f, g) ==
    LET product[p \in Pairs(f, g)] == TimesStep(product, p[1], p[2])
    IN  product[<<f, g>>]

\* operator/; the division by 0 of anything else exits in BDDerr().
DivideStep(inner, f, p) ==
    LET top == Top(p)
        p0 == OffSet(p, top)
        q == inner[<<OnSet0(f, top), OnSet0(p, top)>>]
    IN  CASE p = Unit -> f
          [] f = p -> Unit
          [] Level(Top(f)) < Level(top) -> Empty
          [] OTHER -> IF q # Empty /\ p0 # Empty
                      THEN q \cap inner[<<OffSet(f, top), p0>>]
                      ELSE q
Divide(f, g) ==
    LET quotient[p \in Over(f, g) \X (Over(f, g) \ {Empty})] == DivideStep(quotient, p[1], p[2])
    IN  quotient[<<f, g>>]

\* operator%
Modulo(f, p) == f \ Times(Divide(f, p), p)

\* ZBDD_Meet
MeetStep(inner, fc, gc) ==
    LET f == Ordered(fc, gc)[1]
        g == Ordered(fc, gc)[2]
        top == Top(f)
        f0 == OffSet(f, top)
        f1 == OnSet0(f, top)
        g0 == OffSet(g, top)
        g1 == OnSet0(g, top)
    IN  CASE Empty \in {fc, gc} -> Empty
          [] Empty \notin {fc, gc} /\ Unit \in {fc, gc} -> Unit
          [] OTHER ->
                IF top # Top(g) THEN inner[<<f0, g>>] \cup inner[<<f1, g>>]
                ELSE Change(inner[<<f1, g1>>], top)
                        \cup inner[<<f0, g0>>] \cup inner[<<f1, g0>>] \cup inner[<<f0, g1>>]
Meet(f, g) ==
    LET met[p \in Pairs(f, g)] == MeetStep(met, p[1], p[2])
    IN  met[<<f, g>>]
-----------------------------------------------------------------------------
(***************************************************************************)
(* Relations between variables                                             *)
(***************************************************************************)
\* The variables that are in every set, as a family of singletons.
AlwaysStep(inner, f) ==
    LET t == Top(f)
        f0 == OffSet(f, t)
        h == inner[OnSet0(f, t)]
    IN  CASE f \in {Empty, Unit} -> Empty
          [] f \notin {Empty, Unit} /\ f0 = Empty -> h \cup Single(t)
          [] OTHER -> IF h # Empty THEN h \cap inner[f0] ELSE h
Always(f) ==
    LET always[x \in Over(f, f)] == AlwaysStep(always, x)
    IN  always[f]

\* Support() is a family of singletons too.
SupportSets(f) == {{v} : v \in Support(f)}

\* The code takes the variable of the smaller number to be on the lower level,
\* as it is where levels follow the numbers.
SymChkStep(inner, f, va, vb) ==
    LET v1 == HigherOf(va, vb)
        v2 == LowerOf(va, vb)
        t == Top(f)
        f0 == OffSet(f, v1)
        f1 == OnSet0(f, v1)
        t2 == HigherOf(Top(f1), Top(f0))
        g0 == OffSet(f0, t2) \cup Change(OffSet(f1, t2), t2)
        g1 == OnSet0(f0, t2) \cup Change(OnSet0(f1, t2), t2)
    IN  \/ f \in {Empty, Unit} \/ va = vb
        \/ IF Level(t) > Level(v1)
           THEN inner[<<OnSet0(f, t), v1, v2>>] /\ inner[<<OffSet(f, t), v1, v2>>]
           ELSE IF Level(t2) <= Level(v2) THEN OnSet0(f0, v2) = OffSet(f1, v2)
           ELSE inner[<<g1, t2, v2>>] /\ inner[<<g0, t2, v2>>]
SymChk(f, va, vb) ==
    LET vars == Support(f) \cup {va, vb}
        symmetric[x \in (SUBSET SUBSET vars) \X vars \X vars] ==
            SymChkStep(symmetric, x[1], x[2], x[3])
    IN  symmetric[<<f, va, vb>>]

\* The pairs that the inner loops of SymGrp() and SymGrpNaive() join.
SymPairs(f) == {p \in Support(f) \X Support(f) : SymChk(f, p[1], p[2])}
NaivePairs(f) ==
    {p \in Support(f) \X Support(f) :
        OnSet0(OffSet(f, p[1]), p[2]) = OffSet(OnSet0(f, p[1]), p[2])}

\* The loops: of the variables g that are left, the one on top takes with it
\* those it makes a pair with.
Groups(vars, pairs) ==
    LET groups[g \in SUBSET vars] ==
            LET t == Top({g})
                group == {t} \cup {v \in g : <<t, v>> \in pairs}
            IN  IF g = {} THEN {} ELSE {group} \cup groups[g \ group]
    IN  groups[vars]

\* Groups of one variable are left out.
SymGrp(f) == {s \in Groups(Support(f), SymPairs(f)) : Cardinality(s) > 1}
SymGrpNaive(f) == Groups(Support(f), NaivePairs(f))

\* ZBDD_SymSet and ZBDD_CoImplySet: the variables that are to the one that
\* divides a family into the halves f0 and f1 as `relation` says.
HalvesStep(inner, f0, f1, relation) ==
    LET t == HigherOf(Top(f1), Top(f0))
        f00 == OffSet(f0, t)
        f01 == OnSet0(f0, t)
        f10 == OffSet(f1, t)
        f11 == OnSet0(f1, t)
        ones == inner[<<f01, f11>>]
        zeros == inner[<<f00, f10>>]
        others(f) == IF relation = "symmetric" THEN SupportSets(f) ELSE {}
        alike == IF relation = "symmetric" THEN f10 = f01 ELSE f10 \subseteq f01
        h == CASE f11 = Empty -> zeros \ others(f01)
               [] f11 # Empty /\ f10 = Empty -> ones \ others(f00)
               [] OTHER -> IF ones # Empty THEN ones \cap zeros ELSE ones
    IN  IF f1 = Empty \/ (f1 = Unit /\ f0 \in {Empty, Unit}) THEN Empty
        ELSE IF alike THEN h \cup Single(t) ELSE h
HalvesSet(f0, f1, relation) ==
    LET related[p \in Pairs(f0, f1)] == HalvesStep(related, p[1], p[2], relation)
    IN  related[<<f0, f1>>]

SymSet(f, v) == HalvesSet(OffSet(f, v), OnSet0(f, v), "symmetric")

ImplyChk(f, v, w) ==
    v = w \/ f \in {Empty, Unit} \/ OffSet(OnSet0(f, v), w) = Empty
ImplySet(f, v) ==
    IF OnSet0(f, v) = Empty THEN SupportSets(f) ELSE Always(OnSet0(f, v))

CoImplyChk(f, v, w) ==
    \/ v = w \/ f \in {Empty, Unit}
    \/ OffSet(OnSet0(f, v), w) \subseteq OnSet0(OffSet(f, v), w)
CoImplySet(f, v) ==
    IF OnSet0(f, v) = Empty THEN SupportSets(f)
    ELSE HalvesSet(OffSet(f, v), OnSet0(f, v), "coimplied")

IsPoly(f) ==
    LET poly[x \in Over(f, f)] ==
            LET top == Top(x)
            IN  top # 0 /\ (OffSet(x, top) # Empty \/ poly[OnSet0(x, top)])
    IN  poly[f]

\* The variables of g are tried one after another, the highest first.
DivideOut(f, g) ==
    LET divided[p \in Over(f, f) \X SUBSET g] ==
            LET t == Top({p[2]})
                f1 == OnSet0(p[1], t)
            IN  IF p[2] = {} THEN p[1]
                ELSE divided[<<IF IsPoly(f1) THEN f1 ELSE p[1], p[2] \ {t}>>]
    IN  divided[<<f, g>>]
Divisor(f) ==
    CASE f = Empty -> Empty
      [] ~IsPoly(f) -> Unit
      [] OTHER -> DivideOut(f, Support(f))
=============================================================================
