------------------------------- MODULE Setsets -------------------------------
(***************************************************************************)
(* Objects of the C++ class setset (digraphillion/setset.cc): one object   *)
(* that a program changes and asks, and the iterators over it.  The other  *)
(* operand of an operation is any of Others.                               *)
(***************************************************************************)
EXTENDS FamilyAlgebra, ZddAlgorithms

CONSTANTS
    Others,     \* the second operands
    Weights,    \* the weights a weighted iteration may be given
    Unit1,      \* the probabilities are multiples of 1 / Unit1
    MaxRandom   \* how many sets an object has when it is iterated randomly

ASSUME SetsetsAssumption ==
    /\ NumElems \in Nat \ {0}
    /\ Others \subseteq SUBSET SUBSET Elems
    /\ \A w \in Weights : w \in [Elems -> Int]
    /\ Unit1 \in Nat \ {0}
    /\ MaxRandom \in Nat

VARIABLES
    this,    \* zdd_ of the object
    asked,   \* the member function that has been called
    result,  \* and what it returned
    iter,    \* the iterator of a loop over the object
    given    \* the sets the loop has seen

vars == <<this, asked, result, iter, given>>

NotAsked == [op |-> "none"]
NoIter == [kind |-> "none"]

Init ==
    /\ this = Empty
    /\ asked = NotAsked
    /\ result = Empty
    /\ iter = NoIter
    /\ given = <<>>

\* The program calls the next function only when the last has returned.
Idle == asked = NotAsked /\ iter = NoIter
-----------------------------------------------------------------------------
(***************************************************************************)
(* What the member functions compute.                                      *)
(***************************************************************************)
\* setset(s)
OneSet(s) == FoldSet(LAMBDA e, acc : Times(acc, Single(e)), Unit, s)
\* setset(v), for a vector of sets in any order
SetsetOf(v) == FoldSet(LAMBDA s, acc : acc \cup OneSet(s), Empty, v)

\* find(s) != end()
Finds(s) == this \ OneSet(s) # this
CountOf(s) == IF Divide(this, OneSet(s)) # Empty THEN 1 ELSE 0

InsertSet(s) == IF Finds(s) THEN this ELSE this \cup OneSet(s)
EraseSet(s) == IF Finds(s) THEN this \ OneSet(s) ELSE this
InsertElem(e) == Times(this, OneSet({e}))
EraseElem(e) == Meet(this, OneSet(Elems \ {e}))
FlipAll == FoldSet(LAMBDA e, acc : Change(acc, e), this, Elems)

\* set_size - 1 becomes an int: -1 for a size of 0.
Smaller(n) == PermitSym(this, n - 1)
Larger(n) == this \ PermitSym(this, n)
SetSize(n) == PermitSym(this, n) \ PermitSym(this, n - 1)

Xor(g) == (this \ g) \cup (g \ this)
SupersetsWith(e) == Times(Divide(this, OneSet({e})), OneSet({e}))
NonSupersetsWith(e) == Modulo(this, OneSet({e}))

ProbabilityOf(p) ==
    CASE this = Empty -> 0
      [] this = Unit -> SkipProbability(1, this, p, Unit1)
      [] OTHER -> Probability(1, this, p, Unit1)
-----------------------------------------------------------------------------
(***************************************************************************)
(* Functions that change the object                                        *)
(***************************************************************************)
Becomes(f) ==
    /\ this' = f
    /\ UNCHANGED <<asked, result, iter, given>>

Insert(s) == Becomes(InsertSet(s))
Erase(s) == Becomes(EraseSet(s))
Clear == Becomes(Empty)

\* operator|= and the like with another object, which swap() exchanges.
CombineWith(g) ==
    \/ Becomes(this \cup g)
    \/ Becomes(this \cap g)
    \/ Becomes(this \ g)
    \/ Becomes(Xor(g))
    \/ Becomes(g)
-----------------------------------------------------------------------------
(***************************************************************************)
(* Functions that return something                                         *)
(***************************************************************************)
Ask(op, arg, r) ==
    /\ asked' = [op |-> op, arg |-> arg]
    /\ result' = r
    /\ UNCHANGED <<this, iter, given>>

AskAlone ==
    \/ Ask("complement", 0, Complement(this))
    \/ Ask("minimal", 0, MinimalOf(this))
    \/ Ask("maximal", 0, MaximalOf(this))
    \/ Ask("hitting", 0, Hitting(this))
    \/ Ask("flip", Elems, FlipAll)

\* Constructors.
Construct(in, ex) ==
    \/ in \cap ex = {} /\ Ask("constrained", <<in, ex>>, Constrained(1, in, ex))
    \/ Ask("sets", {in, ex}, SetsetOf({in, ex}))

\* The division by nothing exits.
AskWith(g) ==
    \/ Ask("join", g, Times(this, g))
    \/ Ask("meet", g, Meet(this, g))
    \/ Ask("subsets", g, Permit(this, g))
    \/ Ask("supersets", g, RestrictBy(this, g))
    \/ Ask("non_subsets", g, NonSubsets(this, g))
    \/ Ask("non_supersets", g, NonSupersets(this, g))
    \/ g # Empty /\ Ask("quotient", g, Divide(this, g))
    \/ g # Empty /\ Ask("remainder", g, Modulo(this, g))

AskElem(e) ==
    \/ Ask("insert", e, InsertElem(e))
    \/ Ask("erase", e, EraseElem(e))
    \/ Ask("flip", {e}, Change(this, e))
    \/ Ask("supersets", {{e}}, SupersetsWith(e))
    \/ Ask("non_supersets", {{e}}, NonSupersetsWith(e))

AskSize(n) ==
    \/ Ask("smaller", n, Smaller(n))
    \/ Ask("larger", n, Larger(n))
    \/ Ask("set_size", n, SetSize(n))

AskCount(s) == Ask("count", s, CountOf(s))
AskProbability(p) == Ask("probability", p, ProbabilityOf(p))

AskStream ==
    \/ Ask("load", 0, Loaded(this))
    \/ Ask("load_file", 0, LoadedFromFile(this))
    \/ Ask("enum", 0, Enumerated(this, <<>>))

\* The functions of ZBDD that digraphillion does not call.
AskVariables(v, w) ==
    \/ Ask("swap", <<v, w>>, Swap(this, v, w))
    \/ Ask("sym_chk", <<v, w>>, SymChk(this, v, w))
    \/ Ask("imply_chk", <<v, w>>, ImplyChk(this, v, w))
    \/ Ask("coimply_chk", <<v, w>>, CoImplyChk(this, v, w))

AskVariable(v) ==
    \/ Ask("sym_set", v, SymSet(this, v))
    \/ Ask("imply_set", v, ImplySet(this, v))
    \/ Ask("coimply_set", v, CoImplySet(this, v))

AskStructure ==
    \/ Ask("always", 0, Always(this))
    \/ Ask("sym_grp", 0, SymGrp(this))
    \/ Ask("sym_grp_naive", 0, SymGrpNaive(this))
    \/ Ask("divisor", 0, Divisor(this))

\* The caller goes on; some of the functions return nothing, and what is here
\* their result is what the object becomes.
Mutators == {"insert", "erase", "flip"}
Answered ==
    /\ asked # NotAsked
    /\ this' = IF asked.op \in Mutators THEN result ELSE this
    /\ asked' = NotAsked
    /\ result' = Empty
    /\ UNCHANGED <<iter, given>>
-----------------------------------------------------------------------------
(***************************************************************************)
(* Iterators.  zdd: what is left to walk through, the whole family for the *)
(* plain one; s: the set the iterator is at.                               *)
(***************************************************************************)
Ended(it) == it.zdd = NullFamily

\* sort() of the elements of a set
Sorted(s) ==
    LET upTo[e \in 0..NumElems] ==
            IF e = 0 THEN <<>>
            ELSE IF e \in s THEN Append(upTo[e - 1], e) ELSE upTo[e - 1]
    IN  upTo[NumElems]

\* iterator::next()
AdvancedPlain(it) ==
    LET r == Choose(it.zdd, Sorted(it.s))
    IN  IF ~r.found THEN [it EXCEPT !.zdd = NullFamily]
        ELSE [it EXCEPT !.s = Range(r.stack),
                        !.zdd = IF r.stack = <<>> THEN Empty ELSE @]

\* weighted_iterator::next()
AdvancedWeighted(it) ==
    LET s == ChooseBest(it.zdd, it.w)
    IN  [it EXCEPT !.s = s, !.zdd = @ \ OneSet(s)]

\* random_iterator::next(), for families of fewer than 10^17 sets
AdvancedRandom(it) ==
    {[it EXCEPT !.s = s, !.zdd = @ \ OneSet(s)] : s \in RandomPicks(it.zdd)}

\* What next() may make of an iterator.
Advanced(it) ==
    IF it.zdd \in {NullFamily, Empty} THEN {[it EXCEPT !.zdd = NullFamily, !.s = {}]}
    ELSE CASE it.kind = "plain" -> {AdvancedPlain(it)}
           [] it.kind = "weighted" -> {AdvancedWeighted(it)}
           [] it.kind = "random" -> AdvancedRandom(it)

\* begin(), begin_randomly(), begin_from_max(), begin_from_min()
Begin(kind, w) ==
    /\ kind = "random" => Cardinality(this) <= MaxRandom
    /\ iter' \in Advanced([kind |-> kind, zdd |-> this, s |-> {}, w |-> w])
    /\ UNCHANGED <<this, asked, result, given>>

Step ==
    /\ iter # NoIter
    /\ ~Ended(iter)
    /\ iter' \in Advanced(iter)
    /\ given' = Append(given, iter.s)
    /\ UNCHANGED <<this, asked, result>>

EndLoop ==
    /\ iter # NoIter
    /\ Ended(iter)
    /\ iter' = NoIter
    /\ given' = <<>>
    /\ UNCHANGED <<this, asked, result>>

Negative(w) == [e \in Elems |-> -w[e]]

Operation ==
    /\ Idle
    /\ \/ \E s \in SUBSET Elems : Insert(s) \/ Erase(s) \/ AskCount(s)
       \/ Clear \/ AskAlone \/ AskStream \/ AskStructure
       \/ \E g \in Others : CombineWith(g) \/ AskWith(g)
       \/ \E e \in Elems : AskElem(e) \/ AskVariable(e)
       \/ \E v, w \in Elems : AskVariables(v, w)
       \/ \E n \in 0..NumElems : AskSize(n)
       \/ \E in, ex \in SUBSET Elems : Construct(in, ex)
       \/ \E p \in [Elems -> 0..Unit1] : AskProbability(p)
       \/ Begin("plain", <<>>) \/ Begin("random", <<>>)
       \/ \E w \in Weights : Begin("weighted", w) \/ Begin("weighted", Negative(w))

Next == Operation \/ Answered \/ Step \/ EndLoop

Spec == Init /\ [][Next]_vars
-----------------------------------------------------------------------------
(***************************************************************************)
(* Properties                                                              *)
(***************************************************************************)
Asked(op) == asked.op = op
Singletons(vs) == {{v} : v \in vs}

(***************************************************************************)
(* join, meet, /, %, ~, insert(e), erase(e), flip and Swap compute the     *)
(* operations of the algebra of families, through recursions that follow   *)
(* the higher of two top variables and split into up to four cases.        *)
(***************************************************************************)
AlgebraRight ==
    /\ Asked("join") => result = Joined(this, asked.arg)
    /\ Asked("meet") => result = Met(this, asked.arg)
    /\ Asked("quotient") => result = Quotient(Elems, this, asked.arg)
    /\ Asked("remainder") => result = Remainder(Elems, this, asked.arg)
    /\ Asked("complement") => result = (SUBSET Elems) \ this
    /\ Asked("insert") => result = Joined(this, {{asked.arg}})
    /\ Asked("erase") => result = {s \ {asked.arg} : s \in this}
    /\ Asked("flip") => result = Flipped(this, asked.arg)
    /\ Asked("swap") => result = {Exchange(s, asked.arg[1], asked.arg[2]) : s \in this}

(***************************************************************************)
(* minimal, maximal, subsets, supersets, non_subsets and non_supersets     *)
(* select by inclusion and hitting gives the transversals; the recursions  *)
(* compare cofactors of different nodes and rely on each other.            *)
(* non_supersets is claimed for second operands none of whose sets contains*)
(* another, as minimal uses it: for others zdd.cc:212 answers before 214   *)
(* sees the empty set among them.  hitting is claimed for families with a  *)
(* set.                                                                    *)
(***************************************************************************)
InclusionRight ==
    /\ Asked("minimal") => result = Minimal(this)
    /\ Asked("maximal") => result = Maximal(this)
    /\ Asked("hitting") /\ this # Empty => result = Transversals(Elems, this)
    /\ Asked("subsets") => result = SubsetsOf(this, asked.arg)
    /\ Asked("supersets") => result = SupersetsOf(this, asked.arg)
    /\ Asked("non_subsets") => result = this \ SubsetsOf(this, asked.arg)
    /\ Asked("non_supersets") /\ asked.arg = Minimal(asked.arg) =>
            result = this \ SupersetsOf(this, asked.arg)

(***************************************************************************)
(* Sizes, constraints and membership are those of the sets, though levels  *)
(* are skipped in a diagram; sizes from 1 on (set_size - 1 must not be     *)
(* negative).  count(s) tells whether a set of the object contains s.      *)
(***************************************************************************)
SelectionRight ==
    /\ Asked("smaller") /\ asked.arg > 0 =>
            result = {s \in this : Cardinality(s) < asked.arg}
    /\ Asked("larger") => result = {s \in this : Cardinality(s) > asked.arg}
    /\ Asked("set_size") /\ asked.arg > 0 =>
            result = {s \in this : Cardinality(s) = asked.arg}
    /\ Asked("constrained") =>
            result = {s \in SUBSET Elems : asked.arg[1] \subseteq s /\ asked.arg[2] \cap s = {}}
    /\ Asked("sets") => result = asked.arg
    /\ Asked("count") =>
            result = IF \E s \in this : asked.arg \subseteq s THEN 1 ELSE 0

(***************************************************************************)
(* The probability of an object is that of its sets: an element of a level *)
(* that the diagram skips is in none of the sets.                          *)
(***************************************************************************)
ProbabilityRight ==
    Asked("probability") => result = Likelihood(Elems, this, asked.arg, Unit1)

(***************************************************************************)
(* A family written by dump() is read back by load(): every line comes     *)
(* after the lines of its two children.  enums() writes each set once.     *)
(* A dump in a file is read back unless the family is {} or {{}}: of a     *)
(* file with a line that is no node, load() makes nothing.                 *)
(***************************************************************************)
StreamsRight ==
    /\ Asked("load") => result = this
    /\ Asked("load_file") /\ ~IsTerm(this) => result = this
    /\ Asked("enum") => /\ Len(result) = Cardinality(this)
                        /\ {Range(s) : s \in Range(result)} = this

(***************************************************************************)
(* The relations between variables are those of the family: Always, SymChk *)
(* (when levels follow the numbers), SymGrp, SymSet, ImplyChk, ImplySet,   *)
(* CoImplyChk, CoImplySet; a Divisor cannot be divided by a variable and   *)
(* has two sets if the family has.                                         *)
(***************************************************************************)
RelationsRight ==
    LET v == asked.arg[1]
        w == asked.arg[2]
        others(P(_)) == Singletons({x \in Support(this) \ {asked.arg} : P(x)})
        classes == {{y \in Support(this) : Symmetric(this, x, y)} : x \in Support(this)}
    IN  /\ Asked("sym_chk") => (result <=> Symmetric(this, v, w))
        /\ Asked("imply_chk") => (result <=> Implies(this, v, w))
        /\ Asked("coimply_chk") => (result <=> CoImplies(this, v, w))
        /\ Asked("sym_set") =>
                result = others(LAMBDA x : /\ asked.arg \in Support(this)
                                           /\ Symmetric(this, asked.arg, x))
        /\ Asked("imply_set") => result = others(LAMBDA x : Implies(this, asked.arg, x))
        /\ Asked("coimply_set") => result = others(LAMBDA x : CoImplies(this, asked.arg, x))
        /\ Asked("always") => result = Singletons(Common(this))
        /\ Asked("sym_grp") => result = {c \in classes : Cardinality(c) > 1}
        /\ Asked("sym_grp_naive") => result = classes
        /\ Asked("divisor") /\ Cardinality(this) > 1 =>
                /\ Cardinality(result) > 1
                /\ \A x \in Support(result) : Cardinality(OnSet0(result, x)) < 2

(***************************************************************************)
(* Every function of an object that returns something returns what its     *)
(* definition says of the family, by recursions on diagrams that meet      *)
(* their terminals and skipped levels in the order of the code.            *)
(***************************************************************************)
AnswersRight ==
    /\ AlgebraRight
    /\ InclusionRight
    /\ SelectionRight
    /\ RelationsRight
    /\ ProbabilityRight

(***************************************************************************)
(* A loop over an object sees a set of it at every turn, none twice, and   *)
(* all of them before it ends, though the plain iterator keeps nothing but *)
(* the set it is at and the others take sets out of a diagram of their own.*)
(* So it ends.                                                             *)
(***************************************************************************)
EachSetOnce ==
    /\ IsInjective(given)
    /\ iter # NoIter => IF Ended(iter) THEN Range(given) = this
                        ELSE iter.s \in this \ Range(given)

(***************************************************************************)
(* max_iter() gives sets in the order of falling weight, min_iter() in the *)
(* order of rising weight.                                                 *)
(***************************************************************************)
WeightsInOrder ==
    iter # NoIter /\ iter.kind = "weighted" =>
        \A i \in 1..(Len(given) - 1) : Weight(given[i], iter.w) >= Weight(given[i + 1], iter.w)

\* A loop is complete, without repetitions and, by weight, in order.
IteratorsRight == EachSetOnce /\ WeightsInOrder
=============================================================================
