----------------------------- MODULE SetsetCalls -----------------------------
(***************************************************************************)
(* The methods that pydigraphillion.cc gives to Python's setset: what they *)
(* check, which exception they raise and what they leave in the object.    *)
(*                                                                         *)
(* An object is a family f of sets of element numbers, n is num_elems().   *)
(* An item is a pair <<type, obj>>: a set of numbers ("graph") or a number *)
(* ("edge").  What a C++ member function of setset computes is the algebra *)
(* of FamilyAlgebra (module Setsets says when), with its own recursion     *)
(* where the two differ.                                                   *)
(*                                                                         *)
(* At the end are the class variables of digraphillion/setset.py:          *)
(* _int2obj, here without its None the sequence elems, whose inverse is    *)
(* _obj2int.  The C++ side keeps a count of its own, num_elems().          *)
(***************************************************************************)
EXTENDS FamilyAlgebra, ZddAlgorithms

CONSTANT ElemLimit  \* _elem_limit(): the largest number of an element

Raises(f, e) == [family |-> f, error |-> e, result |-> {}]
Gives(f, r) == [family |-> f, error |-> "none", result |-> r]

IsSet(item) == item[1] = "graph"

InFamily(f, item) ==
    IF IsSet(item) THEN item[2] \in f ELSE \E s \in f : item[2] \in s

AddTo(f, item) ==
    IF IsSet(item) THEN f \cup {item[2]} ELSE Joined(f, {{item[2]}})

\* erase(e) meets the family with the set of the other elements up to n.
DiscardFrom(f, n, item) ==
    IF IsSet(item) THEN f \ {item[2]} ELSE Met(f, {(1..n) \ {item[2]}})

RemoveFrom(f, n, item) ==
    IF InFamily(f, item) THEN Gives(DiscardFrom(f, n, item), {})
    ELSE Raises(f, "KeyError")

\* pop() takes the first set in the order of the diagram, here any set.
Pops(f) ==
    IF f = {} THEN {Raises(f, "KeyError")} ELSE {Gives(f \ {s}, s) : s \in f}
Chosen(f) ==
    IF f = {} THEN {Raises(f, "KeyError")} ELSE {Gives(f, s) : s \in f}

FlipElem(f, e) == Flipped(f, {e})
FlipEach(f, n) == Flipped(f, 1..n)

\* One step of a function that Python calls with several other setsets.
Combine(op, f, g) ==
    CASE op = "union" -> f \cup g
      [] op = "intersection" -> f \cap g
      [] op = "difference" -> f \ g
      [] op = "symmetric_difference" -> SymDiff(f, g)

\* DO_FOR_MULTI: without others, a copy.
DoForMulti(op, f, others) == FoldLeft(LAMBDA r, g : Combine(op, r, g), f, others)

\* UPDATE_FOR_MULTI: the others, one of which may be the object itself, are
\* read when their turn comes.
UpdateForMulti(op, objects, self, others) ==
    FoldLeft(LAMBDA o, p : [o EXCEPT ![self] = Combine(op, @, o[p])], objects, others)

\* The division by nothing exits.
DivideBy(op, f, g) ==
    IF op = "quotient" THEN Quotient(UNION f, f, g) ELSE Remainder(UNION f, f, g)

\* setset_richcompare and the functions that answer yes or no.
Compared(op, f, g) ==
    CASE op = "isdisjoint" -> f \cap g = {}
      [] op \in {"issubset", "le"} -> f \subseteq g
      [] op \in {"issuperset", "ge"} -> g \subseteq f
      [] op = "lt" -> f \subseteq g /\ f # g
      [] op = "gt" -> g \subseteq f /\ f # g
      [] op = "eq" -> f = g
      [] op = "ne" -> f # g

Invert(f, n) == (SUBSET (1..n)) \ f

\* Functions of the object alone; minimal and maximal do not depend on n.
Transformed(op, f, n) ==
    CASE op = "invert" -> Invert(f, n)
      [] op = "minimal" -> Minimal(f)
      [] op = "maximal" -> Maximal(f)
      \* hitting() gives {{}} for no set at all.
      [] op = "blocking" -> IF f = {} THEN {{}} ELSE Transversals(1..n, f)
      [] op = "complement" -> FlipEach(f, n)

\* A negative size raises ValueError; 0 - 1 is read as a bound of -1.
Sized(op, f, size) ==
    IF size < 0 THEN Raises(f, "ValueError")
    ELSE CASE op = "smaller" ->
                Gives(f, {s \in f : Cardinality(s) < size} \cup (IF size = 0 THEN f \cap {{}} ELSE {}))
           [] op = "larger" -> Gives(f, {s \in f : Cardinality(s) > size})
           [] op = "graph_size" ->
                Gives(f, IF size = 0 THEN {} ELSE {s \in f : Cardinality(s) = size})

Supersets(f, g) == SupersetsOf(f, g)
SupersetsOfElem(f, e) == {s \in f : e \in s}
NonSupersetsOfElem(f, e) == {s \in f : e \notin s}

Selected(op, f, g) ==
    CASE op = "join" -> Joined(f, g)
      [] op = "meet" -> Met(f, g)
      [] op = "subgraphs" -> SubsetsOf(f, g)
      [] op = "supergraphs" -> Supersets(f, g)
      [] op = "non_subgraphs" -> f \ SubsetsOf(f, g)
      [] op = "non_supergraphs" -> NonSupersets(f, g)

\* setset_init with a dictionary: include and exclude must not meet.
ConstrainedSets(n, in, ex) ==
    IF in \cap ex # {} THEN Raises({}, "TypeError")
    ELSE Gives({}, {s \in SUBSET (1..n) : in \subseteq s /\ ex \cap s = {}})

\* single(e), for the elements of a family that is built or loaded.
NewElems(n, f) == Max((UNION f) \cup {n})
-----------------------------------------------------------------------------
(***************************************************************************)
(* The numbering of the elements in setset.py.                             *)
(***************************************************************************)
Tables(elems, n, error) == [elems |-> elems, n |-> n, error |-> error]

Known(elems, e) == Contains(elems, e)
Obj2Int(elems, e) == CHOOSE i \in DOMAIN elems : elems[i] = e

TablesAgree(elems, n) == Len(elems) = n /\ IsInjective(elems)

\* _add_elem: the C++ side is told of the number by a set of it, and the
\* tables are compared when the element is in them.
AddElem(elems, n, e) ==
    LET i == Len(elems) + 1
        m == Max({n, i})
    IN  IF Known(elems, e) THEN Tables(elems, n, "AssertionError")
        ELSE IF i > ElemLimit THEN Tables(elems, n, "RuntimeError")
        ELSE Tables(Append(elems, e), m, IF m = i THEN "none" ELSE "AssertionError")

\* _conv_elem makes an element of what is not one.
ConvElem(elems, n, e) ==
    IF Known(elems, e) THEN Tables(elems, n, "none") ELSE AddElem(elems, n, e)

\* _conv_ret
Named(elems, s) == {elems[i] : i \in s}
Nameable(elems, s) == s \subseteq DOMAIN elems

Emptied(n) == Tables(<<>>, 0, "none")

\* set_universe: the tables are emptied and filled one element after another.
SetTables(elems, n, universe) ==
    IF ~IsInjective(universe) THEN Tables(elems, n, "ValueError")
    ELSE FoldLeft(LAMBDA t, e : IF t.error = "none" THEN AddElem(t.elems, t.n, e) ELSE t,
                  Emptied(n), universe)

\* _optimize: the weights by number; an element without one weighs 1.
WeightsByNumber(elems, n, weights) ==
    [i \in 1..n |-> IF i \in DOMAIN elems /\ elems[i] \in DOMAIN weights
                    THEN weights[elems[i]] ELSE 1]
=============================================================================
