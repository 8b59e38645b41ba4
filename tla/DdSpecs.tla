------------------------------ MODULE DdSpecs ------------------------------
(***************************************************************************)
(* Specifications that diagrams are built from: get_root() and get_child() *)
(* give a pair <<level, state>>; level -1 is the 1-terminal, 0 the other.  *)
(*                                                                         *)
(* A spec is either a family of SAPPORO, [kind |-> "sapporo", family],     *)
(* read as SapporoZdd does, or an automaton like those of the searches,    *)
(* [kind |-> "automaton", top, moves], where moves[i][s][b + 1] is what    *)
(* get_child() says at level i in state s for branch b.                    *)
(* The elements of a family are the levels of their variables without the  *)
(* offset: those that are not positive, down to 1 - Offset, are of         *)
(* variables that are no longer in the universe.                           *)
(***************************************************************************)
EXTENDS Integers, Sequences, FiniteSets, FiniteSetsExt

CONSTANTS
    Top,     \* levels of the universe
    Offset   \* levels of SAPPORO below it: max_elem() - num_elems()

NoState  == [end |-> TRUE]
Dead     == <<0, NoState>>
Accepted == <<-1, NoState>>

\* A loop that never ends.
Endless == -2

OffSet(f, v) == {s \in f : v \notin s}
OnSet0(f, v) == {s \ {v} : s \in {t \in f : v \in t}}

(***************************************************************************)
(* What is below the offset is taken along its 0-edge, or so it is meant:  *)
(* the loop removes BDD_VarOfLev(f.Top()), reading a variable as a level.  *)
(* Variable v is at level max_elem() + 1 - v, so that this is the element  *)
(* whose level is the mirror image of the top one; when the family does    *)
(* not have it the loop stays where it is.                                 *)
(***************************************************************************)
TopOf(f) == Max(UNION f)
Mirror(level) == Top + 1 - Offset - level

RECURSIVE ZeroEdges(_, _)
\* Level `last` ends the loop: -Offset is that of a terminal.
ZeroEdges(f, last) ==
    CASE UNION f = {} \/ TopOf(f) <= last -> IF f = {{}} THEN Accepted ELSE Dead
      [] UNION f # {} /\ TopOf(f) > last /\ OffSet(f, Mirror(TopOf(f))) = f -> <<Endless, [family |-> f]>>
      [] OTHER -> ZeroEdges(OffSet(f, Mirror(TopOf(f))), last)

\* Mutation: what is in the lowest level is left to the loop.
AtTopLoose(f) ==
    IF UNION f # {} /\ TopOf(f) > 1 THEN <<TopOf(f), [family |-> f]>> ELSE ZeroEdges(f, -Offset)

AtTop(f) ==
    IF UNION f # {} /\ TopOf(f) >= 1 THEN <<TopOf(f), [family |-> f]>> ELSE ZeroEdges(f, -Offset)

(***************************************************************************)
(* Specifications made of others (DdSpecOp.hpp):                           *)
(*   [kind |-> "zddIntersection" | "zddUnion" | "bddAnd" | "bddOr",        *)
(*    of |-> <<spec1, spec2>>]                                             *)
(*   [kind |-> "zddLookahead" | "bddLookahead", of |-> spec]               *)
(*   [kind |-> "zddUnreduction" | "bddUnreduction", of |-> spec, vars]     *)
(* A level that is passed over stands for an element that is not there if  *)
(* the specification is of a ZDD and for a free variable if it is of a BDD.*)
(***************************************************************************)
RECURSIVE GetRoot(_), GetChild(_, _, _, _)

\* Terminals are equal whatever their states.
Plain(at) == IF at[1] > 0 THEN at ELSE <<at[1], NoState>>
Pair(x, y) == <<Max({x[1], y[1]}), [both |-> <<Plain(x), Plain(y)>>]>>

\* ZddIntersection: the higher of the two goes down its 0-edges.
RECURSIVE Meet(_, _, _)
Meet(spec, x, y) ==
    CASE x[1] = 0 \/ y[1] = 0 -> Dead
      [] x[1] = y[1] /\ x[1] # 0 -> <<x[1], [states |-> <<x[2], y[2]>>]>>
      [] x[1] > y[1] /\ y[1] # 0 -> Meet(spec, GetChild(spec.of[1], x[2], x[1], 0), y)
      [] x[1] < y[1] /\ x[1] # 0 -> Meet(spec, x, GetChild(spec.of[2], y[2], y[1], 0))

\* The levels and the states of both are kept.
BddAnd(x, y) == IF x[1] = 0 \/ y[1] = 0 THEN Dead
                ELSE IF x[1] < 0 /\ y[1] < 0 THEN Accepted ELSE Pair(x, y)
BddOr(x, y) == IF x[1] < 0 \/ y[1] < 0 THEN Accepted
               ELSE IF x[1] = 0 /\ y[1] = 0 THEN Dead ELSE Pair(x, y)
ZddUnion(x, y) ==
    CASE x[1] = 0 /\ y[1] = 0 -> Dead
      [] x[1] <= 0 /\ y[1] <= 0 /\ (x[1] < 0 \/ y[1] < 0) -> Accepted
      [] OTHER -> Pair(x, y)

Joining(kind, x, y) ==
    CASE kind = "bddAnd" -> BddAnd(x, y)
      [] kind = "bddOr" -> BddOr(x, y)
      [] kind = "zddUnion" -> ZddUnion(x, y)

\* Mutation: an operand that is below the level is left as it is.
OperandKept(spec, at, i, b, zdd) ==
    IF at[1] = i THEN GetChild(spec, at[2], i, b) ELSE at

\* An operand that is below the level has no set with its element.
Operand(spec, at, i, b, zdd) ==
    IF at[1] = i THEN GetChild(spec, at[2], i, b)
    ELSE IF zdd /\ b = 1 THEN Dead ELSE at

\* A node that the deletion rule would remove is passed over.
BddDeletes(child) == Plain(child[0]) = Plain(child[1])
ZddDeletes(child) == child[1][1] = 0

RECURSIVE Ahead(_, _)
Ahead(spec, at) ==
    LET child == [b \in {0, 1} |-> GetChild(spec.of, at[2], at[1], b)]
        deleted == IF spec.kind = "zddLookahead" THEN ZddDeletes(child) ELSE BddDeletes(child)
    IN  IF at[1] >= 1 /\ deleted THEN Ahead(spec, child[0]) ELSE at

\* Every level has a node: the state is where `of` is.
Filled(at, i) == IF at[1] = 0 THEN Dead ELSE IF i > 0 THEN <<i, [at |-> Plain(at)]>> ELSE Accepted

GetRoot(spec) ==
    CASE spec.kind = "sapporo" -> AtTop(spec.family)
      [] spec.kind = "automaton" -> <<spec.top, [name |-> "a"]>>
      [] spec.kind = "zddIntersection" -> Meet(spec, GetRoot(spec.of[1]), GetRoot(spec.of[2]))
      [] spec.kind \in {"zddUnion", "bddAnd", "bddOr"} ->
                Joining(spec.kind, GetRoot(spec.of[1]), GetRoot(spec.of[2]))
      [] spec.kind \in {"zddLookahead", "bddLookahead"} -> Ahead(spec, GetRoot(spec.of))
      [] spec.kind \in {"zddUnreduction", "bddUnreduction"} ->
                LET at == GetRoot(spec.of) IN Filled(at, Max({at[1], spec.vars}))

GetChild(spec, s, i, b) ==
    CASE spec.kind = "sapporo" -> AtTop(IF b = 1 THEN OnSet0(s.family, i) ELSE OffSet(s.family, i))
      [] spec.kind = "automaton" -> spec.moves[i][s.name][b + 1]
      [] spec.kind = "zddIntersection" ->
                Meet(spec, GetChild(spec.of[1], s.states[1], i, b),
                           GetChild(spec.of[2], s.states[2], i, b))
      [] spec.kind \in {"zddUnion", "bddAnd", "bddOr"} ->
                LET zdd == spec.kind = "zddUnion"
                IN  Joining(spec.kind, Operand(spec.of[1], s.both[1], i, b, zdd),
                           Operand(spec.of[2], s.both[2], i, b, zdd))
      [] spec.kind \in {"zddLookahead", "bddLookahead"} -> Ahead(spec, GetChild(spec.of, s, i, b))
      [] spec.kind \in {"zddUnreduction", "bddUnreduction"} ->
                Filled(Operand(spec.of, s.at, i, b, spec.kind = "zddUnreduction"), i - 1)

(***************************************************************************)
(* The family of a spec from <<level, state>> on, read as that of a ZDD;   *)
(* where the loop does not end it is what the loop was meant to leave.     *)
(***************************************************************************)
RECURSIVE Language(_, _)
Language(spec, at) ==
    CASE at[1] = 0 -> {}
      [] at[1] = -1 -> {{}}
      [] at[1] = Endless -> at[2].family \cap {{}}
      [] OTHER -> Language(spec, GetChild(spec, at[2], at[1], 0))
                    \cup {s \cup {at[1]} :
                            s \in Language(spec, GetChild(spec, at[2], at[1], 1))}

(***************************************************************************)
(* The family that a specification promises, without looking at how those  *)
(* made of others go about it.                                             *)
(***************************************************************************)
RECURSIVE Promised(_)
Promised(spec) ==
    CASE spec.kind \in {"sapporo", "automaton"} -> Language(spec, GetRoot(spec))
      [] spec.kind \in {"zddIntersection", "bddAnd"} -> Promised(spec.of[1]) \cap Promised(spec.of[2])
      [] spec.kind \in {"zddUnion", "bddOr"} -> Promised(spec.of[1]) \cup Promised(spec.of[2])
      [] OTHER -> Promised(spec.of)
=============================================================================
