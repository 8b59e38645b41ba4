---------------------------- MODULE MCDdStructure ----------------------------
(***************************************************************************)
(* Diagrams of up to five levels.  The automata have two states and choose *)
(* their moves level by level.                                             *)
(***************************************************************************)
EXTENDS DdStructure

\* The moves of a level: state |-> <<0-branch, 1-branch>>, "-" the 0-terminal,
\* "+" the 1-terminal.
Moves == {
    [a |-> <<"a", "b">>, b |-> <<"b", "a">>],
    [a |-> <<"b", "-">>, b |-> <<"-", "a">>],
    [a |-> <<"a", "+">>, b |-> <<"b", "-">>],
    [a |-> <<"a", "b">>, b |-> <<"-", "-">>],
    [a |-> <<"-", "b">>, b |-> <<"a", "b">>]}

\* Where a move of level i leads: at the end, state "a" is accepted.
Move(i, to) ==
    CASE to = "-" -> Dead
      [] to = "+" -> Accepted
      [] i > 1 /\ to \in {"a", "b"} -> <<i - 1, [name |-> to]>>
      [] i = 1 /\ to = "a" -> Accepted
      [] i = 1 /\ to = "b" -> Dead

MCAutomata ==
    {[kind |-> "automaton", top |-> Top,
      moves |-> [i \in 1..Top |-> [s \in {"a", "b"} |->
                    [k \in {1, 2} |-> Move(i, m[i][s][k])]]]] : m \in [1..Top -> Moves]}

(***************************************************************************)
(* Operands that end early or pass over levels, and the ways to put two of *)
(* them together; the last two go through BDDs.                            *)
(***************************************************************************)
EvenlyMany == [i \in 1..Top |-> [a |-> <<"a", "b">>, b |-> <<"b", "a">>]]
NoneAfterTwo == [i \in 1..Top |-> [a |-> <<"a", "+">>, b |-> <<"b", "-">>]]

Operands ==
    {[kind |-> "automaton", top |-> Top,
      moves |-> [i \in 1..Top |-> [s \in {"a", "b"} |->
                    [k \in {1, 2} |-> Move(i, m[i][s][k])]]]] : m \in {EvenlyMany, NoneAfterTwo}}
    \cup {Sapporo(f) : f \in {{}, {{}}, {{}, {2}, {4}}, {{5}, {3, 1}, {2, 1}, {5, 4, 2, 1}}}}

AsBdd(spec) ==
    [kind |-> "bddLookahead", of |-> [kind |-> "zddUnreduction", of |-> spec, vars |-> Top]]
AsZdd(spec) ==
    [kind |-> "zddLookahead", of |-> [kind |-> "bddUnreduction", of |-> spec, vars |-> Top]]
Operation(kind, p, q) == [kind |-> kind, of |-> <<p, q>>]

MCComposed ==
    {Operation(kind, p, q) : kind \in {"zddIntersection", "zddUnion"}, p \in Operands, q \in Operands}
    \cup {AsZdd(Operation(kind, AsBdd(p), AsBdd(q))) :
            kind \in {"bddAnd", "bddOr"}, p \in Operands, q \in Operands}

MCSpaces == {<<>>} \cup {<<f>> : f \in {
    {}, {{}}, {{0}}, {{-1}}, {{}, {2}, {4}, {4, 0}}, {{}, {2}, {4}, {4, -1}},
    {{1}, {2}, {3}, {4}},
    {{1, 4}, {2, 5}, {1, 3}, {}},
    {{5}, {3, 1}, {2, 1}, {5, 4, 2, 1}},
    {{4, 1}, {3, 2}, {5, 4, 2, 1}, {5, 1}},
    SUBSET {1, 3, 5}}}

MCCounted == (SUBSET (SUBSET {1, 2, 4})) \cup {SUBSET (1..Top), (SUBSET (0..Top)) \ {{}}, SUBSET (-1..3)}
=============================================================================
