------------------------------ MODULE DdTables ------------------------------
(***************************************************************************)
(* The node tables of tdzdd: rows 0..n of nodes, one row per level, row 0  *)
(* for the terminals.  A node identifier is a pair <<row, column>>, columns*)
(* counted from 1; a node has its two branches <<f0, f1>>.                 *)
(***************************************************************************)
EXTENDS Integers, Sequences, SequencesExt, FiniteSets, FiniteSetsExt, Functions

Zero == <<0, 1>>
One  == <<0, 2>>
Terminals == <<<<Zero, Zero>>, <<One, One>>>>

\* A branch that is scheduled has no value yet.
Pending == <<-1, 1>>

EmptyTable(n) == [i \in 0..n |-> IF i = 0 THEN Terminals ELSE <<>>]
TopRow(t) == Max(DOMAIN t)
Rows(t) == DOMAIN t \ {0}
NodesIn(t) == {i \in Rows(t) : t[i] # <<>>}
TableSize(t) == FoldSet(LAMBDA i, k : k + Len(t[i]), 0, Rows(t))

Child(t, f, b) == t[f[1]][f[2]][b + 1]
SetChild(t, f, b, g) == [t EXCEPT ![f[1]][f[2]][b + 1] = g]
Exists(t, f) == f[1] \in DOMAIN t /\ f[2] \in DOMAIN t[f[1]]
Branches(t, i) == UNION {{t[i][j][1], t[i][j][2]} : j \in DOMAIN t[i]}

(***************************************************************************)
(* makeIndex(): the levels that row i refers to and no higher row does.    *)
(***************************************************************************)
RefersTo(t, i) == {f[1] : f \in Branches(t, i)} \ {0}

LowerLevels(t) ==
    [i \in Rows(t) |-> RefersTo(t, i) \ UNION {RefersTo(t, k) : k \in (i + 1)..TopRow(t)}]

\* The universal diagram of n levels.
Universal(n) ==
    [i \in 0..n |-> CASE i = 0 -> Terminals
                      [] i = 1 -> <<<<One, One>>>>
                      [] OTHER -> <<<<<<i - 1, 1>>, <<i - 1, 1>>>>>>]
UniversalRoot(n) == IF n = 0 THEN One ELSE <<n, 1>>

(***************************************************************************)
(* The family of sets of levels that a node stands for.                    *)
(***************************************************************************)
RECURSIVE FamilyOf(_, _)
FamilyOf(t, f) ==
    CASE f = Zero -> {}
      [] f = One -> {{}}
      [] OTHER -> FamilyOf(t, Child(t, f, 0))
                    \cup {s \cup {f[1]} : s \in FamilyOf(t, Child(t, f, 1))}

RECURSIVE Reached(_, _)
Reached(t, found) ==
    LET next == found \cup UNION {{Child(t, f, 0), Child(t, f, 1)} :
                                    f \in {g \in found : g[1] > 0}}
    IN  IF next = found THEN found ELSE Reached(t, next)
-----------------------------------------------------------------------------
(***************************************************************************)
(* DdReducer: Algorithm-R of zddReduce(), one level after another from the *)
(* bottom.  Levels done are scratch space for the ones above: the branches *)
(* of the node that would get a new identifier hold marks and links.       *)
(***************************************************************************)
\* Branches that lead to a node whose 1-edge is empty skip it.
Skip(t, f) == IF f[1] # 0 /\ Child(t, f, 1) = Zero THEN Child(t, f, 0) ELSE f

MakeReadyRow(t, i) ==
    [t EXCEPT ![i] = [j \in DOMAIN @ |-> <<Skip(t, @[j][1]), Skip(t, @[j][2])>>]]

MakeReady(t) == FoldLeft(MakeReadyRow, t, [x \in 1..(TopRow(t) - 1) |-> x + 1])

Mapped(ids, f) == IF f[1] = 0 THEN f ELSE ids[f[1]][f[2]]

\* Mutation: no node is left out, as in qddReduce().
RedundantInQdd(f0, f1) == FALSE

Redundant(f0, f1) == f1 = Zero

(***************************************************************************)
(* First loop, from the last column on: nodes with the same 0-branch are   *)
(* linked in lists, whose head is found at that branch; s is [table, ids]. *)
(***************************************************************************)
LinkNode(s, i, j) ==
    LET m == Len(s.table[i])
        mark == <<i, m + 1>>
        f0 == Mapped(s.ids, s.table[i][j][1])
        f1 == Mapped(s.ids, s.table[i][j][2])
        t == [s.table EXCEPT ![i][j] = <<f0, f1>>]
        touched == Child(t, f0, 1) = mark
    IN  IF Redundant(f0, f1) THEN [table |-> t, ids |-> [s.ids EXCEPT ![i][j] = f0]]
        ELSE [table |-> SetChild(SetChild(t, f0, 1, mark), f0, 0, <<i + 1, j>>),
              ids |-> [s.ids EXCEPT ![i][j] = IF touched THEN Child(t, f0, 0) ELSE <<i + 1, m + 1>>]]

LinkLevel(s, i) ==
    LET m == Len(s.table[i])
    IN  FoldLeft(LAMBDA r, x : LinkNode(r, i, m + 1 - x),
                 [s EXCEPT !.ids[i] = [j \in 1..m |-> Zero]], [x \in 1..m |-> x])

(***************************************************************************)
(* Second loop, along the list that starts at j: the first node with a     *)
(* 1-branch gets the next identifier, the others a link to it.             *)
(***************************************************************************)
RECURSIVE NumberList(_, _, _, _)
NumberList(s, i, j, k) ==
    LET m == Len(s.table[i])
        g0 == s.table[i][k][1]
        g1 == s.table[i][k][2]
        next == s.ids[i][k][2]
        first == Child(s.table, g1, 1) # <<i, j>>
        canonical == Child(s.table, g1, 0)
    IN  IF k > m THEN s
        ELSE IF first
        THEN NumberList([table |-> SetChild(SetChild(s.table, g1, 1, <<i, j>>), g1, 0, <<i, k>>),
                         ids |-> [s.ids EXCEPT ![i][k] = <<i, s.size + 1>>],
                         size |-> s.size + 1], i, j, next)
        ELSE NumberList([s EXCEPT !.table[i][k] = <<canonical, <<i, m + 1>>>>,
                                  !.ids[i][k] = Zero], i, j, next)

NumberLevel(s, i) ==
    FoldLeft(LAMBDA r, j : IF r.ids[i][j][1] <= i THEN r ELSE NumberList(r, i, j, j),
             [table |-> s.table, ids |-> s.ids, size |-> 0], [j \in DOMAIN s.table[i] |-> j])

(***************************************************************************)
(* Third loop: the nodes that have an identifier of the level are copied.  *)
(***************************************************************************)
CopyLevel(s, i) ==
    LET m == Len(s.table[i])
        forwarded(j) == s.table[i][j][2] = <<i, m + 1>>
        ids == [j \in 1..m |-> IF forwarded(j) THEN s.ids[i][s.table[i][j][1][2]] ELSE s.ids[i][j]]
        own == {j \in 1..m : ~forwarded(j) /\ ~Redundant(s.table[i][j][1], s.table[i][j][2])}
    IN  [ids |-> [s.ids EXCEPT ![i] = ids],
         row |-> [k \in 1..s.size |-> s.table[i][CHOOSE j \in own : ids[j] = <<i, k>>]]]

Clear(t, levels) == [i \in DOMAIN t |-> IF i \in levels THEN <<>> ELSE t[i]]

\* Level i of r = [table, ids, output, root] is reduced; lower is the index.
ReduceLevel(r, i, lower) ==
    LET linked == LinkLevel([table |-> r.table, ids |-> r.ids], i)
        numbered == NumberLevel([linked EXCEPT !.ids = Clear(@, lower[i])], i)
        copied == CopyLevel(numbered, i)
    IN  [table |-> Clear(numbered.table, lower[i]),
         ids |-> copied.ids,
         output |-> [r.output EXCEPT ![i] = copied.row],
         root |-> IF r.root[1] = i THEN copied.ids[i][r.root[2]] ELSE r.root]
=============================================================================
