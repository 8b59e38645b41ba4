------------------------------- MODULE TopDown -------------------------------
(***************************************************************************)
(* The breadth-first construction of diagrams: what DdBuilder and          *)
(* ZddSubsetter do at one level, and the DdSweeper that follows them.      *)
(*                                                                         *)
(* A SpecNode is an entry [col, state, src] of the work of a level: the    *)
(* column of the input table it belongs to (DdBuilder has one list only),  *)
(* the state of the specification, the branch <<row, column, b>> of the    *)
(* output that waits for its identifier.  Lists have the newest first.     *)
(* States of the specifications used are merged by equality alone:         *)
(* merge_states() is the default one, so that oneSrcPtr, the branches to   *)
(* the 1-terminal that such a merger could take back, has no effect.       *)
(***************************************************************************)
EXTENDS DdTables, DdSpecs

Root == <<0, 0, 0>>

Scheduled(work, i, entry) == [work EXCEPT ![i] = <<entry>> \o @]
NoWork(n) == [i \in 1..n |-> <<>>]

\* The order in which a level is processed: by column, then as listed.
InOrder(work, i, columns) ==
    FlattenSeq([j \in 1..columns |-> SelectSeq(work[i], LAMBDA p : p.col = j)])

(***************************************************************************)
(* Entries of a column with equal states are one node: the first of them   *)
(* gets the next identifier, and all write it to their branches.           *)
(***************************************************************************)
\* Mutation: equal states share a node whatever their columns.
FirstInAny(list, k) == Min({l \in 1..k : list[l].state = list[k].state})

FirstLike(list, k) == Min({l \in 1..k : list[l].col = list[k].col /\ list[l].state = list[k].state})
Kept(list) == {k \in DOMAIN list : FirstLike(list, k) = k}
IdOf(list, i, k) == <<i, Cardinality(Kept(list) \cap 1..FirstLike(list, k))>>

Deliver(d, src, f) ==
    IF src = Root THEN [d EXCEPT !.root = f]
    ELSE [d EXCEPT !.table[src[1]][src[2]][src[3] + 1] = f]

DeliverAll(d, list, i) ==
    FoldLeft(LAMBDA r, k : Deliver(r, list[k].src, IdOf(list, i, k)),
             d, [k \in DOMAIN list |-> k])

(***************************************************************************)
(* Going down in the input table and in the specification until both are   *)
(* at one level or at a terminal (ZddSubsetter).  f is a node of the       *)
(* table, at = <<level, state>>.                                           *)
(***************************************************************************)
LevelOf(f) == IF f = One THEN -1 ELSE f[1]
RECURSIVE ZerosTo(_, _, _), SpecZerosTo(_, _, _), Settle(_, _, _, _)
ZerosTo(t, f, stop) == IF f[1] > stop THEN ZerosTo(t, Child(t, f, 0), stop) ELSE f
SpecZerosTo(spec, at, stop) ==
    IF at[1] > stop THEN SpecZerosTo(spec, GetChild(spec, at[2], at[1], 0), stop) ELSE at

DownTable(t, f, b, stop) == ZerosTo(t, Child(t, f, b), Max({stop, 0}))
DownSpec(spec, at, b, stop) ==
    SpecZerosTo(spec, GetChild(spec, at[2], at[1], b), Max({stop, 0}))

Settle(t, spec, f, at) ==
    LET n == at[1]
        k == LevelOf(f)
    IN  CASE n = 0 \/ k = 0 \/ n = k -> [f |-> f, at |-> at]
          [] n # 0 /\ k # 0 /\ n < k -> Settle(t, spec, DownTable(t, f, 0, n), at)
          [] n # 0 /\ k # 0 /\ n > k -> Settle(t, spec, f, DownSpec(spec, at, 0, k))

\* Where branch b of an entry leads: an entry of a lower level or a terminal.
Down(t, spec, p, i, b) ==
    LET f == DownTable(t, <<i, p.col>>, b, i - 1)
    IN  Settle(t, spec, f, DownSpec(spec, <<i, p.state>>, b, LevelOf(f)))

\* The same for DdBuilder.
DownFrom(spec, p, i, b) ==
    LET at == GetChild(spec, p.state, i, b)
    IN  [f |-> IF at[1] < 0 THEN One ELSE <<at[1], 1>>, at |-> at]

TerminalOf(x) ==
    CASE x.at[1] = 0 \/ LevelOf(x.f) = 0 -> Zero
      [] x.at[1] < 0 /\ LevelOf(x.f) < 0 -> One
      [] OTHER -> Pending

(***************************************************************************)
(* One level: the nodes of row i are made, their branches are terminals or *)
(* schedule entries.  `down(p, b)` is Down or DownFrom as a function.      *)
(***************************************************************************)
VisitEntry(d, p, i, down) ==
    LET j == Len(d.table[i]) + 1
        ends == [b \in {0, 1} |-> TerminalOf(down[p, b])]
        entry(b) == [col |-> down[p, b].f[2], state |-> down[p, b].at[2], src |-> <<i, j, b>>]
        open == SelectSeq(<<0, 1>>, LAMBDA b : ends[b] = Pending)
    IN  [d EXCEPT
            !.table[i] = Append(@, <<ends[0], ends[1]>>),
            !.work = FoldLeft(LAMBDA w, b : Scheduled(w, down[p, b].at[1], entry(b)), @, open),
            !.child = Min({@} \cup {down[p, b].at[1] : b \in ToSet(open)}),
            !.dead = @ + (IF ends = [b \in {0, 1} |-> Zero] THEN 1 ELSE 0)]

\* d is [table, root, work]; columns is the width of the input row.
OneLevel(d, i, list, down) ==
    LET named == DeliverAll(d, list, i)
        kept == SetToSortSeq(Kept(list), <)
        start == [table |-> [named.table EXCEPT ![i] = <<>>], root |-> named.root,
                  work |-> [named.work EXCEPT ![i] = <<>>], child |-> i - 1, dead |-> 0]
    IN  FoldLeft(LAMBDA r, k : VisitEntry(r, list[k], i, down), start, kept)

(***************************************************************************)
(* DdSweeper: sweepLevel[i] is one more than the highest row with branches *)
(* that wait for level i, the rows from there on are complete; deadCount   *)
(* and allCount are of nodes.  Rows are swept when one node of twenty is   *)
(* dead.                                                                   *)
(***************************************************************************)
SweepRatio == 20

NewSweeper(n) ==
    [level |-> [i \in 0..(n + 1) |-> 0], dead |-> [i \in 0..(n + 2) |-> 0], all |-> 0, max |-> 0]

\* Mutation: the last row that refers to a level decides.
NoteLast(level, current, child) ==
    [i \in DOMAIN level |-> IF i \in child..current THEN current + 1 ELSE level[i]]

NoteLevels(level, current, child) ==
    [i \in DOMAIN level |->
        IF i \in child..current /\ \A l \in child..i : level[l] = 0 THEN current + 1
        ELSE level[i]]

\* Row i without its dead nodes; r is [table, ids].
SweepRow(r, i, k) ==
    LET map(f) == IF f[1] >= k THEN r.ids[f[1]][f[2]] ELSE f
        row == [j \in DOMAIN r.table[i] |-> <<map(r.table[i][j][1]), map(r.table[i][j][2])>>]
        alive == {j \in DOMAIN row : row[j] # <<Zero, Zero>>}
    IN  [table |-> [r.table EXCEPT ![i] = SelectSeq(row, LAMBDA q : q # <<Zero, Zero>>)],
         ids |-> [r.ids EXCEPT ![i] = [j \in DOMAIN row |->
                    IF j \in alive THEN <<i, Cardinality(alive \cap 1..j)>> ELSE Zero]]]

Sweep(d, k) ==
    LET rows == [x \in 1..(TopRow(d.table) - k + 1) |-> k + x - 1]
        r == FoldLeft(LAMBDA a, i : SweepRow(a, i, k),
                      [table |-> d.table, ids |-> [i \in DOMAIN d.table |-> <<>>]], rows)
    IN  [d EXCEPT !.table = r.table, !.root = r.ids[@[1]][@[2]]]

\* update(current, child, count): what it leaves in d and in the sweeper sw.
SweeperUpdate(d, sw, current) ==
    LET level == NoteLevels(sw.level, current, d.child)
        k == level[current - 1]
        dead == [[sw.dead EXCEPT ![current] = d.dead] EXCEPT
                    ![k] = FoldSet(LAMBDA i, s : s + (IF i = current THEN d.dead ELSE sw.dead[i]),
                                   0, k..level[current])]
        cleared == [i \in DOMAIN dead |-> IF i \in (k + 1)..level[current] THEN 0 ELSE dead[i]]
        all == sw.all + Len(d.table[current])
        max == Max({sw.max, all})
        swept == Sweep(d, k)
    IN  CASE current <= 1 -> [d |-> d, sw |-> sw]
          [] current > 1 /\ cleared[k] * SweepRatio < max ->
                [d |-> d, sw |-> [level |-> level, dead |-> cleared, all |-> all, max |-> max]]
          [] OTHER ->
                [d |-> swept,
                 sw |-> [level |-> level, dead |-> [cleared EXCEPT ![k] = 0],
                         all |-> TableSize(swept.table), max |-> max]]
=============================================================================
