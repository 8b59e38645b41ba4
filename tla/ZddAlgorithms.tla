---------------------------- MODULE ZddAlgorithms ----------------------------
(***************************************************************************)
(* The algorithms of digraphillion/zdd.cc.  The static tables that         *)
(* remember results are left out: they answer with what the function       *)
(* returned for the same node.                                             *)
(***************************************************************************)
EXTENDS ZbddAlgorithms, Sequences, SequencesExt

CONSTANT NumElems  \* num_elems_, and max_elem_ too: the universe never shrank

Elems == 1..NumElems

\* new_elems() makes each variable by BDD_NewVarOfLev(1), below the others.
ASSUME LevelAssumption ==
    /\ NumElems \in Nat
    /\ Level(0) = 0
    /\ \A e \in Elems : Level(e) = NumElems + 1 - e

IsTerm(f) == Top(f) = 0
Lo(f) == OffSet(f, Top(f))
Hi(f) == OnSet0(f, Top(f))
Zuniq(v, l, h) == l \cup Times(Single(v), h)

\* All sets of elements from v on; complement() builds it from the bottom.
AllSets(v) ==
    LET all[u \in v..(NumElems + 1)] ==
            IF u > NumElems THEN Unit ELSE Zuniq(u, all[u + 1], all[u + 1])
    IN  all[v]
Complement(f) == AllSets(1) \ f

\* setset({"include": in, "exclude": ex})
Constrained(v, in, ex) ==
    LET below[u \in v..(NumElems + 1)] ==
            IF u > NumElems THEN Unit
            ELSE Zuniq(u, IF u \in in THEN Empty ELSE below[u + 1],
                          IF u \in ex THEN Empty ELSE below[u + 1])
    IN  below[v]
-----------------------------------------------------------------------------
(***************************************************************************)
(* Inclusion                                                               *)
(***************************************************************************)
NonSubsetsStep(inner, f, g) ==
    CASE g = Empty -> f
      [] g = Unit -> f \ Unit
      [] g # Empty /\ f \in {Empty, Unit, g} -> Empty
      [] OTHER ->
            CASE Top(f) < Top(g) -> Zuniq(Top(f), inner[<<Lo(f), g>>], Hi(f))
              [] Top(f) = Top(g) -> Zuniq(Top(f), inner[<<Lo(f), Lo(g) \cup Hi(g)>>],
                                                  inner[<<Hi(f), Hi(g)>>])
              [] Top(f) > Top(g) -> inner[<<f, Lo(g) \cup Hi(g)>>]
NonSubsets(f, g) ==
    LET found[p \in Pairs(f, g)] == NonSubsetsStep(found, p[1], p[2])
    IN  found[<<f, g>>]

\* Mutation: sets with the element are not compared with sets without it.
NonSupersetsApart(inner, f, g) ==
    CASE g = Empty -> f
      [] f = Empty \/ g = Unit \/ (f = g /\ g # Empty) -> Empty
      [] f = Unit /\ g \notin {Empty, Unit} -> Unit
      [] OTHER ->
            CASE Top(f) > Top(g) -> inner[<<f, Lo(g)>>]
              [] Top(f) < Top(g) -> Zuniq(Top(f), inner[<<Lo(f), g>>], inner[<<Hi(f), g>>])
              [] Top(f) = Top(g) ->
                    Zuniq(Top(f), inner[<<Lo(f), Lo(g)>>], inner[<<Hi(f), Hi(g)>>])

NonSupersetsStep(inner, f, g) ==
    CASE g = Empty -> f
      [] f = Empty \/ g = Unit \/ (f = g /\ g # Empty) -> Empty
      [] f = Unit /\ g \notin {Empty, Unit} -> Unit
      [] OTHER ->
            CASE Top(f) > Top(g) -> inner[<<f, Lo(g)>>]
              [] Top(f) < Top(g) -> Zuniq(Top(f), inner[<<Lo(f), g>>], inner[<<Hi(f), g>>])
              [] Top(f) = Top(g) ->
                    Zuniq(Top(f), inner[<<Lo(f), Lo(g)>>],
                          inner[<<Hi(f), Lo(g)>>] \cap inner[<<Hi(f), Hi(g)>>])
NonSupersets(f, g) ==
    LET found[p \in Pairs(f, g)] == NonSupersetsStep(found, p[1], p[2])
    IN  found[<<f, g>>]

MinimalStep(inner, f) ==
    IF IsTerm(f) THEN f
    ELSE Zuniq(Top(f), inner[Lo(f)], NonSupersets(inner[Hi(f)], inner[Lo(f)]))
MinimalOf(f) ==
    LET minimal[x \in Over(f, f)] == MinimalStep(minimal, x)
    IN  minimal[f]

MaximalStep(inner, f) ==
    IF IsTerm(f) THEN f
    ELSE Zuniq(Top(f), NonSubsets(inner[Lo(f)], inner[Hi(f)]), inner[Hi(f)])
MaximalOf(f) ==
    LET maximal[x \in Over(f, f)] == MaximalStep(maximal, x)
    IN  maximal[f]

\* The loops "for (...; --j) g = g + g.Change(j)": the elements between a node
\* on level v and the one below it are free.
Freed(g, below, v) ==
    LET next == IF IsTerm(below) THEN NumElems + 1 ELSE Top(below)
    IN  FoldLeft(LAMBDA acc, j : acc \cup Change(acc, j), g,
                 [i \in 1..(next - 1 - v) |-> v + i])

\* cache[id(n)] in hitting()
HittingStep(inner, n) ==
    LET v == Top(n)
        freed(m) == IF m = Empty THEN Empty ELSE Freed(inner[m], m, v)
    IN  IF IsTerm(n) THEN Empty
        ELSE IF Lo(n) = Empty
             THEN freed(Hi(n)) \cup Change(Freed(Unit, Empty, v), v)
             ELSE (freed(Hi(n)) \cap freed(Lo(n))) \cup Change(freed(Lo(n)), v)
HittingNode(n) ==
    LET cache[x \in Over(n, n)] == HittingStep(cache, x)
    IN  cache[n]

Hitting(f) ==
    CASE f = Empty -> Unit
      [] f = Unit -> Empty
      [] OTHER -> Freed(HittingNode(f), f, 0)
-----------------------------------------------------------------------------
(***************************************************************************)
(* Walking through the sets                                                *)
(***************************************************************************)
Found(stack) == [found |-> TRUE, stack |-> stack]
NotFound(stack) == [found |-> FALSE, stack |-> stack]

\* choose(): the set after the one on the stack, sets with smaller elements
\* first.
\* Mutation: a branch that fails leaves the stack as it is.
ChooseNoPop(inner, f, stack) ==
    LET v == Top(f)
        zero(st) == IF Lo(f) # Empty THEN inner[<<Lo(f), st>>] ELSE NotFound(st)
        one(st) == LET r == inner[<<Hi(f), st>>] IN IF r.found THEN r ELSE zero(r.stack)
    IN  CASE f = Empty -> NotFound(stack)
          [] f = Unit -> Found(stack)
          [] OTHER -> IF stack = <<>> \/ v > Last(stack) THEN one(Append(stack, v))
                      ELSE IF ~Contains(stack, v) THEN zero(stack)
                      ELSE IF v # Last(stack) THEN one(stack)
                      ELSE zero(stack)

ChooseStep(inner, f, stack) ==
    LET v == Top(f)
        zero(st) == IF Lo(f) # Empty THEN inner[<<Lo(f), st>>] ELSE NotFound(st)
        back(st) == IF st # <<>> /\ Last(st) = v THEN zero(Front(st)) ELSE NotFound(st)
        one(st) == LET r == inner[<<Hi(f), st>>] IN IF r.found THEN r ELSE back(r.stack)
    IN  CASE f = Empty -> NotFound(stack)
          [] f = Unit -> Found(stack)
          [] OTHER -> IF stack = <<>> \/ v > Last(stack) THEN one(Append(stack, v))
                      ELSE IF ~Contains(stack, v) THEN zero(stack)
                      ELSE IF v # Last(stack) THEN one(stack)
                      ELSE back(stack)
Choose(f, stack) ==
    LET next[x \in Over(f, f) \X Seq(Elems)] == ChooseStep(next, x[1], x[2])
    IN  next[<<f, stack>>]

\* algo_c()
Count(f) ==
    LET count[x \in Over(f, f)] ==
            IF IsTerm(x) THEN IF x = Unit THEN 1 ELSE 0 ELSE count[Hi(x)] + count[Lo(x)]
    IN  count[f]

\* choose_random(): what it may pick; a branch without sets is never taken.
PicksStep(inner, f) ==
    IF IsTerm(f) THEN {{}}
    ELSE {s \cup {Top(f)} : s \in inner[Hi(f)]}
            \cup (IF Count(Lo(f)) > 0 THEN inner[Lo(f)] ELSE {})
RandomPicks(f) ==
    LET picks[x \in Over(f, f)] == PicksStep(picks, x)
    IN  picks[f]

\* algo_b(): the weight of the best set of a node, and whether it takes the
\* 1-edge there; of equal weights the 0-edge.  It is not asked of 0.
TakesHi(best, f, w) == Lo(f) = Empty \/ best[Hi(f)] + w[Top(f)] > best[Lo(f)]
BestStep(inner, f, w) ==
    IF f = Unit THEN 0
    ELSE IF TakesHi(inner, f, w) THEN inner[Hi(f)] + w[Top(f)] ELSE inner[Lo(f)]
Best(f, w) ==
    LET best[x \in Over(f, f) \ {Empty}] == BestStep(best, x, w)
    IN  best

\* choose_best()
ChooseBest(f, w) ==
    LET best == Best(f, w)
        chosen[x \in Over(f, f) \ {Empty}] ==
            IF IsTerm(x) THEN {}
            ELSE IF TakesHi(best, x, w) THEN {Top(x)} \cup chosen[Hi(x)] ELSE chosen[Lo(x)]
    IN  IF IsTerm(f) THEN {} ELSE chosen[f]

\* probability(), with p[e] / unit for the probability of an element and the
\* result times unit^NumElems.
SkipProbability(e, f, p, unit) ==
    FoldLeft(LAMBDA acc, i : acc * (unit - p[i]), 1,
             [i \in 1..((IF IsTerm(f) THEN NumElems + 1 ELSE Top(f)) - e) |-> e + i - 1])

ProbabilityStep(inner, e, f, p, unit) ==
    LET v == Top(f)
        branch(c) == SkipProbability(v + 1, c, p, unit) * inner[<<Top(c), c>>]
    IN  IF IsTerm(f) THEN IF f = Unit THEN 1 ELSE 0
        ELSE SkipProbability(e, f, p, unit) *
             ((unit - p[v]) * branch(Lo(f)) + p[v] * branch(Hi(f)))
Probability(e, f, p, unit) ==
    LET of[x \in (0..NumElems) \X Over(f, f)] == ProbabilityStep(of, x[1], x[2], p, unit)
    IN  of[<<e, f>>]
-----------------------------------------------------------------------------
(***************************************************************************)
(* dump() and load().  A line has the node, its element and its edges; the *)
(* family of a node stands for its number, "B" and "T" for Empty and Unit. *)
(***************************************************************************)
\* sort_zdd(): each node goes on the stack of its element, once.  `visited` has
\* what the stacks have.
VisitStep(inner, f, stacks) ==
    LET v == Top(f)
        pushed == [stacks EXCEPT ![v] = Append(@, f)]
    IN  IF IsTerm(f) \/ Contains(stacks[v], f) THEN stacks
        ELSE inner[<<Hi(f), inner[<<Lo(f), pushed>>]>>]
Visited(f, stacks) ==
    LET visited[x \in Over(f, f) \X [Elems -> Seq(Over(f, f))]] ==
            VisitStep(visited, x[1], x[2])
    IN  visited[<<f, stacks>>]
NoStacks == [v \in Elems |-> <<>>]

Line(g) == [id |-> g, elem |-> Top(g), lo |-> Lo(g), hi |-> Hi(g)]
\* The loop that pops a stack.
Popped(stack) ==
    LET nodes == Reverse(stack)
    IN  [i \in DOMAIN nodes |-> Line(nodes[i])]

\* Mutation: the levels from the top.
DumpTopFirst(f) ==
    LET stacks == Visited(f, NoStacks)
    IN  FlattenSeq([v \in Elems |-> Popped(stacks[v])])

Dump(f) ==
    LET stacks == Visited(f, NoStacks)
        written[v \in 1..(NumElems + 1)] ==
            IF v > NumElems THEN <<>> ELSE written[v + 1] \o Popped(stacks[v])
    IN  written[1]

\* What is left of at(): the edge names a line read before, or it throws.
Unread == {{0}}
NullFamily == {{-1}}  \* null()
Read(table, id) == IF id \in {Empty, Unit} THEN id
                   ELSE IF id \in DOMAIN table THEN table[id] ELSE Unread

\* load() of lines for nodes.
ReadLine(acc, line) ==
    LET l == Read(acc.table, line.lo)
        h == Read(acc.table, line.hi)
        root == Zuniq(line.elem, l, h)
    IN  IF acc.root = Unread \/ l = Unread \/ h = Unread
        THEN [acc EXCEPT !.root = Unread]
        ELSE [table |-> [x \in DOMAIN acc.table \cup {line.id} |->
                            IF x = line.id THEN root ELSE acc.table[x]],
              root |-> root]
NothingRead == [table |-> [x \in {} |-> {}], root |-> Empty]
LoadLines(lines) == FoldLeft(ReadLine, NothingRead, lines).root

\* dump() to a stream and load() from it.
Loaded(f) == IF IsTerm(f) THEN f ELSE LoadLines(Dump(f))
\* From a file the first line comes with its newline: it is neither "B" nor
\* "T", and as the line of a node it is incomplete.
LoadedFromFile(f) == IF IsTerm(f) THEN NullFamily ELSE LoadLines(Dump(f))

\* _enum(): the sets in the order they are written.
EnumStep(inner, f, stack) ==
    IF IsTerm(f) THEN IF f = Unit THEN <<stack>> ELSE <<>>
    ELSE inner[<<Hi(f), Append(stack, Top(f))>>] \o inner[<<Lo(f), stack>>]
Enumerated(f, stack) ==
    LET written[x \in Over(f, f) \X Seq(Elems)] == EnumStep(written, x[1], x[2])
    IN  written[<<f, stack>>]
=============================================================================
