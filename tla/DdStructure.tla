----------------------------- MODULE DdStructure -----------------------------
(***************************************************************************)
(* A search of graphset.cc from the moment it has a specification: a       *)
(* DdStructure of the search space, zddSubset(), zddReduce(), evaluate()   *)
(* with ToZBDD; or a count, by setset::size().  One level is one step.     *)
(***************************************************************************)
EXTENDS TopDown, PathCounter, FamilyAlgebra

CONSTANTS
    Automata,  \* the specifications of searches
    Composed,  \* specifications made of others by the operations of DdSpecOp
    Spaces,    \* search spaces: <<family>>, or <<>> for a null pointer
    Counted    \* families that are counted

VARIABLES
    stage,     \* what goes on
    level,     \* the level that is next
    task,      \* [spec, space]
    dd,        \* the tables: [input, table, root, work]
    sweeper,   \* the counts of DdSweeper
    reducer,   \* [ids, lower] of DdReducer
    values,    \* what evaluate() has of every row
    count      \* the state of PathCounter

vars == <<stage, level, task, dd, sweeper, reducer, values, count>>

None == <<>>
Sapporo(family) == [kind |-> "sapporo", family |-> family]
SpaceSpec == Sapporo(Head(task.space))

InitSearch ==
    /\ stage = "space" /\ level = 0
    /\ \E space \in Spaces : task = [spec |-> None, space |-> space]
    /\ count = None

InitCount ==
    /\ stage = "size" /\ level = 0
    /\ \E f \in Counted : task = [spec |-> Sapporo(f), space |-> None]
    /\ count = None

Init ==
    /\ InitSearch \/ InitCount
    /\ dd = [input |-> EmptyTable(0), table |-> EmptyTable(0), root |-> Pending, work |-> <<>>]
    /\ sweeper = None /\ reducer = None /\ values = None

\* Mutation: the loop goes on below level 1.
AfterLevelOver(i, here, next) == IF i > 0 THEN here ELSE next

\* A loop from n down to 1.
AfterLevel(i, here, next) == IF i > 1 THEN here ELSE next
\* A call of get_child() for an entry of the level does not return.
LoopsFrom(spec, states) ==
    \E s \in states, b \in {0, 1} : GetChild(spec, s, level, b)[1] = Endless

LoopsAhead ==
    CASE stage = "space" /\ task.space # None -> GetRoot(SpaceSpec)[1] = Endless
      [] stage = "build" /\ level > 0 -> LoopsFrom(SpaceSpec, {p.state : p \in ToSet(dd.work[level])})
      [] stage = "size" -> GetRoot(task.spec)[1] = Endless
      [] stage = "count" /\ level > 0 -> LoopsFrom(task.spec, {p.state : p \in ToSet(count.nodes[level])})
      [] OTHER -> FALSE

\* The loop of SapporoZdd goes on for ever.
Loop ==
    /\ LoopsAhead
    /\ stage' = "endless"
    /\ UNCHANGED <<level, task, dd, sweeper, reducer, values, count>>
-----------------------------------------------------------------------------
(***************************************************************************)
(* The search space                                                        *)
(***************************************************************************)
Universe ==
    /\ stage = "space" /\ task.space = None
    /\ dd' = [dd EXCEPT !.table = Universal(Top), !.root = UniversalRoot(Top)]
    /\ stage' = "subset"
    /\ UNCHANGED <<level, task, sweeper, reducer, values, count>>

\* DdBuilder::initialize
StartBuild ==
    LET at == GetRoot(SpaceSpec)
        n == at[1]
    IN  /\ stage = "space" /\ task.space # None /\ n # Endless
        /\ IF n <= 0
           THEN /\ dd' = [dd EXCEPT !.root = IF n < 0 THEN One ELSE Zero]
                /\ stage' = "subset"
                /\ UNCHANGED <<level, sweeper>>
           ELSE /\ dd' = [dd EXCEPT
                            !.table = EmptyTable(n),
                            !.work = Scheduled(NoWork(n), n, [col |-> 1, state |-> at[2], src |-> Root])]
                /\ sweeper' = NewSweeper(n)
                /\ level' = n
                /\ stage' = "build"
        /\ UNCHANGED <<task, reducer, values, count>>

Swept(d) ==
    LET r == SweeperUpdate(d, sweeper, level)
    IN  /\ dd' = [dd EXCEPT !.table = r.d.table, !.root = r.d.root, !.work = r.d.work]
        /\ sweeper' = r.sw
        /\ level' = level - 1

Built == [table |-> dd.table, root |-> dd.root, work |-> dd.work]

\* DdBuilder::construct
Construct ==
    LET i == level
        list == dd.work[i]
        down == [p \in ToSet(list), b \in {0, 1} |-> DownFrom(SpaceSpec, p, i, b)]
    IN  /\ stage = "build" /\ i > 0 /\ ~LoopsAhead
        /\ Swept(OneLevel(Built, i, list, down))
        /\ stage' = AfterLevel(i, "build", "subset")
        /\ UNCHANGED <<task, reducer, values, count>>
-----------------------------------------------------------------------------
(***************************************************************************)
(* zddSubset()                                                             *)
(***************************************************************************)
\* ZddSubsetter::initialize
StartSubset(spec) ==
    LET s == Settle(dd.table, spec, dd.root, GetRoot(spec))
        n == s.at[1]
        entry == [col |-> s.f[2], state |-> s.at[2], src |-> Root]
    IN  /\ stage = "subset"
        /\ task' = [task EXCEPT !.spec = spec]
        /\ IF TerminalOf(s) # Pending
           THEN /\ dd' = [dd EXCEPT !.root = TerminalOf(s), !.table = EmptyTable(0)]
                /\ stage' = "reduce"
                /\ UNCHANGED <<level, sweeper>>
           ELSE /\ dd' = [input |-> dd.table, table |-> EmptyTable(n), root |-> s.f,
                          work |-> Scheduled(NoWork(n), n, entry)]
                /\ sweeper' = NewSweeper(n)
                /\ level' = n
                /\ stage' = "subsetting"
        /\ UNCHANGED <<reducer, values, count>>

\* ZddSubsetter::subset, and derefLevel: the level of the input is emptied.
Subset ==
    LET i == level
        list == InOrder(dd.work, i, Len(dd.input[i]))
        down == [p \in ToSet(list), b \in {0, 1} |-> Down(dd.input, task.spec, p, i, b)]
        r == SweeperUpdate(OneLevel(Built, i, list, down), sweeper, i)
    IN  /\ stage = "subsetting" /\ i > 0
        /\ dd' = [input |-> [dd.input EXCEPT ![i] = <<>>],
                  table |-> r.d.table, root |-> r.d.root, work |-> r.d.work]
        /\ sweeper' = r.sw
        /\ level' = level - 1
        /\ stage' = AfterLevel(i, "subsetting", "reduce")
        /\ UNCHANGED <<task, reducer, values, count>>
-----------------------------------------------------------------------------
(***************************************************************************)
(* zddReduce()                                                             *)
(***************************************************************************)
\* The levels up to that of the root are reduced.
StartReduce ==
    LET n == TopRow(dd.table)
        top == dd.root[1]
        ready == IF top > 0 THEN MakeReady(dd.table) ELSE dd.table
    IN  /\ stage = "reduce"
        /\ reducer' = [ids |-> [i \in 0..n |-> <<>>], lower |-> LowerLevels(ready), top |-> top]
        /\ dd' = [dd EXCEPT !.input = ready, !.table = EmptyTable(n), !.work = <<>>]
        /\ level' = 1
        /\ stage' = IF top > 0 THEN "reducing" ELSE "evaluate"
        /\ UNCHANGED <<task, sweeper, values, count>>

Reduce ==
    LET r == ReduceLevel([table |-> dd.input, ids |-> reducer.ids,
                          output |-> dd.table, root |-> dd.root], level, reducer.lower)
    IN  /\ stage = "reducing"
        /\ dd' = [dd EXCEPT !.input = r.table, !.table = r.output, !.root = r.root]
        /\ reducer' = [reducer EXCEPT !.ids = r.ids]
        /\ level' = level + 1
        /\ stage' = IF level < reducer.top THEN "reducing" ELSE "evaluate"
        /\ UNCHANGED <<task, sweeper, values, count>>
-----------------------------------------------------------------------------
(***************************************************************************)
(* evaluate(ToZBDD)                                                        *)
(***************************************************************************)
StartEvaluate ==
    /\ stage = "evaluate"
    /\ values' = [i \in DOMAIN dd.table |-> IF i = 0 THEN <<{}, {{}}>> ELSE <<>>]
    /\ reducer' = [ids |-> None, lower |-> LowerLevels(dd.table), top |-> dd.root[1]]
    /\ dd' = [dd EXCEPT !.input = EmptyTable(0)]
    /\ level' = 1
    /\ stage' = IF dd.root[1] > 0 THEN "evaluating" ELSE "done"
    /\ UNCHANGED <<task, sweeper, count>>

\* The variable of the level is toggled in the 1-branch.
EvalNode(v, i, q) ==
    v[q[1][1]][q[1][2]] \cup Flipped(v[q[2][1]][q[2][2]], {i})

Evaluate ==
    LET row == dd.table[level]
        next == [values EXCEPT ![level] = [j \in DOMAIN row |-> EvalNode(values, level, row[j])]]
    IN  /\ stage = "evaluating"
        /\ values' = Clear(next, reducer.lower[level])
        /\ level' = level + 1
        /\ stage' = IF level < dd.root[1] THEN "evaluating" ELSE "done"
        /\ UNCHANGED <<task, dd, sweeper, reducer, count>>

Result == values[dd.root[1]][dd.root[2]]
-----------------------------------------------------------------------------
(***************************************************************************)
(* setset::size()                                                          *)
(***************************************************************************)
StartSize ==
    /\ stage = "size" /\ ~LoopsAhead
    /\ count' = StartCount(task.spec)
    /\ level' = count'.level
    /\ stage' = "count"
    /\ UNCHANGED <<task, dd, sweeper, reducer, values>>

Count ==
    /\ stage = "count" /\ ~LoopsAhead
    /\ IF level = 0 THEN stage' = "counted" /\ UNCHANGED <<level, count>>
       ELSE /\ count' = CountLevel(task.spec, count)
            /\ level' = level - 1
            /\ UNCHANGED stage
    /\ UNCHANGED <<task, dd, sweeper, reducer, values>>

Run ==
    \/ Universe \/ StartBuild \/ Construct
    \/ Subset
    \/ StartReduce \/ Reduce
    \/ StartEvaluate \/ Evaluate
    \/ StartSize \/ Count
    \/ Loop

Next ==
    \/ Run
    \/ \E spec \in Automata : StartSubset(spec)
    \/ \E spec \in Composed : StartSubset(spec)

(***************************************************************************)
(* The functions are sequential and run on; with which specification       *)
(* zddSubset() is called, if it is, is up to the caller.  CanRun are the   *)
(* guards of Run, all of whose steps change the stage or the level: Advance*)
(* is fair when Run is, and TLC finds its ENABLED without a computation.   *)
(***************************************************************************)
Stages == {"space", "build", "subset", "subsetting", "reduce", "reducing",
           "evaluate", "evaluating", "done", "size", "count", "counted", "endless"}
Resting == stage \in {"subset", "done", "counted", "endless"}
CanRun == ~Resting /\ (stage \in {"build", "subsetting"} => level > 0)
Advance == CanRun /\ stage' \in Stages /\ level' \in 0..(Top + 1)

Spec == Init /\ [][Next]_vars /\ WF_<<stage, level>>(Advance)
-----------------------------------------------------------------------------
(***************************************************************************)
(* Properties                                                              *)
(***************************************************************************)
Space ==
    IF task.space = None THEN SUBSET (1..Top)
    ELSE {s \in Head(task.space) : \A e \in s : e >= 1}

Sought == Space \cap Promised(task.spec)

(***************************************************************************)
(* A search gives those sets of the search space that its specification    *)
(* accepts, the elements below the offset being left out of the space.     *)
(***************************************************************************)
SearchRight == stage = "done" /\ task.spec.kind = "automaton" => Result = Sought

(***************************************************************************)
(* Intersection and union, by way of ZDDs or of BDDs, give just that though*)
(* their operands pass over different levels and end at different ones.    *)
(***************************************************************************)
OperationsRight == stage = "done" /\ task.spec.kind # "automaton" => Result = Sought

\* Whatever the specification is made of, the result is what is sought.
ResultRight == SearchRight /\ OperationsRight

(***************************************************************************)
(* No step loses or adds a set: what the diagram stands for, branches that *)
(* wait standing for what is scheduled, is the search space while it is    *)
(* built and what is sought from then on, through sweeps and the reduction.*)
(***************************************************************************)
Entries == UNION {{[at |-> i, e |-> dd.work[i][k]] : k \in DOMAIN dd.work[i]} : i \in DOMAIN dd.work}

EntryFamily(x) ==
    IF stage = "build" THEN Language(SpaceSpec, <<x.at, x.e.state>>)
    ELSE FamilyOf(dd.input, <<x.at, x.e.col>>) \cap Language(task.spec, <<x.at, x.e.state>>)

RECURSIVE Meaning(_, _)
Meaning(f, src) ==
    IF \E x \in Entries : x.e.src = src
    THEN EntryFamily(CHOOSE x \in Entries : x.e.src = src)
    ELSE CASE f = Zero -> {}
           [] f = One -> {{}}
           [] OTHER -> Meaning(Child(dd.table, f, 0), <<f[1], f[2], 0>>)
                        \cup {s \cup {f[1]} : s \in Meaning(Child(dd.table, f, 1), <<f[1], f[2], 1>>)}

MeaningKept ==
    /\ stage \in {"build", "subset"} => Meaning(dd.root, Root) = Space
    /\ stage \in {"subsetting", "reduce", "evaluate", "evaluating", "done"} =>
            Meaning(dd.root, Root) = Sought

(***************************************************************************)
(* Identifiers are delivered through pointers into rows that the sweeper   *)
(* compacts: every branch that waits is the target of one entry, and every *)
(* entry has a branch that waits; no sweep moves either.                   *)
(***************************************************************************)
Waiting ==
    {<<i, j, b>> : i \in Rows(dd.table), j \in 1..(2 ^ Top), b \in {0, 1}}

PointersLive ==
    stage \in {"build", "subsetting"} =>
        /\ {x.e.src : x \in Entries} \ {Root} =
             {src \in Waiting : /\ src[2] \in DOMAIN dd.table[src[1]]
                                /\ dd.table[src[1]][src[2]][src[3] + 1] = Pending}
        /\ \A x, y \in Entries : x.e.src = y.e.src => x = y

(***************************************************************************)
(* Rows are emptied as soon as nothing refers to them: what is still to be *)
(* subset, reduced or evaluated refers to rows that are there.             *)
(***************************************************************************)
RowsLive ==
    LET there(t, f) == f[1] >= level \/ f[2] \in DOMAIN t[f[1]]
        later(t) == UNION {Branches(t, i) : i \in level..TopRow(t)}
    IN  /\ stage = "subsetting" => \A x \in Entries : Exists(dd.input, <<x.at, x.e.col>>)
        /\ stage = "reducing" =>
                \A f \in later(dd.input) : f[1] = 0 \/ there(reducer.ids, f)
        /\ stage = "evaluating" => \A f \in later(dd.table) : there(values, f)

\* Storage that is given back, or moved, is not needed where it was.
StorageLive == PointersLive /\ RowsLive

(***************************************************************************)
(* The reduction leaves a canonical diagram: no node with an empty         *)
(* 1-branch, no two with the same branches, none out of reach.             *)
(***************************************************************************)
Reduced ==
    stage = "evaluate" =>
        \A i \in Rows(dd.table) :
            /\ \A j \in DOMAIN dd.table[i] :
                /\ dd.table[i][j][2] # Zero
                /\ <<i, j>> \in Reached(dd.table, {dd.root})
            /\ IsInjective(dd.table[i])

(***************************************************************************)
(* The count of a family is the number of its sets, and no number outgrows *)
(* the words that were reserved for it ("might be broken at long skip").   *)
(***************************************************************************)
CountRight ==
    /\ stage = "counted" =>
          ValueOf(count.total) = Cardinality({s \in task.spec.family : \A e \in s : e >= 1})
    /\ stage = "count" => count.fits

(***************************************************************************)
(* A set of the universe does not make SapporoZdd loop for ever: only sets *)
(* that were made before the universe got smaller do.                      *)
(***************************************************************************)
OnlyStaleSetsLoop ==
    stage = "endless" =>
        \E e \in UNION (IF task.space = None THEN task.spec.family ELSE Head(task.space)) : e < 1

(***************************************************************************)
(* A search space is built, a search goes on from zddSubset() to its result*)
(* and a count to its total: every loop over the levels ends, or the set   *)
(* is one that SapporoZdd cannot read.                                     *)
(***************************************************************************)
Finishes == ~Resting ~> Resting
=============================================================================
