--------------------------- MODULE SapporoVectors ---------------------------
(***************************************************************************)
(* Programs that work with BDDs, vectors of BDDs and vectors of ZBDDs, and *)
(* move them between processes in files.  A program holds one value; calls *)
(* compute others from it; variables may be made in between, at any level. *)
(***************************************************************************)
EXTENDS DdFiles

CONSTANTS
    Sessions,     \* what a program starts with: [kind, active, order, elements]
    Others,       \* kind |-> second operands, for the calls that have one
    Tables,       \* tables of product terms
    NewOrders,    \* the variables of a new process
    Marked,       \* families whose 0-branches are marked
    MaxVars       \* kind |-> the variables of a program

VARIABLES
    kind,         \* "bdd", "bddv", "zbdd" or "zbddv"
    value,
    call,         \* the last call: its name, its arguments and its result
    skips,        \* marks of SetZSkip() in the cache
    shifts        \* results of shifts in the cache, with the orders they were made under

vars == <<order, active, file, reading, kind, value, call, skips, shifts>>

\* A vector from its elements, put together one by one.
BddVector(fs) == FoldLeft(LAMBDA v, f : Concat(v, Repeated(f, 1)), NoVector, fs)
ZbddVector(fs) == UNION {Located(fs[i], i - 1) : i \in DOMAIN fs}

\* The values a program may have made: all functions, or the vectors of some.
Started(s) ==
    CASE s.kind = "bdd" -> Random(TopLev)
      [] s.kind = "bddv" -> {BddVector(fs) : fs \in s.elements}
      [] s.kind = "zbdd" -> s.elements
      [] s.kind = "zbddv" -> {ZbddVector(fs) : fs \in s.elements}

NoCall == [name |-> "none"]
NoSkips == [f \in {} |-> {}]
NoShifts == [f \in {} |-> {}]
Quiet == call = NoCall /\ InPhase("idle") /\ ~file.written

Init ==
    /\ \E s \in Sessions :
          /\ kind = s.kind
          /\ active = s.active
          /\ order = s.order
          /\ value \in Started(s)
    /\ file = NoFile
    /\ reading = Idle
    /\ call = NoCall
    /\ skips = NoSkips
    /\ shifts = NoShifts

Gives(name, args, result) ==
    /\ call' = [name |-> name, args |-> args, result |-> result]
    /\ UNCHANGED <<order, active, file, reading, kind, value, skips, shifts>>

\* The results of earlier shifts by s that are in the cache: of nodes with
\* several references, as long as nothing has overwritten them.
ShiftsFound(s) == {Restrict(shifts, DOMAIN shifts \ lost) : lost \in SUBSET {k \in DOMAIN shifts : k[2] = s}}

GivesShift(s, shifted) ==
    /\ call' = [name |-> "shift", args |-> <<s>>, result |-> shifted.result, orders |-> shifted.orders]
    /\ shifts' = shifted.cache
    /\ UNCHANGED <<order, active, file, reading, kind, value, skips>>

Vars == ToSet(order)
-----------------------------------------------------------------------------
(***************************************************************************)
(* Calls for BDDs                                                          *)
(***************************************************************************)
IsClause(g) == \E s \in SUBSET Vars : Models(g) = {a \in Assignments : a \cap s # {}}

BddWithBdd ==
    /\ Quiet /\ kind = "bdd"
    /\ \E g \in Others.bdd :
          \/ Gives("and", <<g>>, And(value, g))
          \/ Gives("or", <<g>>, Or(value, g))
          \/ Gives("xor", <<g>>, Xor(value, g))
          \/ Gives("cofactor", <<g>>, Cofactor(value, g))
          \/ Gives("imply", <<g>>, Imply(value, g))
          \/ IsClause(g) /\ Gives("univ", <<g>>, Univ(value, g))
          \/ IsClause(g) /\ Gives("exist", <<g>>, Exist(value, g))

BddAlone ==
    /\ Quiet /\ kind = "bdd"
    /\ \/ Gives("support", <<>>, Support(value))
       \/ \E v \in Vars, b \in {0, 1} : Gives("at", <<v, b>>, At(value, v, b))
       \/ \E v \in Vars, w \in Vars : Gives("swap", <<v, w>>, Swap(value, v, w))
       \/ \E v \in Vars : Gives("smooth", <<v>>, Smooth(value, v))
       \/ \E k \in 0..VarUsed : Gives("spread", <<k>>, Spread(value, k))
       \/ \E s \in -VarUsed..VarUsed :
             CanShift(value, s) /\ \E cache \in ShiftsFound(s) : GivesShift(s, Shift(value, s, cache))

(***************************************************************************)
(* Calls for vectors of BDDs                                               *)
(***************************************************************************)
VectorWithVector ==
    /\ Quiet /\ kind = "bddv"
    /\ \E w \in {BddVector(fs) : fs \in Others.bddv} :
          \/ value.len + w.len <= MaxLen /\ Gives("concat", <<w>>, Concat(value, w))
          \/ /\ value.len = w.len
             /\ \/ Gives("and", <<w>>, AndVector(value, w))
                \/ Gives("or", <<w>>, OrVector(value, w))
                \/ Gives("xor", <<w>>, XorVector(value, w))
                \/ Gives("cofactor", <<w>>, CofactVector(value, w))
                \/ Gives("imply", <<w>>, ImplyVector(value, w))

\* The negation of a vector without elements is not equal to it.
VectorAlone ==
    /\ Quiet /\ kind = "bddv"
    /\ \/ value.len > 0 /\ Gives("not", <<>>, NotVector(value))
       \/ Gives("top", <<>>, TopVector(value))
       \/ \E v \in UserVars, b \in {0, 1} : Gives("at", <<v, b>>, AtVector(value, v, b))
       \/ \E v \in UserVars, w \in UserVars : Gives("swap", <<v, w>>, SwapVector(value, v, w))
       \/ \E k \in 0..2 : Gives("spread", <<k>>, SpreadVector(value, k))
       \/ \E s \in -TopLev..TopLev :
             /\ \A i \in 1..value.len : \A l \in LevelsOf(Elements(value)[i]) : l + s \in 1..TopLev
             /\ \E cache \in ShiftsFound(s) : GivesShift(s, ShiftVector(value, s, cache))
       \/ \E start \in 0..value.len, len \in 0..value.len :
             start + len <= value.len /\ Gives("part", <<start, len>>, Part(value, start, len))
       \/ \E i \in 0..value.len :
             \/ i < value.len /\ Gives("mask1", <<i>>, Mask1(i, value.len))
             \/ Gives("mask2", <<i>>, Mask2(i, value.len))

(***************************************************************************)
(* Calls for vectors of ZBDDs                                              *)
(***************************************************************************)
FamiliesWithFamilies ==
    /\ Quiet /\ kind = "zbddv"
    /\ \E g \in {ZbddVector(fs) : fs \in Others.zbddv} :
          \/ Gives("intersection", <<g>>, value \cap g)
          \/ Gives("union", <<g>>, value \cup g)
          \/ Gives("difference", <<g>>, value \ g)

FamiliesAlone ==
    /\ Quiet /\ kind = "zbddv"
    /\ \/ \E v \in UserVars :
             \/ Gives("offset", <<v>>, Z!OffSet(value, v))
             \/ Gives("onset", <<v>>, Z!OnSet(value, v))
             \/ Gives("onset0", <<v>>, Z!OnSet0(value, v))
             \/ Gives("change", <<v>>, Z!Change(value, v))
       \/ \E v \in UserVars, w \in UserVars : Gives("swap", <<v, w>>, Z!Swap(value, v, w))
       \/ \E s \in -TopLev..TopLev :
             /\ \A v \in (UNION value) \ (1..SysVars) : LevOfVar(v) + s \in 1..TopLev
             /\ \E cache \in ShiftsFound(s) : GivesShift(s, ZShift(value, s, cache))
       \/ \E start \in 0..(MaxLen - 1), len \in 1..2 :
             start + len <= MaxLen /\ Gives("mask", <<start, len>>, Mask(value, start, len))
       \/ \E i \in 0..(MaxLen - 1) : Gives("get", <<i>>, GetZBDD(value, i))
       \/ Gives("last", <<>>, LastIndex(value))
       \/ Gives("top", <<>>, ZTop(value))
       \/ Gives("print", <<>>, PrintedPla(value))

(***************************************************************************)
(* Calls for ZBDDs of many levels                                          *)
(***************************************************************************)
\* SetZSkip(); entries of the cache are overwritten by others at any time.
SetSkips ==
    /\ Quiet /\ kind = "zbdd" /\ value \in Marked
    /\ skips' \in {[f \in kept |-> SetZSkip(value, skips)[f]] : kept \in SUBSET DOMAIN SetZSkip(value, skips)}
    /\ UNCHANGED <<order, active, file, reading, kind, value, call, shifts>>

Intersect ==
    /\ Quiet /\ kind = "zbdd"
    /\ \E g \in Others.zbdd : Gives("intersec", <<g>>, Intersec(value, g, skips))
-----------------------------------------------------------------------------
EndCall ==
    /\ call # NoCall
    /\ call' = NoCall
    /\ UNCHANGED <<order, active, file, reading, kind, value, skips, shifts>>

\* BDD_NewVarOfLev(); marks and shifts of levels that move stay in the cache.
NewVar ==
    /\ Quiet /\ VarUsed < MaxVars[kind]
    /\ \E lev \in 1..(TopLev + 1) : order' = WithNewVar(order, lev)
    /\ UNCHANGED <<active, file, reading, kind, value, call, skips, shifts>>

\* BDDV_ImportPla(): the declarations, for which variables are made.
DeclarePla ==
    /\ Quiet /\ kind = "bddv" /\ value = NoVector
    /\ \E pla \in Tables, sopf \in BOOLEAN :
          /\ order' = Enough(order, PlaVars(pla))
          /\ reading' = [phase |-> "pla", pla |-> pla, sopf |-> sopf]
    /\ UNCHANGED <<active, file, kind, value, call, skips, shifts>>

\* The rows, unless the table ends before.
ReadPla ==
    /\ InPhase("pla")
    /\ \E ends \in BOOLEAN :
          call' = [name |-> "pla", args |-> <<reading.pla, reading.sopf, ends>>,
                   result |-> IF ends THEN NoPla ELSE ImportPla(reading.pla, reading.sopf)]
    /\ reading' = Idle
    /\ UNCHANGED <<order, active, file, kind, value, skips, shifts>>
-----------------------------------------------------------------------------
(***************************************************************************)
(* Files                                                                   *)
(***************************************************************************)
Roots ==
    CASE kind \in {"bdd", "zbdd"} -> <<value>>
      [] kind = "bddv" -> Elements(value)
      [] kind = "zbddv" -> [i \in 1..(LastIndex(value) + 1) |-> GetZBDD(value, i - 1)]

Write ==
    /\ Quiet
    /\ Export(kind, Roots)
    /\ UNCHANGED <<kind, value, call, skips, shifts>>

NewProcess ==
    /\ value' = (CASE kind = "bdd" -> False [] kind = "bddv" -> NoVector [] OTHER -> {})
    /\ skips' = NoSkips
    /\ shifts' = NoShifts
    /\ UNCHANGED <<active, kind, call>>

\* The process ends; another one, with other variables, has the file.
Restart ==
    /\ InPhase("idle") /\ file.written
    /\ \E there \in NewOrders : there.active = active /\ order' = there.order
    /\ NewProcess
    /\ UNCHANGED <<file, reading>>

Read ==
    /\ \/ ReadHeader \/ HeaderEnds \/ ReadBranch \/ MakeNode \/ NodeEnds
       \/ ReadRoot \/ RootEnds \/ FinishImport
    /\ UNCHANGED <<kind, value, call, skips, shifts>>

\* The vector that is put together from what an import has read.
Imported ==
    CASE kind \in {"bdd", "zbdd"} -> reading.roots[1]
      [] kind = "bddv" -> BddVector(reading.roots)
      [] kind = "zbddv" -> ZbddVector(reading.roots)

\* An import is all a process does, and the file is gone.
EndImport ==
    /\ InPhase("over")
    /\ \E s \in Sessions : s.kind = kind /\ order' = s.order
    /\ NewProcess
    /\ file' = NoFile
    /\ reading' = Idle

Next ==
    \/ BddWithBdd \/ BddAlone
    \/ VectorWithVector \/ VectorAlone
    \/ FamiliesWithFamilies \/ FamiliesAlone
    \/ SetSkips \/ Intersect
    \/ EndCall \/ NewVar \/ DeclarePla \/ ReadPla
    \/ Write \/ Restart \/ Read \/ EndImport

Spec == Init /\ [][Next]_vars
-----------------------------------------------------------------------------
(***************************************************************************)
(* What the calls promise, by assignments and by elements                  *)
(***************************************************************************)
\* The assignments that differ from one of f only in the variables of s, or
\* in up to k of the variables.
FreeIn(f, s) == {a \in Assignments : \E b \in Models(f) : a \ s = b \ s}
Within(f, k) == {a \in Assignments : \E b \in Models(f) : Cardinality(SymDiff(a, b)) <= k}
Exchanged(a, v, w) ==
    (a \ {v, w}) \cup {x \in {v, w} : (IF x = v THEN w ELSE v) \in a}
Fixed(a, v, b) == IF b = 1 THEN a \cup {v} ELSE a \ {v}
UpTo(v) == {w \in Vars : LevOfVar(w) <= LevOfVar(v)}
Clause(g) == {v \in Vars : {v} \in Models(g)}

\* The assignments of the result of a call for the function f.
ModelsPromised(name, args, f) ==
    CASE name = "and" -> Models(f) \cap Models(args[1])
      [] name = "or" -> Models(f) \cup Models(args[1])
      [] name = "xor" -> SymDiff(Models(f), Models(args[1]))
      [] name = "not" -> Assignments \ Models(f)
      [] name = "exist" -> FreeIn(f, Clause(args[1]))
      [] name = "univ" -> Assignments \ FreeIn(Not(f), Clause(args[1]))
      [] name = "support" ->
            {a \in Assignments : \E v \in a : \E b \in Models(f) : SymDiff(b, {v}) \notin Models(f)}
      [] name = "at" -> {a \in Assignments : Fixed(a, args[1], args[2]) \in Models(f)}
      [] name = "swap" -> {a \in Assignments : Exchanged(a, args[1], args[2]) \in Models(f)}
      [] name = "smooth" -> FreeIn(f, UpTo(args[1]))
      [] name = "spread" -> Within(f, args[1])
      [] name = "shift" -> {a \in Assignments : \E b \in Models(f) :
                                /\ b \subseteq {VarOfLev(l) : l \in LevelsOf(f)}
                                /\ a \cap {VarOfLev(l + args[1]) : l \in LevelsOf(f)}
                                        = {VarOfLev(LevOfVar(v) + args[1]) : v \in b}}

Constrained(name, args, f, r) ==
    CASE name = "cofactor" -> Models(r) \cap Models(args[1]) = Models(f) \cap Models(args[1])
      [] name # "cofactor" -> Models(r) = ModelsPromised(name, args, f)

(***************************************************************************)
(* Every operation on BDDs gives the reduced and ordered diagram of the    *)
(* function it is named for, wherever the variables stand and whatever     *)
(* levels the operands leave out (bddc.c:805-1100, BDD.cc:56-105).         *)
(***************************************************************************)
FunctionsRight ==
    kind = "bdd" /\ call # NoCall =>
        IF call.name = "imply" THEN call.result <=> Models(value) \subseteq Models(call.args[1])
        ELSE IsBdd(call.result) /\ Constrained(call.name, call.args, value, call.result)

(***************************************************************************)
(* A vector whose elements are the same is the same vector, by whatever    *)
(* calls it was made: the comparison of two vectors compares nodes         *)
(* (BDD.h:312-314).                                                        *)
(***************************************************************************)
EqualVectorsEqual ==
    kind = "bddv" =>
        /\ value = VectorOf(Elements(value))
        /\ call # NoCall /\ call.name \notin {"imply", "top"} /\ call.result # NoPla =>
              call.result = VectorOf(Elements(call.result))

\* The elements of a vector with the longest parts of equal elements that
\* halving it comes to taken for one.
RECURSIVE Merged(_)
Merged(s) ==
    LET half == 2^(GetLev(Len(s)) - 1)
    IN  IF \A i \in DOMAIN s : s[i] = s[1] THEN <<s[1]>>
        ELSE Merged(SubSeq(s, 1, half)) \o Merged(SubSeq(s, half + 1, Len(s)))

ElementsPromised(name, args, s) ==
    CASE name = "concat" -> s \o Elements(args[1])
      [] name = "part" -> SubSeq(s, args[1] + 1, args[1] + args[2])
      [] name = "mask1" -> [i \in DOMAIN s |-> IF i = args[1] + 1 THEN True ELSE False]
      [] name = "mask2" -> [i \in DOMAIN s |-> IF i > args[1] THEN True ELSE False]

\* The arguments for the i-th elements.
ArgsAt(name, args, i) ==
    IF name \in {"and", "or", "xor", "cofactor"} THEN <<GetBDD(args[1], i - 1)>> ELSE args

(***************************************************************************)
(* The operations on vectors of BDDs, which work on one diagram for all    *)
(* the elements or halve it, do to every element what is done to a         *)
(* function and leave its place alone, for lengths that are no powers of   *)
(* two, too (BDD.cc:175-346, BDD.h:158-328).  A spread takes equal         *)
(* elements for one.                                                       *)
(***************************************************************************)
VectorsRight ==
    kind = "bddv" /\ call # NoCall /\ call.name # "pla" =>
        LET s == Elements(value)
            r == Elements(call.result)
            base == IF call.name = "spread" /\ s # <<>> THEN Merged(s) ELSE s
        IN  CASE call.name = "imply" ->
                    call.result <=> \A i \in DOMAIN s :
                        Models(s[i]) \subseteq Models(Elements(call.args[1])[i])
              [] call.name = "top" ->
                    LevOfVar(call.result) = Max({0} \cup UNION {LevelsOf(s[i]) : i \in DOMAIN s})
              [] call.name \in {"concat", "part", "mask1", "mask2"} ->
                    r = ElementsPromised(call.name, call.args, s)
              [] call.name \notin {"imply", "top", "concat", "part", "mask1", "mask2"} ->
                    /\ Len(r) = Len(base) \/ s = <<>>
                    /\ \A i \in DOMAIN base :
                          Constrained(call.name, ArgsAt(call.name, call.args, i), base[i], r[i])

(***************************************************************************)
(* A table of product terms gives, output by output, the onset and the     *)
(* don't-care set that its type says, or nothing when the rows contradict  *)
(* each other or do not fit (BDD.cc:498-630).                              *)
(***************************************************************************)
Covers(pla, row, sopf, a) ==
    \A i \in DOMAIN row.cube :
        LET v == VarOfLev(InputLevel(i, sopf))
        IN  /\ row.cube[i] = "1" => v \in a
            /\ row.cube[i] = "0" => v \notin a
Says(pla, sopf, out, symbol, a) ==
    \E k \in DOMAIN pla.rows :
        pla.rows[k].outs[out] = symbol /\ Covers(pla, pla.rows[k], sopf, a)

PlaRight ==
    kind = "bddv" /\ call # NoCall /\ call.name = "pla" =>
        LET pla == call.args[1]
            is(out, symbol, a) == Says(pla, call.args[2], out, symbol, a)
            points == SUBSET {VarOfLev(l) : l \in 1..PlaVars(pla)}
            readable == \A k \in DOMAIN pla.rows : RowReadable(pla, pla.rows[k])
            only(out, a) == {symbol \in {"0", "1", "-"} : is(out, symbol, a)}
            accepted == \A out \in 1..pla.outputs, a \in points :
                CASE pla.type \in {"f", "fd"} -> TRUE
                  [] pla.type = "fr" -> ~({"0", "1"} \subseteq only(out, a))
                  [] pla.type = "fdr" -> Cardinality(only(out, a)) = 1
            result == Elements(call.result)
        IN  IF call.args[3] \/ ~readable \/ ~accepted THEN call.result = NoPla
            ELSE /\ Len(result) = 2 * pla.outputs
                 /\ \A out \in 1..pla.outputs, a \in points :
                      LET on == Holds(result[out], a)
                          dc == Holds(result[pla.outputs + out], a)
                          says == only(out, a)
                      IN  CASE pla.type = "f" -> on = ("1" \in says) /\ ~dc
                            [] pla.type = "fd" -> dc = ("-" \in says) /\ on = ("1" \in says /\ ~dc)
                            [] pla.type = "fr" -> on = ("1" \in says) /\ dc = (says \cap {"0", "1"} = {})
                            [] pla.type = "fdr" -> on = ("1" \in says) /\ dc = ("-" \in says)

(***************************************************************************)
(* The operations on vectors of ZBDDs do to every family what their names  *)
(* say, and finding an element, the last one and the top variable agree    *)
(* with the families (ZBDD.cc:553-784).                                    *)
(***************************************************************************)
FamilyPromised(name, args, f, i) ==
    CASE name = "offset" -> Z!OffSet(f, args[1])
      [] name = "onset" -> Z!OnSet(f, args[1])
      [] name = "onset0" -> Z!OnSet0(f, args[1])
      [] name = "change" -> Z!Change(f, args[1])
      [] name = "swap" -> {Exchanged(s, args[1], args[2]) : s \in f}
      [] name = "shift" -> {{VarOfLev(LevOfVar(v) + args[1]) : v \in x} : x \in f}
      [] name = "mask" -> IF i - 1 \in args[1]..(args[1] + args[2] - 1) THEN f ELSE {}
      [] name = "intersection" -> f \cap Families(args[1])[i]
      [] name = "union" -> f \cup Families(args[1])[i]
      [] name = "difference" -> f \ Families(args[1])[i]

FamiliesRight ==
    kind = "zbddv" /\ call # NoCall =>
        LET s == Families(value)
            used == {i \in DOMAIN s : s[i] # {}}
        IN  CASE call.name = "get" -> call.result = s[call.args[1] + 1]
              [] call.name = "last" -> call.result = Max({1} \cup used) - 1
              [] call.name = "top" ->
                    LevOfVar(call.result) =
                        Max({0} \cup {LevOfVar(v) : v \in UNION UNION {s[i] : i \in used}})
              [] call.name = "print" ->
                    call.result = {<<x, {i - 1 : i \in {j \in used : x \in s[j]}}>> :
                                        x \in UNION {s[i] : i \in used}}
              [] call.name \notin {"get", "last", "top", "print"} ->
                    Families(call.result) =
                        [i \in DOMAIN s |-> FamilyPromised(call.name, call.args, s[i], i)]

(***************************************************************************)
(* Whatever marks SetZSkip() has left and the cache has lost since, and    *)
(* wherever variables were made in between, the intersection of a family   *)
(* of many levels with a low one is the intersection (ZBDD.cc:942-1034).   *)
(***************************************************************************)
IntersecRight ==
    kind = "zbdd" /\ call # NoCall => call.result = value \cap call.args[1]

(***************************************************************************)
(* Whatever a program holds, a call returns what its name says of it:      *)
(* functions, vectors of functions or of families, tables of terms, and    *)
(* intersections that skip levels.  Nothing is said of a shift that finds  *)
(* in the cache the result of one from before a variable was made: the     *)
(* levels may have moved since, and bddnewvaroflev() leaves the cache as it*)
(* is (bddc.c:769-780).                                                    *)
(***************************************************************************)
StaleShift == call.name = "shift" /\ call.orders # {order}
CallsRight ==
    \/ StaleShift
    \/ FunctionsRight /\ VectorsRight /\ PlaRight /\ FamiliesRight /\ IntersecRight

(***************************************************************************)
(* What a program writes to a file is what any program reads from it, with *)
(* the variables of the same levels, wherever the nodes had been; no node  *)
(* is missed in the table of the import, and a file that ends early gives  *)
(* nothing (bddc.c:2507-2546,2844-3027, BDD.cc:356-496, ZBDD.cc:794-933).  *)
(***************************************************************************)
FilesRight ==
    /\ ~InPhase("internal error")
    /\ InPhase("over") /\ reading.ok =>
          LET moved == [i \in DOMAIN file.of |-> Moved(IsZ(kind), file.of[i], file.order)]
          IN  /\ reading.roots = moved
              /\ kind = "bddv" => Elements(Imported) = moved
              /\ kind = "zbddv" => \A i \in DOMAIN file.of : Families(Imported)[i] = moved[i]

(***************************************************************************)
(* An import keeps references to the roots it returns and to nothing else, *)
(* at whatever token the file ends and at whatever node memory runs out    *)
(* (bddc.c:2893-3024).                                                     *)
(***************************************************************************)
ImportBalanced == InPhase("over") => reading.held = Refs(IsZ(file.kind), reading.roots)
=============================================================================
