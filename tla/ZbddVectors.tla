---------------------------- MODULE ZbddVectors ----------------------------
(***************************************************************************)
(* Vectors of families (ZBDDV) and the intersection that skips levels      *)
(* (ZBDD.h, ZBDD.cc).  A vector is one family: the system variables in a   *)
(* set are the bits of the index of the element the rest of it belongs to. *)
(***************************************************************************)
EXTENDS BddVectors

Z == INSTANCE ZbddAlgorithms WITH Level <- LevOfVar

\* The bits of an index, as variables.
BitVars(index) == {b \in 1..SysVars : (index \div 2^(b - 1)) % 2 = 1}
IsSystem(v) == LevOfVar(v) > TopLev

\* ZBDDV(f, location)
Located(f, location) == {s \cup BitVars(location) : s \in f}

\* operator<< and operator>> of ZBDD: as for BDDs; {{}} is taken out of a family
\* as a negation is.
RECURSIVE ShiftFamily(_, _, _)
ShiftFamily(f, s, cache) ==
    LET g == f \ {{}}
        t == Z!Top(g)
        f0 == ShiftFamily(Z!OffSet(g, t), s, cache)
        f1 == ShiftFamily(Z!OnSet0(g, t), s, f0.cache)
        new == Remembered(g, s, f0.result \cup {x \cup {VarOfLev(LevOfVar(t) + s)} : x \in f1.result},
                          {order} \cup f0.orders \cup f1.orders, f1.cache)
        r == IF <<g, s>> \in DOMAIN cache
             THEN Shifted(cache[<<g, s>>].result, cache[<<g, s>>].orders, cache)
             ELSE new
    IN  IF g = {} \/ s = 0 THEN Shifted(f, {order}, cache)
        ELSE Shifted(r.result \cup (f \cap {{}}), r.orders, r.cache)

\* The greatest index whose element is not empty.
RECURSIVE LastIndex(_), ZShift(_, _, _), ZTop(_), Bits(_, _, _), BelowIndex(_, _)
LastIndex(f) ==
    LET t == Z!Top(f)
    IN  IF IsSystem(t) THEN 2^(t - 1) + LastIndex(Z!OnSet0(f, t)) ELSE 0

\* GetZBDD(): bits above those of the index are 0.
BelowIndex(f, bits) ==
    IF LevOfVar(Z!Top(f)) > TopLev + bits THEN BelowIndex(Z!OffSet(f, Z!Top(f)), bits) ELSE f
Bits(f, index, bits) ==
    IF bits = 0 THEN f
    ELSE Bits(IF bits \in BitVars(index) THEN Z!OnSet0(f, bits) ELSE Z!OffSet(f, bits),
              index, bits - 1)
BitsOf(index) == CHOOSE l \in 0..SysVars : 2^l > index /\ (l > 0 => 2^(l - 1) <= index)

GetZBDD(f, index) == Bits(BelowIndex(f, BitsOf(index)), index, BitsOf(index))

Mask(f, start, len) == UNION {Located(GetZBDD(f, i), i) : i \in start..(start + len - 1)}

\* operator<<: the last element is moved over, one after the other.
ZShift(f, s, cache) ==
    LET last == LastIndex(f)
        here == ShiftFamily(GetZBDD(f, last), s, cache)
        rest == ZShift(f \ Mask(f, last, 1), s, here.cache)
    IN  IF f = {} THEN Shifted({}, {order}, cache)
        ELSE Shifted(Located(here.result, last) \cup rest.result, here.orders \cup rest.orders, rest.cache)

ZTop(f) ==
    LET last == LastIndex(f)
        t == Z!Top(GetZBDD(f, last))
        below == ZTop(f \ Mask(f, last, 1))
    IN  CASE f = {} -> 0
          [] OTHER -> IF LevOfVar(below) > LevOfVar(t) THEN below ELSE t

\* PrintPla(): the rows <<set, outputs>> of the sets that are in an element.
RECURSIVE PlaRows(_, _, _)
PlaRows(f, level, len) ==
    LET v == VarOfLev(level)
    IN  CASE f = {} -> {}
          [] f # {} /\ level = 0 -> {<<{}, {i \in 0..(len - 1) : GetZBDD(f, i) # {}}>>}
          [] OTHER -> {<<row[1] \cup {v}, row[2]>> : row \in PlaRows(Z!OnSet0(f, v), level - 1, len)}
                         \cup PlaRows(Z!OffSet(f, v), level - 1, len)
PrintedPla(f) == PlaRows(f, LevOfVar(ZTop(f)), LastIndex(f) + 1)

\* What vectors are for: sequences of families, {} from some index on.
Families(f) == [i \in 1..2^SysVars |-> {s \ (1..SysVars) : s \in {x \in f : x \cap (1..SysVars) = BitVars(i - 1)}}]
-----------------------------------------------------------------------------
(***************************************************************************)
(* The intersection of a family of many levels with a low one follows the  *)
(* 0-branches down; SetZSkip() leaves marks in the cache that let it take  *)
(* several levels at once.  skips: the marks still in the cache.           *)
(***************************************************************************)
\* ZLevNum(), for levels below 16.
ZLevNum(n) == n - 4

\* The loop of ZLev(): f where it stands, u the family it came from.
RECURSIVE Descended(_, _, _, _)

Descended(f, u, lev, skips) ==
    LET flev == LevOfVar(Z!Top(f))
        marked == /\ flev - lev >= 5
                  /\ ZLevNum(flev) >= lev
                  /\ f \in DOMAIN skips
                  /\ LevOfVar(Z!Top(skips[f])) >= lev
    IN  CASE flev <= lev -> [f |-> f, u |-> u]
          [] flev > lev /\ marked -> Descended(skips[f], u, lev, skips)
          [] OTHER -> Descended(Z!OffSet(f, Z!Top(f)), f, lev, skips)

ZLev(f, lev, last, skips) ==
    LET end == Descended(f, f \cap {{}}, lev, skips)
    IN  CASE lev <= 0 -> f \cap {{}}
          [] OTHER -> IF ~last \/ LevOfVar(Z!Top(end.f)) = lev THEN end.f ELSE end.u

RECURSIVE SetZSkip(_, _), Intersec(_, _, _)
SetZSkip(f, skips) ==
    LET t == Z!Top(f)
        f0 == Z!OffSet(f, t)
        below == SetZSkip(f0, skips)
        g == ZLev(f, ZLevNum(LevOfVar(t)), TRUE, below)
        mark == IF g = f THEN f0 ELSE g
    IN  IF LevOfVar(t) <= 4 \/ f \in DOMAIN skips THEN skips
        ELSE SetZSkip(Z!OnSet0(f, t),
                      [h \in DOMAIN below \cup {f} |-> IF h = f THEN mark ELSE below[h]])

Intersec(f, g, skips) ==
    LET ftop == Z!Top(f)
        gtop == Z!Top(g)
    IN  CASE g = {} -> {}
          [] g = {{}} \/ ftop = 0 -> f \cap g
          [] OTHER ->
                CASE LevOfVar(ftop) > LevOfVar(gtop) ->
                        Intersec(ZLev(f, LevOfVar(gtop), FALSE, skips), g, skips)
                  [] LevOfVar(ftop) < LevOfVar(gtop) -> Intersec(f, Z!OffSet(g, gtop), skips)
                  [] OTHER -> Z!Change(Intersec(Z!OnSet0(f, ftop), Z!OnSet0(g, ftop), skips), ftop)
                                \cup Intersec(Z!OffSet(f, ftop), Z!OffSet(g, ftop), skips)
=============================================================================
