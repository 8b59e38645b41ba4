----------------------------- MODULE PathCounter -----------------------------
(***************************************************************************)
(* countFast() of PathCounter, by which setset::size() counts the sets of a*)
(* family, and the BigNumber it counts with: words of WordBits bits of     *)
(* data, the least first, whose top bit says that another word follows.    *)
(*                                                                         *)
(* Every node of a level keeps room for so many words, chosen when it is   *)
(* made, from the size of the numbers met until then; a number that        *)
(* outgrows it would be written over what lies behind.                     *)
(***************************************************************************)
EXTENDS DdSpecs, SequencesExt

CONSTANT WordBits  \* 63 in the code

MSB == 2 ^ WordBits

Data(p, k) == IF k \in DOMAIN p THEN p[k] % MSB ELSE 0
ValueOf(p) == FoldLeft(LAMBDA v, k : v + Data(p, k) * MSB ^ (k - 1), 0, [k \in DOMAIN p |-> k])

\* store() of a small number
Small(n) == IF n < MSB THEN <<n>> ELSE <<n, 1>>

\* add(): the last word may have got its top bit by a carry; a 1 follows then.
Add(p, q) ==
    LET len == Max({Len(p), Len(q)})
        carry[k \in 0..len] ==
            IF k = 0 THEN 0 ELSE (carry[k - 1] + Data(p, k) + Data(q, k)) \div MSB
        sum(k) == carry[k - 1] + Data(p, k) + Data(q, k)
        words == [k \in 1..len |-> IF k < len THEN (sum(k) % MSB) + MSB ELSE sum(k)]
    IN  IF carry[len] = 0 THEN words ELSE Append(words, 1)

(***************************************************************************)
(* c is the state of a count: nodes[i], the list of level i, newest first, *)
(* of entries [state, number, room]; the total; numberWords; `fits` says   *)
(* that no number was larger than its room.                                *)
(***************************************************************************)
StartCount(spec) ==
    LET at == GetRoot(spec)
        n == at[1]
        first == [state |-> at[2], number |-> Small(1), room |-> 1]
    IN  [level |-> Max({n, 0}),
         nodes |-> [i \in 1..Max({n, 0}) |-> IF i = n THEN <<first>> ELSE <<>>],
         total |-> Small(IF n < 0 THEN 1 ELSE 0),
         totalRoom |-> Max({n, 0}) \div WordBits + 1,
         words |-> 1, fits |-> TRUE]

\* The numbers of equal states are added to the first of them.
MergeNodes(c) ==
    LET list == c.nodes[c.level]
        first(k) == Min({l \in 1..k : list[l].state = list[k].state})
        sums == [k \in DOMAIN list |->
                    FoldLeft(LAMBDA p, l : IF l > k /\ first(l) = k THEN Add(p, list[l].number) ELSE p,
                             list[k].number, [l \in DOMAIN list |-> l])]
        firsts == {k \in DOMAIN list : first(k) = k}
        merged == {k \in firsts : \E l \in DOMAIN list : l # k /\ first(l) = k}
    IN  [c EXCEPT !.nodes[c.level] = [x \in 1..Cardinality(firsts) |->
                        LET k == SetToSortSeq(firsts, <)[x]
                        IN  [list[k] EXCEPT !.number = sums[k]]],
                  !.words = Max({@} \cup {Len(sums[k]) : k \in merged}),
                  !.fits = @ /\ \A k \in firsts : Len(sums[k]) <= list[k].room]

\* Mutation: there is no word to spare.
TightRoom(c, i, ii) == c.words + (IF ii < i - 1 THEN (i - ii) \div WordBits ELSE 0)

RoomFor(c, i, ii) == c.words + 1 + (IF ii < i - 1 THEN (i - ii) \div WordBits ELSE 0)

\* The two branches of a node lead to nodes of lower levels, or add its
\* number to the total; words is what MergeNodes has left.
CountBranch(spec, c, p, b) ==
    LET i == c.level
        at == GetChild(spec, p.state, i, b)
        room == RoomFor(c, i, at[1])
        total == Add(c.total, p.number)
    IN  CASE at[1] = 0 -> c
          [] at[1] < 0 -> [c EXCEPT !.total = total, !.fits = @ /\ Len(total) <= c.totalRoom]
          [] OTHER -> [c EXCEPT
                !.nodes[at[1]] = <<[state |-> at[2], number |-> p.number, room |-> room]>> \o @,
                !.fits = @ /\ Len(p.number) <= room]

CountLevel(spec, c) ==
    LET m == MergeNodes(c)
        counted == FoldLeft(LAMBDA r, p : CountBranch(spec, CountBranch(spec, r, p, 0), p, 1),
                            m, m.nodes[c.level])
    IN  [counted EXCEPT !.nodes[c.level] = <<>>, !.level = c.level - 1]
=============================================================================
