-------------------------- MODULE MCSapporoVectors --------------------------
(***************************************************************************)
(* All functions of three variables; vectors of up to seven elements, each *)
(* a function of two variables or a family over two; families over nine    *)
(* levels; files of up to five nodes, whose addresses collide in the table *)
(* of an import or do not.                                                 *)
(***************************************************************************)
EXTENDS SapporoVectors

Lit(v) == <<v, <<0>>, <<1>>>>

\* In a session with vectors the variables 1, 2 and 3 number the elements; 5 is below 4.
X == Lit(5)
XandNotY == <<4, Lit(5), <<0>>>>
Functions == {<<0>>, X, XandNotY}
SeqsOf(s, n) == UNION {[1..k -> s] : k \in 0..n}
LongVectors == {
    <<X, X, <<1>>, <<1>>, X>>, <<X, <<0>>, X, <<0>>, X, X>>,
    <<XandNotY, X, XandNotY, X, X, X, XandNotY>>}

Families2 == {{}, {{}, {4}}, {{4, 5}}}

\* Families with long 0-branches, over levels 1 to 9.
Chain(s) == {{v} : v \in s}
HighFamilies == {
    Chain(1..9), Chain({9, 8, 7, 6, 5}) \cup {{}}, Chain({2, 7, 9}), {{9}, {8, 1}, {7, 2}, {6}, {1}, {}},
    {{9, 8}, {9, 3}, {8, 1}, {5, 2}, {2, 1}, {3}}, SUBSET {9, 5, 2}}
LowFamilies == {{}, {{}}, {{1}, {}}, {{2, 1}, {2}}, {{3}, {1}}, {{9}, {2}, {}}, {{6}, {5}, {2}}, {{4}}}

MCSessions == {
    [kind |-> "bdd", active |-> FALSE, order |-> <<1, 2, 3>>, elements |-> {}],
    [kind |-> "bddv", active |-> TRUE, order |-> <<5, 4, 1, 2, 3>>,
     elements |-> SeqsOf(Functions, 4) \cup LongVectors],
    [kind |-> "zbddv", active |-> TRUE, order |-> <<5, 4, 1, 2, 3>>, elements |-> SeqsOf(Families2, 4)],
    [kind |-> "zbdd", active |-> FALSE, order |-> <<1, 2, 3, 4, 5, 6, 7, 8, 9>>,
     elements |-> HighFamilies]}

MCOthers == [
    bdd |-> {<<0>>, <<1>>, Lit(1), Lit(3), <<2, <<1>>, <<0>>>>, <<3, Lit(2), <<1>>>>,
             <<3, <<2, Lit(1), <<1>>>>, <<1>>>>, <<3, <<2, <<0>>, Lit(1)>>, <<0>>>>,
             <<3, Lit(1), <<1, <<1>>, <<0>>>>>>},
    bddv |-> {<<X>>, <<X, <<1>>>>, <<XandNotY, XandNotY, <<0>>>>, <<X, <<0>>, XandNotY, <<1>>>>},
    zbddv |-> {<<{{4}}>>, <<{{}}, {}, {{4, 5}, {}}>>, <<{}, {{4}, {}}, {{5}}, {{}}, {}, {{4, 5}}>>},
    zbdd |-> LowFamilies \cup {{{9}, {8, 1}, {6}}}]

Cubes == [1..2 -> {"0", "1", "-"}]
Rows(m) == [cube : Cubes, outs : [1..m -> {"0", "1", "-", "~"}]]
MCTables ==
    {[inputs |-> 2, outputs |-> 1, type |-> t, rows |-> <<r1, r2>>] :
        t \in {"f", "fd", "fr", "fdr"}, r1 \in Rows(1), r2 \in {r \in Rows(1) : r.cube[1] # "0"}}
    \cup {[inputs |-> 2, outputs |-> 3, type |-> t, rows |-> <<[cube |-> <<"-", "1">>, outs |-> o]>>] :
        t \in {"f", "fd", "fr"}, o \in [1..3 -> {"0", "1", "-", "~"}]}
    \cup {[inputs |-> 2, outputs |-> 1, type |-> "fd", rows |-> <<[cube |-> <<"1">>, outs |-> <<"1">>]>>]}

MCNewOrders == {
    [active |-> FALSE, order |-> <<2, 1>>],
    [active |-> FALSE, order |-> <<3, 1, 2, 4>>],
    [active |-> TRUE, order |-> <<1, 2, 3>>],
    [active |-> TRUE, order |-> <<6, 4, 5, 1, 2, 3>>]}

MCMaxVars == [bdd |-> 4, bddv |-> 6, zbddv |-> 6, zbdd |-> 10]

\* Nodes one after the other; or far apart, colliding from the last entry on.
MCLayouts == {[k \in 1..9 |-> k], [k \in 1..9 |-> 16 * k + 15]}
=============================================================================
