---------------------------- MODULE RfcOverflow ----------------------------
(***************************************************************************)
(* The reference counts of SAPPORO (bddc.c).  A node keeps its count in a  *)
(* field of 16 bits.  The largest value of the field says that the rest of *)
(* the count is in RFCT, a hash table with linear probing that is made     *)
(* when first needed, never loses an entry and is enlarged by copying      *)
(* when it is half full.                                                   *)
(*                                                                         *)
(* The operations are atomic but for the loop that copies RFCT, of which   *)
(* each turn is a step.                                                    *)
(***************************************************************************)
EXTENDS Integers, FiniteSets

CONSTANTS
    Nodes,     \* the nodes, by their index in Node
    Top,       \* the largest value of the field, 0xFFFF
    Spc0,      \* B_RFCT_SPC0
    MaxCount   \* no node has more references than this

ASSUME RfcAssumption ==
    /\ Nodes \subseteq Nat
    /\ Top \in Nat \ {0}
    /\ Spc0 \in Nat \ {0}
    /\ MaxCount \in Nat

VARIABLES
    field,   \* the count in varrfc of each node
    table,   \* RFCT
    spc,     \* RFCT_Spc
    used,    \* RFCT_Used
    old,     \* oldRFCT, while it is copied
    oldSpc,  \* its size
    ix,      \* the next entry to copy
    pc       \* "ready", "copying", or "exited" when malloc() failed

vars == <<field, table, spc, used, old, oldSpc, ix, pc>>

Null == -1   \* bddnull, the index of no node
NoEntry == [nx |-> Null, rfc |-> 0]
Blank(size) == [k \in 0..(size - 1) |-> NoEntry]

Init ==
    /\ field = [n \in Nodes |-> 0]
    /\ table = Blank(0)
    /\ spc = 0
    /\ used = 0
    /\ old = Blank(0)
    /\ oldSpc = 0
    /\ ix = 0
    /\ pc = "ready"
-----------------------------------------------------------------------------
\* The i-th place where node n is looked for in a table of a given size.
Key(n, i, size) == (n + i) % size

\* The loops over nx2 end at the first place that is n's or free.
Stops(t, size, n, i) == t[Key(n, i, size)].nx \in {n, Null}
Probes(t, size, n) ==
    CHOOSE i \in 0..(size - 1) :
        /\ Stops(t, size, n, i)
        /\ \A j \in 0..(i - 1) : ~Stops(t, size, n, j)
Place(t, size, n) == Key(n, Probes(t, size, n), size)

\* The count of node n that its field and the tables stand for.
Entries ==
    {table[k] : k \in 0..(spc - 1)} \cup {old[k] : k \in ix..(oldSpc - 1)}
Beyond(n) == (CHOOSE e \in Entries : e.nx = n).rfc
Count(n) == IF field[n] < Top THEN field[n] ELSE Top + Beyond(n)

\* B_RFC_INC_NP without overflow.
IncField(n) ==
    /\ pc = "ready"
    /\ field[n] < Top - 1
    /\ field[n] < MaxCount
    /\ field' = [field EXCEPT ![n] = @ + 1]
    /\ UNCHANGED <<table, spc, used, old, oldSpc, ix, pc>>

\* Mutation: the entry of a count that fell below Top and rises again is not
\* used afresh.
IncEntryOnly(n) ==
    LET k == Place(table, spc, n)
    IN  /\ pc = "ready"
        /\ field[n] >= Top - 1
        /\ Count(n) < MaxCount
        /\ spc > 0
        /\ table[k].nx = n
        /\ field' = [field EXCEPT ![n] = Top]
        /\ table' = [table EXCEPT ![k].rfc = @ + 1]
        /\ UNCHANGED <<spc, used, old, oldSpc, ix, pc>>

\* rfc_inc_ovf() of a node that has an entry.
IncEntry(n) ==
    LET k == Place(table, spc, n)
    IN  /\ pc = "ready"
        /\ field[n] >= Top - 1
        /\ Count(n) < MaxCount
        /\ spc > 0
        /\ table[k].nx = n
        /\ field' = [field EXCEPT ![n] = Top]
        /\ table' = [table EXCEPT ![k].rfc = IF field[n] < Top THEN 0 ELSE @ + 1]
        /\ UNCHANGED <<spc, used, old, oldSpc, ix, pc>>

\* Mutation: the table may be filled.
HalfFullLate(size) == used' > size

\* When a new entry makes the table too full.
HalfFull(size) == 2 * used' >= size

\* rfc_inc_ovf() of a node that has none: it may make the table, and enlarge
\* it when that is done.
NewEntry(n) ==
    LET size == IF spc = 0 THEN Spc0 ELSE spc
        t == IF spc = 0 THEN Blank(Spc0) ELSE table
        k == Place(t, size, n)
        filled == [t EXCEPT ![k] = [nx |-> n, rfc |-> 0]]
    IN  /\ pc = "ready"
        /\ field[n] >= Top - 1
        /\ Count(n) < MaxCount
        /\ t[k].nx = Null
        /\ field' = [field EXCEPT ![n] = @ + 1]
        /\ used' = used + 1
        /\ ix' = 0
        /\ IF HalfFull(size)
           THEN /\ old' = filled
                /\ oldSpc' = size
                /\ spc' = 4 * size
                /\ table' = Blank(spc')
                /\ pc' = "copying"
           ELSE /\ table' = filled
                /\ spc' = size
                /\ UNCHANGED <<old, oldSpc, pc>>

\* Mutation: an entry is copied to the place its index says, taken or not.
CopiedTo(e) == Key(e.nx, 0, spc)

\* Where an entry of oldRFCT goes.
CopyTo(e) == Place(table, spc, e.nx)

\* A turn of the loop that copies oldRFCT; at the end it is freed.
Copy ==
    /\ pc = "copying"
    /\ ix < oldSpc
    /\ table' = IF old[ix].nx = Null THEN table
                ELSE [table EXCEPT ![CopyTo(old[ix])] = old[ix]]
    /\ ix' = ix + 1
    /\ UNCHANGED <<field, spc, used, old, oldSpc, pc>>

Copied ==
    /\ pc = "copying"
    /\ ix = oldSpc
    /\ old' = Blank(0)
    /\ oldSpc' = 0
    /\ ix' = 0
    /\ pc' = "ready"
    /\ UNCHANGED <<field, table, spc, used>>

\* B_RFC_DEC_NP without overflow.
DecField(n) ==
    /\ pc = "ready"
    /\ field[n] < Top
    /\ field[n] > 0
    /\ field' = [field EXCEPT ![n] = @ - 1]
    /\ UNCHANGED <<table, spc, used, old, oldSpc, ix, pc>>

\* Mutation: the rest of the count is taken below zero.
DecEntryOnly(n) ==
    LET k == Place(table, spc, n)
    IN  /\ pc = "ready"
        /\ field[n] >= Top
        /\ table[k].nx = n
        /\ table' = [table EXCEPT ![k].rfc = @ - 1]
        /\ UNCHANGED <<field, spc, used, old, oldSpc, ix, pc>>

\* rfc_dec_ovf(); a node without an entry would be left as it is.
DecEntry(n) ==
    LET k == Place(table, spc, n)
    IN  /\ pc = "ready"
        /\ field[n] >= Top
        /\ table[k].nx = n
        /\ IF table[k].rfc = 0
           THEN field' = [field EXCEPT ![n] = @ - 1] /\ UNCHANGED table
           ELSE table' = [table EXCEPT ![k].rfc = @ - 1] /\ UNCHANGED field
        /\ UNCHANGED <<spc, used, old, oldSpc, ix, pc>>

\* malloc() fails for RFCT, new or enlarged, and err() exits: what it leaves
\* behind is of no use to anyone.
OutOfMemory(n) ==
    /\ pc = "ready"
    /\ field[n] >= Top - 1
    /\ Count(n) < MaxCount
    /\ \/ spc = 0
       \/ spc > 0 /\ table[Place(table, spc, n)].nx = Null /\ 2 * (used + 1) >= spc
    /\ pc' = "exited"
    /\ UNCHANGED <<field, table, spc, used, old, oldSpc, ix>>

Next ==
    \/ \E n \in Nodes : \/ IncField(n)
                        \/ IncEntry(n)
                        \/ NewEntry(n)
                        \/ DecField(n)
                        \/ DecEntry(n)
                        \/ OutOfMemory(n)
    \/ Copy
    \/ Copied

Spec == Init /\ [][Next]_vars
-----------------------------------------------------------------------------
Entry == [nx : Nodes \cup {Null}, rfc : Nat]

(***************************************************************************)
(* Tables hold nodes or bddnull, and the field holds 0 to Top.             *)
(***************************************************************************)
TypeOK ==
    /\ field \in [Nodes -> 0..Top]
    /\ spc \in Nat /\ oldSpc \in Nat /\ used \in Nat /\ ix \in 0..oldSpc
    /\ table \in [0..(spc - 1) -> Entry]
    /\ old \in [0..(oldSpc - 1) -> Entry]
    /\ pc \in {"ready", "copying", "exited"}

(***************************************************************************)
(* Every probe ends: whatever node is looked for, the table has a free     *)
(* place when an operation begins, and while entries are copied.           *)
(***************************************************************************)
Free(t, size) == {k \in 0..(size - 1) : t[k].nx = Null}
ProbesEnd == spc > 0 => Free(table, spc) # {}

(***************************************************************************)
(* Every entry is found from its node: probing for the node of an entry    *)
(* ends at that entry, though entries have collided and moved; and every   *)
(* node whose field is full has an entry.                                  *)
(***************************************************************************)
FoundIn(t, size) == \A k \in 0..(size - 1) : t[k].nx # Null => Place(t, size, t[k].nx) = k
EntriesFound ==
    /\ FoundIn(table, spc)
    /\ \A n \in Nodes : field[n] = Top => \E e \in Entries : e.nx = n

(***************************************************************************)
(* The field and the tables together are an unbounded count for each node. *)
(***************************************************************************)
Counts == INSTANCE RefCounts WITH count <- [n \in Nodes |-> Count(n)]
CountsRight == Counts!Spec
=============================================================================
