------------------------------ MODULE DdFiles ------------------------------
(***************************************************************************)
(* Diagrams in files: bddexport(), and the four programs that read what it *)
(* writes (import() of bddc.c for BDDs and ZBDDs, BDDV_Import(),           *)
(* ZBDDV_Import()).  A file has a header (the levels, the number of roots  *)
(* and that of nodes), a line for every node after those it points to, and *)
(* a line for every root.  Nodes are named by their addresses, edges by    *)
(* the node and whether they are inverted.  Reading is one step a line; a  *)
(* file may end within any line, and memory run out at any node.           *)
(***************************************************************************)
EXTENDS ZbddVectors, Bags

CONSTANTS
    Layouts,      \* where the nodes of a file were allocated: functions from 1, 2, ...
    MaxFileNodes  \* files of more nodes are not written

VARIABLES
    file,         \* what the last export wrote
    reading       \* the state of an import

(***************************************************************************)
(* The two kinds of diagrams.                                              *)
(***************************************************************************)
IsZ(kind) == kind \in {"zbdd", "zbddv"}
IsConst(z, f) == IF z THEN f \in {{}, {{}}} ELSE Constant(f)
TopVar(z, f) == IF z THEN Z!Top(f) ELSE Top(f)
Inverted(z, f) == IF z THEN {} \in f ELSE Neg(f)
Invert(z, f) == IF ~z THEN Not(f) ELSE IF {} \in f THEN f \ {{}} ELSE f \cup {{}}
Positive(z, f) == IF Inverted(z, f) THEN Invert(z, f) ELSE f
Branch0(z, f) == IF z THEN Z!OffSet(f, TopVar(z, f)) ELSE f[2]
Branch1(z, f) == IF z THEN Z!OnSet0(f, TopVar(z, f)) ELSE f[3]

\* getbddp(), getzbddp(), or the operations that the vectors' imports use.
Joined(kind, v, f0, f1) ==
    CASE IsZ(kind) -> Z!Change(f1, v) \cup f0
      [] kind = "bdd" -> Node(v, f0, f1)
      [] kind = "bddv" -> Choice(v, f0, f1)
-----------------------------------------------------------------------------
(***************************************************************************)
(* bddexport()                                                             *)
(***************************************************************************)
\* The nodes below the edge f that are not in seen, each after its branches.
RECURSIVE Listed(_, _, _)
Listed(z, f, seen) ==
    LET node == Positive(z, f)
    IN  IF IsConst(z, f) \/ Contains(seen, node) THEN seen
        ELSE Append(Listed(z, Branch1(z, node), Listed(z, Branch0(z, node), seen)), node)

AllListed(z, roots) == FoldLeft(LAMBDA seen, f : Listed(z, f, seen), <<>>, roots)

NoId == -1       \* bddnull in the table of an import
EdgeTo(z, nodes, layout, f) ==
    IF IsConst(z, f) THEN [id |-> NoId, inv |-> f \in {IF z THEN {{}} ELSE True}]
    ELSE [id |-> layout[CHOOSE k \in DOMAIN nodes : nodes[k] = Positive(z, f)],
          inv |-> Inverted(z, f)]

FileOf(z, roots, layout) ==
    LET nodes == AllListed(z, roots)
    IN  [levels |-> LET lev(i) == LevOfVar(TopVar(z, roots[i]))
                    IN  FoldLeft(LAMBDA m, i : IF lev(i) > m THEN lev(i) ELSE m, 0,
                                 [i \in DOMAIN roots |-> i]),
         nodes |-> [k \in DOMAIN nodes |->
                        [id |-> layout[k], level |-> LevOfVar(TopVar(z, nodes[k])),
                         lo |-> EdgeTo(z, nodes, layout, Positive(z, Branch0(z, nodes[k]))),
                         hi |-> EdgeTo(z, nodes, layout, Branch1(z, nodes[k]))]],
         roots |-> [i \in DOMAIN roots |-> EdgeTo(z, nodes, layout, roots[i])]]
-----------------------------------------------------------------------------
(***************************************************************************)
(* The table of an import, with open addressing: hash1 the identifiers,    *)
(* hash2 the diagrams.                                                     *)
(***************************************************************************)
HashSize(n) == CHOOSE m \in {2^k : k \in 0..MaxFileNodes} :
                    m >= 2 * n /\ \A j \in {2^k : k \in 0..MaxFileNodes} : j >= 2 * n => m <= j

\* IMPORTHASH of the identifier 2 * id, in a table of up to 256 entries.
Hash(id, size) == id % size

\* From the entry ix on, the first one that holds the identifier or nothing.
RECURSIVE Probe(_, _, _)

\* Mutation: the search does not go on at the start of the table.
ProbeToEnd(hash1, id, ix) ==
    IF hash1[ix] \in {id, NoId} \/ ix + 1 \notin DOMAIN hash1 THEN ix ELSE Probe(hash1, id, ix + 1)

Probe(hash1, id, ix) ==
    IF hash1[ix] \in {id, NoId} THEN ix ELSE Probe(hash1, id, (ix + 1) % Cardinality(DOMAIN hash1))
EntryOf(hash1, id) == Probe(hash1, id, Hash(id, Cardinality(DOMAIN hash1)))

\* The diagram at the end of an edge; an identifier that is not there ends the program.
Target(z, r, edge) ==
    LET f == r.hash2[EntryOf(r.hash1, edge.id)]
    IN  CASE edge.id = NoId -> (IF z THEN (IF edge.inv THEN {{}} ELSE {}) ELSE IF edge.inv THEN True ELSE False)
          [] OTHER -> IF edge.inv THEN Invert(z, f) ELSE f
Found(r, edge) == edge.id = NoId \/ r.hash1[EntryOf(r.hash1, edge.id)] = edge.id

\* The references of the import to nodes, in C counted by hand.
Refs(z, fs) ==
    FoldLeft(LAMBDA bag, f : IF IsConst(z, f) THEN bag ELSE bag (+) SetToBag({Positive(z, f)}),
             EmptyBag, fs)
Stored(r) == SetToSeq({ix \in DOMAIN r.hash1 : r.hash1[ix] # NoId})
TableRefs(z, r) == Refs(z, [k \in DOMAIN Stored(r) |-> r.hash2[Stored(r)[k]]])
-----------------------------------------------------------------------------
NoFile == [written |-> FALSE]
Idle == [phase |-> "idle"]
InPhase(p) == reading.phase = p
Nodes == file.content.nodes
Kept == <<active, file>>

\* What an import gives: nothing when it fails.
Failed(held) == [phase |-> "over", ok |-> FALSE, held |-> held, roots |-> <<>>]

\* bddexport()
Export(kind, roots) ==
    /\ InPhase("idle")
    /\ Len(AllListed(IsZ(kind), roots)) <= MaxFileNodes
    /\ \E layout \in Layouts :
          file' = [written |-> TRUE, kind |-> kind, of |-> roots, order |-> order,
                   content |-> FileOf(IsZ(kind), roots, layout)]
    /\ UNCHANGED <<order, active, reading>>

\* Variables are made for levels that are missing.
RECURSIVE Enough(_, _)
Enough(vars, levels) ==
    LET top == Len(vars) - (IF active THEN SysVars ELSE 0)
    IN  IF top >= levels THEN vars ELSE Enough(WithNewVar(vars, top + 1), levels)

\* The header, and a table for the nodes.
ReadHeader ==
    /\ InPhase("idle") /\ file.written
    /\ order' = Enough(order, file.content.levels)
    /\ LET entries == 0..(HashSize(Len(Nodes)) - 1)
       IN  reading' = [phase |-> "nodes", at |-> 1, line |-> <<>>, held |-> EmptyBag, roots |-> <<>>,
                       hash1 |-> [ix \in entries |-> NoId], hash2 |-> [ix \in entries |-> <<>>]]
    /\ UNCHANGED Kept

\* The file ends in the header: after the levels, or before.
HeaderEnds ==
    /\ InPhase("idle") /\ file.written
    /\ order' \in {order, Enough(order, file.content.levels)}
    /\ reading' = Failed(EmptyBag)
    /\ UNCHANGED Kept

AtNode == InPhase("nodes") /\ reading.at <= Len(Nodes)
AtRoots == InPhase("nodes") /\ reading.at > Len(Nodes)

\* An edge to a node that is not in the table ends the program.
Follow(edge, read) ==
    reading' = IF Found(reading, edge) THEN read ELSE [phase |-> "internal error"]

\* The branches of a node, with a reference to each.
ReadBranch ==
    LET z == IsZ(file.kind)
        node == Nodes[reading.at]
        edge == IF reading.line = <<>> THEN node.lo ELSE node.hi
        f == Target(z, reading, edge)
    IN  /\ AtNode /\ Len(reading.line) < 2
        /\ Follow(edge, [reading EXCEPT !.line = Append(@, f), !.held = @ (+) Refs(z, <<f>>)])
        /\ UNCHANGED <<order, Kept>>

\* The node takes the references of its branches over.
MakeNode ==
    LET z == IsZ(file.kind)
        node == Nodes[reading.at]
        f == Joined(file.kind, VarOfLev(node.level), reading.line[1], reading.line[2])
        ix == EntryOf(reading.hash1, node.id)
    IN  /\ AtNode /\ Len(reading.line) = 2
        /\ reading' = [reading EXCEPT
                !.at = @ + 1,
                !.line = <<>>,
                !.hash1[ix] = node.id,
                !.hash2[ix] = f,
                !.held = (@ (-) Refs(z, reading.line)) (+) Refs(z, <<f>>)]
        /\ UNCHANGED <<order, Kept>>

\* The references that are given back when the program stops at a node.
\* Mutation: the 0-branch is forgotten when the file ends before the 1-branch.
GivenBackWhole(line) == IF Len(line) = 2 THEN line ELSE <<>>
GivenBack(line) == line

\* The references of the table.
Cleared(z, held) == held (-) TableRefs(z, reading)

\* The file ends within the line, or there is no memory for the node.
NodeEnds ==
    LET z == IsZ(file.kind)
    IN  /\ AtNode
        /\ reading' = Failed(Cleared(z, reading.held (-) Refs(z, GivenBack(reading.line))))
        /\ UNCHANGED <<order, Kept>>

ReadRoot ==
    LET z == IsZ(file.kind)
        edge == file.content.roots[Len(reading.roots) + 1]
        f == Target(z, reading, edge)
    IN  /\ AtRoots /\ Len(reading.roots) < Len(file.of)
        /\ Follow(edge, [reading EXCEPT !.roots = Append(@, f), !.held = @ (+) Refs(z, <<f>>)])
        /\ UNCHANGED <<order, Kept>>

\* The file ends before a root: those read are given back.
RootEnds ==
    LET z == IsZ(file.kind)
    IN  /\ AtRoots /\ Len(reading.roots) < Len(file.of)
        /\ reading' = Failed(Cleared(z, reading.held (-) Refs(z, reading.roots)))
        /\ UNCHANGED <<order, Kept>>

FinishImport ==
    /\ AtRoots /\ Len(reading.roots) = Len(file.of)
    /\ reading' = [phase |-> "over", ok |-> TRUE, roots |-> reading.roots,
                   held |-> Cleared(IsZ(file.kind), reading.held)]
    /\ UNCHANGED <<order, Kept>>
-----------------------------------------------------------------------------
\* The diagram f of a process with the variables there, in this one.
RECURSIVE Moved(_, _, _)
Moved(z, f, there) ==
    LET here(v) == VarOfLev(CHOOSE l \in DOMAIN there : there[l] = v)
    IN  CASE z -> {{here(v) : v \in s} : s \in f}
          [] ~z /\ Constant(f) -> f
          [] ~z /\ ~Constant(f) -> <<here(f[1]), Moved(z, f[2], there), Moved(z, f[3], there)>>
=============================================================================
