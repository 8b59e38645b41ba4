------------------------- MODULE RfcOverflowProofs -------------------------
(***************************************************************************)
(* The reference counts with their overflow table are unbounded counts.    *)
(***************************************************************************)
EXTENDS RfcOverflow, FiniteSetTheorems, WellFoundedInduction, TLAPS

IsTable(t, size) == size \in Nat /\ t \in [0..(size - 1) -> Entry]

Occupied(t, size) == {k \in 0..(size - 1) : t[k].nx # Null}

\* The entries of oldRFCT that are still to be copied.
Left == {k \in ix..(oldSpc - 1) : old[k].nx # Null}

\* No free place lies between where a node is looked for first and its entry.
ChainsWhole(t, size) ==
    \A k \in 0..(size - 1) : t[k].nx # Null =>
        \E i \in 0..(size - 1) :
            /\ Key(t[k].nx, i, size) = k
            /\ \A j \in 0..(i - 1) : t[Key(t[k].nx, j, size)].nx # Null

\* Each node has one entry at most.
Once(t, lo, hi) ==
    \A k, l \in lo..hi : t[k].nx # Null /\ t[k].nx = t[l].nx => k = l
Apart(t, size, o, lo, hi) ==
    \A k \in 0..(size - 1), l \in lo..hi : t[k].nx # Null => t[k].nx # o[l].nx

\* The table is less than half full, with the entries still to be copied.
Capacity ==
    /\ used = Cardinality(Occupied(table, spc)) + Cardinality(Left)
    /\ IF spc = 0 THEN used = 0 ELSE 2 * used < spc

Phases ==
    /\ pc # "copying" => oldSpc = 0
    /\ spc = 0 => oldSpc = 0

EveryoneFound == \A n \in Nodes : field[n] = Top => \E e \in Entries : e.nx = n

IInv ==
    /\ TypeOK
    /\ Phases
    /\ Capacity
    /\ ChainsWhole(table, spc)
    /\ Once(table, 0, spc - 1)
    /\ Once(old, ix, oldSpc - 1)
    /\ Apart(table, spc, old, ix, oldSpc - 1)
    /\ EveryoneFound
-----------------------------------------------------------------------------
(***************************************************************************)
(* Places.                                                                 *)
(***************************************************************************)
LEMMA Smallest ==
    ASSUME NEW S \in SUBSET Nat, S # {}
    PROVE  \E x \in S : \A y \in S : x <= y
<1> DEFINE R == OpToRel(<, Nat)
<1>1. IsWellFoundedOn(R, Nat)
    BY NatLessThanWellFounded, Zenon
<1>2. \A x, y \in Nat : y < x => <<y, x>> \in R
    BY DEF OpToRel
<1> HIDE DEF R
<1>3. PICK x \in S : \A y \in S : ~(<<y, x>> \in R)
    BY <1>1, WFMin
<1>4. \A y \in S : ~(y < x)
    BY <1>2, <1>3
<1> QED
    BY <1>4

LEMMA DivMod ==
    ASSUME NEW a \in Int, NEW size \in Nat \ {0}
    PROVE  \E q \in Int : a = size * q + (a % size)
<1>1. a = size * (a \div size) + (a % size)
    OBVIOUS
<1>2. a \div size \in Int
    OBVIOUS
<1> QED
    BY <1>1, <1>2

LEMMA NoMultiple ==
    ASSUME NEW size \in Nat \ {0}, NEW z \in Int, -size < size * z, size * z < size
    PROVE  z = 0
<1>1. ASSUME z >= 1 PROVE FALSE
  <2>1. size * z >= size BY <1>1
  <2> QED BY <2>1
<1>2. ASSUME z <= -1 PROVE FALSE
  <2>1. size * z <= -size BY <1>2
  <2> QED BY <2>1
<1> QED BY <1>1, <1>2

\* Places that are equal modulo the size are equal.
LEMMA SameResidue ==
    ASSUME NEW size \in Nat \ {0}, NEW r \in 0..(size - 1), NEW s \in 0..(size - 1),
           NEW p \in Int, NEW q \in Int, size * p + r = size * q + s
    PROVE  r = s
<1>1. size * (p - q) = s - r
    OBVIOUS
<1>2. p - q = 0
    BY <1>1, NoMultiple
<1> QED
    BY <1>1, <1>2

LEMMA KeyType ==
    ASSUME NEW n \in Nat, NEW i \in Nat, NEW size \in Nat \ {0}
    PROVE  Key(n, i, size) \in 0..(size - 1)
BY DEF Key

LEMMA KeyMod ==
    ASSUME NEW n \in Nat, NEW i \in Nat, NEW size \in Nat \ {0}
    PROVE  \E q \in Int : n + i = size * q + Key(n, i, size)
<1>1. n + i \in Int
    OBVIOUS
<1>2. \E q \in Int : n + i = size * q + ((n + i) % size)
    BY <1>1, DivMod, Zenon
<1> QED
    BY <1>2, Zenon DEF Key

LEMMA KeyInjective ==
    ASSUME NEW n \in Nat, NEW size \in Nat \ {0}, NEW i \in 0..(size - 1), NEW j \in 0..(size - 1),
           Key(n, i, size) = Key(n, j, size)
    PROVE  i = j
<1>0. i \in Nat /\ j \in Nat
    OBVIOUS
<1>1. PICK p \in Int : n + i = size * p + Key(n, i, size)
    BY <1>0, KeyMod, Zenon
<1>2. PICK q \in Int : n + j = size * q + Key(n, j, size)
    BY <1>0, KeyMod, Zenon
<1>3. Key(n, i, size) \in Int
    BY <1>0, KeyType
<1>4. size * q + i = size * p + j
    BY <1>1, <1>2, <1>3
<1> QED
    BY <1>4, SameResidue

LEMMA KeySurjective ==
    ASSUME NEW n \in Nat, NEW size \in Nat \ {0}, NEW k \in 0..(size - 1)
    PROVE  \E i \in 0..(size - 1) : Key(n, i, size) = k
<1> DEFINE i == (k - n) % size
<1>1. i \in 0..(size - 1)
    OBVIOUS
<1>2. PICK p \in Int : k - n = size * p + i
  <2>1. k - n \in Int
    OBVIOUS
  <2> QED
    BY <2>1, DivMod, Zenon
<1> HIDE DEF i
<1>3. PICK q \in Int : n + i = size * q + Key(n, i, size)
  <2>1. i \in Nat
    BY <1>1
  <2> QED
    BY <2>1, KeyMod, Zenon
<1>4. Key(n, i, size) \in 0..(size - 1)
    BY <1>1, KeyType
<1>5. size * (-p) + k = size * q + Key(n, i, size)
    BY <1>1, <1>2, <1>3, <1>4
<1>6. -p \in Int
    OBVIOUS
<1> QED
    BY <1>1, <1>4, <1>5, <1>6, SameResidue
-----------------------------------------------------------------------------
(***************************************************************************)
(* Tables.                                                                 *)
(***************************************************************************)
LEMMA EntryType ==
    ASSUME NEW t, NEW size, IsTable(t, size), NEW k \in 0..(size - 1)
    PROVE  /\ t[k] \in Entry
           /\ t[k].nx # Null => t[k].nx \in Nodes /\ t[k].nx \in Nat
           /\ t[k].rfc \in Nat
<1>1. t[k] \in Entry
    BY DEF IsTable
<1> QED
    BY <1>1, RfcAssumption DEF Entry

LEMMA ProbeStops ==
    ASSUME NEW t, NEW size \in Nat \ {0}, IsTable(t, size), NEW n \in Nat,
           Free(t, size) # {}
    PROVE  /\ Probes(t, size, n) \in 0..(size - 1)
           /\ Stops(t, size, n, Probes(t, size, n))
           /\ \A j \in 0..(Probes(t, size, n) - 1) : ~Stops(t, size, n, j)
<1> DEFINE S == {i \in 0..(size - 1) : Stops(t, size, n, i)}
<1>1. S # {}
  <2>1. PICK k \in 0..(size - 1) : t[k].nx = Null
    BY DEF Free
  <2>2. PICK i \in 0..(size - 1) : Key(n, i, size) = k
    BY KeySurjective
  <2> QED
    BY <2>1, <2>2 DEF Stops
<1>2. PICK i \in S : \A y \in S : i <= y
  <2>1. S \in SUBSET Nat
    OBVIOUS
  <2> QED
    BY <1>1, <2>1, Smallest
<1>3. \A j \in 0..(i - 1) : ~Stops(t, size, n, j)
    BY <1>2
<1>4. \E x \in 0..(size - 1) :
          Stops(t, size, n, x) /\ \A j \in 0..(x - 1) : ~Stops(t, size, n, j)
    BY <1>3
<1> QED
    BY <1>4 DEF Probes

\* Probing ends at the node's entry or at a free place.
LEMMA PlaceStops ==
    ASSUME NEW t, NEW size \in Nat \ {0}, IsTable(t, size), NEW n \in Nat,
           Free(t, size) # {}
    PROVE  /\ Place(t, size, n) \in 0..(size - 1)
           /\ t[Place(t, size, n)].nx \in {n, Null}
<1>1. /\ Probes(t, size, n) \in 0..(size - 1)
      /\ Stops(t, size, n, Probes(t, size, n))
    BY ProbeStops
<1>2. Probes(t, size, n) \in Nat
    BY <1>1
<1> QED
    BY <1>1, <1>2, KeyType DEF Place, Stops

\* A node that has an entry is found.
LEMMA PlaceFinds ==
    ASSUME NEW t, NEW size \in Nat \ {0}, IsTable(t, size),
           ChainsWhole(t, size), Once(t, 0, size - 1),
           NEW k \in 0..(size - 1), NEW n \in Nat, t[k].nx = n
    PROVE  Place(t, size, n) = k
<1>0. n # Null
    BY DEF Null
<1>1. PICK i \in 0..(size - 1) :
          /\ Key(n, i, size) = k
          /\ \A j \in 0..(i - 1) : t[Key(n, j, size)].nx # Null
    BY <1>0 DEF ChainsWhole
<1>2. Stops(t, size, n, i)
    BY <1>1 DEF Stops
<1>3. \A j \in 0..(i - 1) : ~Stops(t, size, n, j)
  <2> SUFFICES ASSUME NEW j \in 0..(i - 1), t[Key(n, j, size)].nx = n
               PROVE  FALSE
    BY <1>1 DEF Stops
  <2>1. j \in Nat /\ j \in 0..(size - 1) /\ j # i
    OBVIOUS
  <2>2. Key(n, j, size) \in 0..(size - 1)
    BY <2>1, KeyType
  <2>3. Key(n, j, size) = k
    BY <1>0, <2>2 DEF Once
  <2> QED
    BY <1>1, <2>1, <2>3, KeyInjective
<1>4. Probes(t, size, n) = i
  <2> DEFINE P(x) == Stops(t, size, n, x) /\ \A j \in 0..(x - 1) : ~Stops(t, size, n, j)
  <2>1. P(i)
    BY <1>2, <1>3
  <2>2. ASSUME NEW x \in 0..(size - 1), P(x) PROVE x = i
    BY <2>2, <1>2, <1>3
  <2>3. Probes(t, size, n) = CHOOSE x \in 0..(size - 1) : P(x)
    BY DEF Probes
  <2> HIDE DEF P
  <2> QED
    BY <2>1, <2>2, <2>3
<1> QED
    BY <1>1, <1>4 DEF Place

LEMMA OccupiedFinite ==
    ASSUME NEW t, NEW size \in Nat
    PROVE  IsFiniteSet(Occupied(t, size)) /\ Cardinality(Occupied(t, size)) \in Nat
<1>1. IsFiniteSet(0..(size - 1))
    BY FS_Interval
<1>2. Occupied(t, size) \in SUBSET (0..(size - 1))
    BY DEF Occupied
<1> QED
    BY <1>1, <1>2, FS_Subset, FS_CardinalityType

\* A table with fewer entries than places has a free one.
LEMMA RoomIsFree ==
    ASSUME NEW t, NEW size \in Nat \ {0}, Cardinality(Occupied(t, size)) < size
    PROVE  Free(t, size) # {}
<1> SUFFICES ASSUME Free(t, size) = {} PROVE FALSE
    OBVIOUS
<1>1. Occupied(t, size) = 0..(size - 1)
    BY DEF Free, Occupied
<1>2. Cardinality(0..(size - 1)) = size
    BY FS_Interval
<1> QED
    BY <1>1, <1>2

\* An entry put where the probing for its node ends keeps the table in order.
LEMMA PlaceFills ==
    ASSUME NEW t, NEW size \in Nat \ {0}, IsTable(t, size),
           ChainsWhole(t, size), Once(t, 0, size - 1), Free(t, size) # {},
           NEW e \in Entry, e.nx \in Nat,
           \A l \in 0..(size - 1) : t[l].nx # e.nx,
           NEW u, u = [t EXCEPT ![Place(t, size, e.nx)] = e]
    PROVE  /\ IsTable(u, size)
           /\ ChainsWhole(u, size)
           /\ Once(u, 0, size - 1)
           /\ Place(t, size, e.nx) \in 0..(size - 1)
           /\ t[Place(t, size, e.nx)].nx = Null
           /\ Cardinality(Occupied(u, size)) = Cardinality(Occupied(t, size)) + 1
<1> DEFINE n == e.nx
           k == Place(t, size, n)
<1>1. k \in 0..(size - 1) /\ t[k].nx = Null
    BY PlaceStops
<1>2. n # Null
    BY DEF Null
<1>3. IsTable(u, size)
    BY <1>1 DEF IsTable
<1>4. u[k] = e /\ \A l \in 0..(size - 1) : l # k => u[l] = t[l]
    BY <1>1 DEF IsTable
<1>5. ChainsWhole(u, size)
  <2> SUFFICES ASSUME NEW l \in 0..(size - 1), u[l].nx # Null
               PROVE  \E i \in 0..(size - 1) :
                          /\ Key(u[l].nx, i, size) = l
                          /\ \A j \in 0..(i - 1) : u[Key(u[l].nx, j, size)].nx # Null
    BY DEF ChainsWhole
  <2>0. u[l].nx \in Nat
    BY <1>3, EntryType
  <2>1. \A m \in 0..(size - 1) : t[m].nx # Null => u[m].nx # Null
    BY <1>2, <1>4
  <2>2. CASE l = k
    <3>1. /\ Probes(t, size, n) \in 0..(size - 1)
          /\ \A j \in 0..(Probes(t, size, n) - 1) : ~Stops(t, size, n, j)
      BY ProbeStops
    <3>2. Key(n, Probes(t, size, n), size) = k
      BY DEF Place
    <3>3. ASSUME NEW j \in 0..(Probes(t, size, n) - 1)
          PROVE  u[Key(n, j, size)].nx # Null
      <4>1. j \in Nat
        OBVIOUS
      <4>2. Key(n, j, size) \in 0..(size - 1)
        BY <4>1, KeyType
      <4>3. t[Key(n, j, size)].nx # Null
        BY <3>1, <3>3 DEF Stops
      <4> QED
        BY <2>1, <4>2, <4>3
    <3>4. u[l].nx = n
      BY <2>2, <1>4
    <3> QED
      BY <2>2, <3>1, <3>2, <3>3, <3>4
  <2>3. CASE l # k
    <3>1. u[l] = t[l]
      BY <2>3, <1>4
    <3>2. PICK i \in 0..(size - 1) :
              /\ Key(t[l].nx, i, size) = l
              /\ \A j \in 0..(i - 1) : t[Key(t[l].nx, j, size)].nx # Null
      BY <3>1 DEF ChainsWhole
    <3>3. ASSUME NEW j \in 0..(i - 1)
          PROVE  u[Key(u[l].nx, j, size)].nx # Null
      <4>1. j \in Nat
        OBVIOUS
      <4>2. Key(u[l].nx, j, size) \in 0..(size - 1)
        BY <2>0, <4>1, KeyType
      <4> QED
        BY <2>1, <3>1, <3>2, <4>2
    <3> QED
      BY <3>1, <3>2, <3>3
  <2> QED
    BY <2>2, <2>3
<1>6. Once(u, 0, size - 1)
    BY <1>1, <1>2, <1>4 DEF Once
<1>7. Occupied(u, size) = Occupied(t, size) \cup {k} /\ k \notin Occupied(t, size)
    BY <1>1, <1>2, <1>4 DEF Occupied
<1>8. Cardinality(Occupied(u, size)) = Cardinality(Occupied(t, size)) + 1
    BY <1>7, OccupiedFinite, FS_AddElement
<1> QED
    BY <1>1, <1>3, <1>5, <1>6, <1>8

\* A new table has no entry.
LEMMA BlankTable ==
    ASSUME NEW size \in Nat
    PROVE  /\ IsTable(Blank(size), size)
           /\ ChainsWhole(Blank(size), size)
           /\ Once(Blank(size), 0, size - 1)
           /\ Occupied(Blank(size), size) = {}
           /\ Cardinality(Occupied(Blank(size), size)) = 0
<1>1. NoEntry \in Entry /\ NoEntry.nx = Null
    BY DEF NoEntry, Entry
<1>2. IsTable(Blank(size), size)
    BY <1>1 DEF IsTable, Blank
<1>3. \A k \in 0..(size - 1) : Blank(size)[k].nx = Null
    BY <1>1 DEF Blank
<1>4. Occupied(Blank(size), size) = {}
    BY <1>3 DEF Occupied
<1> QED
    BY <1>2, <1>3, <1>4, FS_EmptySet DEF ChainsWhole, Once

\* What only rewrites counts leaves the nodes of a table where they are.
LEMMA SameNodes ==
    ASSUME NEW t, NEW u, NEW size \in Nat,
           \A k \in 0..(size - 1) : u[k].nx = t[k].nx,
           IsTable(u, size), ChainsWhole(t, size), Once(t, 0, size - 1)
    PROVE  /\ ChainsWhole(u, size)
           /\ Once(u, 0, size - 1)
           /\ Occupied(u, size) = Occupied(t, size)
<1>1. ChainsWhole(u, size)
  <2> SUFFICES ASSUME NEW l \in 0..(size - 1), u[l].nx # Null
               PROVE  \E i \in 0..(size - 1) :
                          /\ Key(u[l].nx, i, size) = l
                          /\ \A j \in 0..(i - 1) : u[Key(u[l].nx, j, size)].nx # Null
    BY DEF ChainsWhole
  <2>1. u[l].nx \in Nat /\ size \in Nat \ {0}
    BY EntryType
  <2>2. PICK i \in 0..(size - 1) :
            /\ Key(t[l].nx, i, size) = l
            /\ \A j \in 0..(i - 1) : t[Key(t[l].nx, j, size)].nx # Null
    BY DEF ChainsWhole
  <2>3. ASSUME NEW j \in 0..(i - 1) PROVE Key(u[l].nx, j, size) \in 0..(size - 1)
    <3>1. j \in Nat
      OBVIOUS
    <3> QED
      BY <2>1, <3>1, KeyType
  <2> QED
    BY <2>2, <2>3
<1>2. Once(u, 0, size - 1)
    BY DEF Once
<1>3. Occupied(u, size) = Occupied(t, size)
    BY DEF Occupied
<1> QED
    BY <1>1, <1>2, <1>3
-----------------------------------------------------------------------------
(***************************************************************************)
(* Counts.                                                                 *)
(***************************************************************************)
Unique(E) == \A e, f \in E : e.nx # Null /\ e.nx = f.nx => e = f

\* The count that fields f and entries E give node n.
CountIn(f, E, n) == IF f[n] < Top THEN f[n] ELSE Top + (CHOOSE e \in E : e.nx = n).rfc

LEMMA CountIsCountIn ==
    ASSUME NEW n
    PROVE  Count(n) = CountIn(field, Entries, n)
BY DEF Count, CountIn, Beyond

LEMMA OverflowedCount ==
    ASSUME NEW f, NEW E, Unique(E), NEW n \in Nodes, f[n] = Top,
           NEW e \in E, e.nx = n
    PROVE  CountIn(f, E, n) = Top + e.rfc
<1>1. n # Null
    BY RfcAssumption DEF Null
<1>2. (CHOOSE x \in E : x.nx = n) = e
    BY <1>1 DEF Unique
<1>3. ~(f[n] < Top)
    BY RfcAssumption
<1> QED
    BY <1>2, <1>3, Zenon DEF CountIn

\* A node whose field is the same and whose entry, if the field is full, is
\* still there has the same count.
LEMMA CountKept ==
    ASSUME NEW f, NEW g, NEW E, NEW F, Unique(E), Unique(F), NEW n \in Nodes,
           f[n] \in 0..Top, g[n] = f[n],
           f[n] = Top => \E e \in E : e.nx = n /\ e \in F
    PROVE  CountIn(g, F, n) = CountIn(f, E, n)
<1>1. CASE f[n] = Top
    BY <1>1, OverflowedCount
<1>2. CASE f[n] # Top
    BY <1>2, RfcAssumption DEF CountIn
<1> QED
    BY <1>1, <1>2

LEMMA TablesUnique ==
    ASSUME NEW t, NEW size, NEW o, NEW lo, NEW hi,
           Once(t, 0, size - 1), Once(o, lo, hi), Apart(t, size, o, lo, hi)
    PROVE  Unique({t[k] : k \in 0..(size - 1)} \cup {o[k] : k \in lo..hi})
BY DEF Once, Apart, Unique

LEMMA EntriesUnique == IInv => Unique(Entries)
BY TablesUnique DEF IInv, Entries

LEMMA EntriesStayUnique == IInv' => Unique(Entries')
<1>1. IInv' => Unique(Entries)'
    BY EntriesUnique, PTL
<1> QED
    BY <1>1

\* A node whose field and entry a step leaves has the same count after it.
LEMMA OthersKept ==
    ASSUME IInv, IInv', NEW m \in Nodes, field'[m] = field[m],
           \A e \in Entries : e.nx = m => e \in Entries'
    PROVE  Count(m)' = Count(m)
<1>1. PICK g, E, F : g = field' /\ E = Entries /\ F = Entries'
  OBVIOUS
<1>2. Unique(E) /\ Unique(F)
  BY <1>1, EntriesUnique, EntriesStayUnique
<1>3. field[m] \in 0..Top /\ g[m] = field[m]
  BY <1>1 DEF IInv, TypeOK
<1>4. field[m] = Top => \E e \in E : e.nx = m /\ e \in F
  BY <1>1 DEF IInv, EveryoneFound
<1>5. CountIn(g, F, m) = CountIn(field, E, m)
  BY <1>2, <1>3, <1>4, CountKept
<1>6. Count(m) = CountIn(field, E, m) /\ Count(m)' = CountIn(g, F, m)
  BY <1>1 DEF Count, CountIn, Beyond
<1> QED
  BY <1>5, <1>6

\* The table has room whenever it is there.
LEMMA Room ==
    ASSUME IInv, spc # 0
    PROVE  /\ spc \in Nat \ {0}
           /\ IsTable(table, spc)
           /\ Free(table, spc) # {}
<1>1. spc \in Nat \ {0} /\ IsTable(table, spc) /\ oldSpc \in Nat /\ ix \in 0..oldSpc
    BY DEF IInv, TypeOK, IsTable
<1>2. Cardinality(Left) \in Nat
  <2>1. IsFiniteSet(ix..(oldSpc - 1))
    BY <1>1, FS_Interval
  <2>2. Left \in SUBSET (ix..(oldSpc - 1))
    BY DEF Left
  <2> QED
    BY <2>1, <2>2, FS_Subset, FS_CardinalityType
<1>3. Cardinality(Occupied(table, spc)) < spc
    BY <1>1, <1>2, OccupiedFinite DEF IInv, Capacity
<1> QED
    BY <1>1, <1>3, RoomIsFree

\* What a step does to the counts of all nodes.
CountsKept == \A m \in Nodes : Count(m)' = Count(m)
CountsBut(n, c) == \A m \in Nodes : Count(m)' = IF m = n THEN c ELSE Count(m)

-----------------------------------------------------------------------------
(***************************************************************************)
(* Steps.                                                                  *)
(***************************************************************************)
LEMMA InitInv == Init => IInv
<1> SUFFICES ASSUME Init PROVE IInv
    OBVIOUS
<1>1. /\ IsTable(Blank(0), 0)
      /\ ChainsWhole(Blank(0), 0)
      /\ Once(Blank(0), 0, 0 - 1)
      /\ Cardinality(Occupied(Blank(0), 0)) = 0
    BY BlankTable
<1>2. TypeOK
    BY <1>1, RfcAssumption DEF Init, TypeOK, IsTable
<1>3. Left = {} /\ Cardinality(Left) = 0
    BY FS_EmptySet DEF Left, Init
<1>4. Capacity
    BY <1>1, <1>3 DEF Capacity, Init
<1>5. Apart(table, spc, old, ix, oldSpc - 1)
    BY DEF Apart, Init
<1>6. EveryoneFound
    BY RfcAssumption DEF EveryoneFound, Init
<1> QED
    BY <1>1, <1>2, <1>4, <1>5, <1>6 DEF IInv, Phases, Init

\* Steps that change a field on the near side of Top.
LEMMA FieldStep ==
    ASSUME IInv, NEW n \in Nodes, NEW c \in 0..(Top - 1), field[n] < Top,
           field' = [field EXCEPT ![n] = c],
           UNCHANGED <<table, spc, used, old, oldSpc, ix, pc>>
    PROVE  IInv' /\ CountsBut(n, c)
<1>1. Entries' = Entries /\ Left' = Left
    BY DEF Entries, Left
<1>2. TypeOK'
    BY RfcAssumption DEF IInv, TypeOK
<1>3. EveryoneFound'
    BY <1>1, RfcAssumption DEF IInv, EveryoneFound, TypeOK
<1>4. IInv'
    BY <1>1, <1>2, <1>3 DEF IInv, Phases, Capacity
<1>5. ASSUME NEW m \in Nodes
      PROVE  Count(m)' = IF m = n THEN c ELSE Count(m)
    BY <1>1, RfcAssumption DEF Count, Beyond, IInv, TypeOK
<1> QED
    BY <1>4, <1>5 DEF CountsBut

\* Steps that rewrite the rest of the count of a node with an entry.
LEMMA RestStep ==
    ASSUME IInv, NEW n \in Nodes, NEW k \in 0..(spc - 1), table[k].nx = n,
           NEW c \in 0..Top, NEW r \in Nat,
           field' = [field EXCEPT ![n] = c],
           table' = [table EXCEPT ![k].rfc = r],
           UNCHANGED <<spc, used, old, oldSpc, ix, pc>>
    PROVE  /\ IInv'
           /\ CountsBut(n, IF c < Top THEN c ELSE Top + r)
<1>0. IsTable(table, spc) /\ spc \in Nat
    BY DEF IInv, TypeOK, IsTable
<1>1. /\ table'[k] = [nx |-> n, rfc |-> r]
      /\ \A l \in 0..(spc - 1) : l # k => table'[l] = table[l]
    BY <1>0, EntryType DEF IsTable, Entry
<1>2. IsTable(table', spc)
    BY <1>0, <1>1 DEF IsTable, Entry
<1>3. \A l \in 0..(spc - 1) : table'[l].nx = table[l].nx
    BY <1>1
<1>4. /\ ChainsWhole(table', spc)
      /\ Once(table', 0, spc - 1)
      /\ Occupied(table', spc) = Occupied(table, spc)
  <2>1. ChainsWhole(table, spc) /\ Once(table, 0, spc - 1)
    BY DEF IInv
  <2>2. PICK u : u = table'
    OBVIOUS
  <2>3. /\ IsTable(u, spc)
        /\ \A l \in 0..(spc - 1) : u[l].nx = table[l].nx
    BY <1>2, <1>3, <2>2, Zenon
  <2>4. /\ ChainsWhole(u, spc)
        /\ Once(u, 0, spc - 1)
        /\ Occupied(u, spc) = Occupied(table, spc)
    BY ONLY <1>0, <2>1, <2>3, SameNodes
  <2> QED
    BY <2>2, <2>4
<1>5. TypeOK'
    BY <1>0, <1>2 DEF IInv, TypeOK, IsTable
<1>6. Left' = Left
    BY DEF Left
<1>7. Apart(table', spc, old, ix, oldSpc - 1)
    BY <1>3 DEF IInv, Apart
<1>8. ASSUME NEW e \in Entries, e.nx # n
      PROVE  e \in Entries'
    BY <1>1, <1>8 DEF Entries
<1>9. table'[k] \in Entries'
    BY <1>0 DEF Entries
<1>10. EveryoneFound'
  <2> SUFFICES ASSUME NEW m \in Nodes, field'[m] = Top
               PROVE  \E e \in Entries' : e.nx = m
    BY DEF EveryoneFound
  <2>1. CASE m = n
    BY <2>1, <1>1, <1>9
  <2>2. CASE m # n
    <3>1. field[m] = Top
      BY <2>2 DEF IInv, TypeOK
    <3> QED
      BY <2>2, <3>1, <1>8 DEF IInv, EveryoneFound
  <2> QED
    BY <2>1, <2>2
<1>11. IInv'
    BY <1>4, <1>5, <1>6, <1>7, <1>10 DEF IInv, Phases, Capacity
<1>12. Unique(Entries')
  BY <1>11, EntriesStayUnique
<1>13. ASSUME NEW m \in Nodes
       PROVE  Count(m)' = IF m = n THEN (IF c < Top THEN c ELSE Top + r) ELSE Count(m)
  <2>1. Count(m)' = CountIn(field', Entries', m)
    BY DEF Count, CountIn, Beyond
  <2>2. CASE m = n
    <3>1. field'[n] = c
      BY DEF IInv, TypeOK
    <3>2. CASE c = Top
      <4>0. table'[k].nx = n /\ table'[k].rfc = r
        BY <1>1
      <4>1. CountIn(field', Entries', n) = Top + r
        <5>1. PICK f, E, e : f = field' /\ E = Entries' /\ e = table'[k]
          OBVIOUS
        <5>2. Unique(E) /\ f[n] = Top /\ e \in E /\ e.nx = n /\ e.rfc = r
          BY <3>1, <3>2, <4>0, <1>9, <1>12, <5>1
        <5>3. CountIn(f, E, n) = Top + e.rfc
          BY <5>2, OverflowedCount
        <5> QED
          BY <5>1, <5>2, <5>3
      <4> QED
        BY <2>1, <2>2, <3>2, <4>1, RfcAssumption
    <3>3. CASE c # Top
      BY <2>1, <2>2, <3>1, <3>3, RfcAssumption DEF CountIn
    <3> QED
      BY <3>2, <3>3
  <2>3. CASE m # n
    <3>1. field'[m] = field[m]
      BY <2>3 DEF IInv, TypeOK
    <3>2. \A e \in Entries : e.nx = m => e \in Entries'
      BY <2>3, <1>8
    <3> QED
      BY <2>3, <3>1, <3>2, <1>11, OthersKept
  <2> QED
    BY <2>2, <2>3
<1> QED
    BY <1>11, <1>13 DEF CountsBut

LEMMA IncFieldStep ==
    ASSUME IInv, NEW n \in Nodes, IncField(n)
    PROVE  IInv' /\ CountsBut(n, Count(n) + 1)
<1>1. /\ field[n] < Top /\ field[n] + 1 \in 0..(Top - 1)
      /\ field' = [field EXCEPT ![n] = field[n] + 1]
      /\ UNCHANGED <<table, spc, used, old, oldSpc, ix, pc>>
    BY RfcAssumption DEF IInv, TypeOK, IncField
<1>2. Count(n) = field[n]
    BY <1>1 DEF Count
<1> QED
    BY <1>1, <1>2, FieldStep

LEMMA DecFieldStep ==
    ASSUME IInv, NEW n \in Nodes, DecField(n)
    PROVE  IInv' /\ CountsBut(n, Count(n) - 1) /\ Count(n) > 0
<1>1. /\ field[n] < Top /\ field[n] > 0 /\ field[n] - 1 \in 0..(Top - 1)
      /\ field' = [field EXCEPT ![n] = field[n] - 1]
      /\ UNCHANGED <<table, spc, used, old, oldSpc, ix, pc>>
    BY RfcAssumption DEF IInv, TypeOK, DecField
<1>2. Count(n) = field[n]
    BY <1>1 DEF Count
<1> QED
    BY <1>1, <1>2, FieldStep

\* The count of a node whose field is full.
LEMMA CountAt ==
    ASSUME IInv, NEW n \in Nodes, NEW k \in 0..(spc - 1), table[k].nx = n, field[n] = Top
    PROVE  Count(n) = Top + table[k].rfc
<1>1. table[k] \in Entries
    BY DEF Entries
<1>2. Unique(Entries)
    BY EntriesUnique
<1>3. CountIn(field, Entries, n) = Top + table[k].rfc
    BY <1>1, <1>2, OverflowedCount
<1> QED
    BY <1>3 DEF Count, CountIn, Beyond

LEMMA IncEntryStep ==
    ASSUME IInv, NEW n \in Nodes, IncEntry(n)
    PROVE  IInv' /\ CountsBut(n, Count(n) + 1)
<1> DEFINE k == Place(table, spc, n)
           r == IF field[n] < Top THEN 0 ELSE table[k].rfc + 1
<1>1. spc # 0 /\ n \in Nat
    BY RfcAssumption DEF IncEntry
<1>2. k \in 0..(spc - 1) /\ IsTable(table, spc)
    BY <1>1, Room, PlaceStops
<1>3. /\ table[k].nx = n
      /\ field[n] >= Top - 1
      /\ field' = [field EXCEPT ![n] = Top]
      /\ table' = [table EXCEPT ![k].rfc = IF field[n] < Top THEN 0 ELSE @ + 1]
      /\ UNCHANGED <<spc, used, old, oldSpc, ix, pc>>
    BY DEF IncEntry
<1> HIDE DEF k
<1>4. table' = [table EXCEPT ![k].rfc = r]
    BY <1>2, <1>3 DEF IsTable
<1>5. r \in Nat
    BY <1>2, EntryType
<1>6. field[n] \in 0..Top
    BY DEF IInv, TypeOK
<1>7. Top + r = Count(n) + 1
  <2>1. CASE field[n] < Top
    <3>1. Count(n) = field[n]
      BY <2>1 DEF Count
    <3> QED
      BY <2>1, <3>1, <1>3, <1>6, RfcAssumption
  <2>2. CASE field[n] = Top
    <3>1. Count(n) = Top + table[k].rfc
      BY <2>2, <1>2, <1>3, CountAt
    <3>2. table[k].rfc \in Nat
      BY <1>2, EntryType
    <3> QED
      BY <2>2, <3>1, <3>2, RfcAssumption
  <2> QED
    BY <2>1, <2>2, <1>6, RfcAssumption
<1>8. Top \in 0..Top /\ ~(Top < Top)
    BY RfcAssumption
<1> HIDE DEF r
<1>9. IInv' /\ CountsBut(n, IF Top < Top THEN Top ELSE Top + r)
    BY <1>2, <1>3, <1>4, <1>5, <1>8, RestStep
<1> QED
    BY <1>7, <1>8, <1>9

LEMMA DecEntryStep ==
    ASSUME IInv, NEW n \in Nodes, DecEntry(n)
    PROVE  IInv' /\ CountsBut(n, Count(n) - 1) /\ Count(n) > 0
<1> DEFINE k == Place(table, spc, n)
<1>1. /\ field[n] = Top
      /\ pc = "ready"
      /\ table[k].nx = n
      /\ IF table[k].rfc = 0
         THEN field' = [field EXCEPT ![n] = @ - 1] /\ UNCHANGED table
         ELSE table' = [table EXCEPT ![k].rfc = @ - 1] /\ UNCHANGED field
      /\ UNCHANGED <<spc, used, old, oldSpc, ix, pc>>
    BY RfcAssumption DEF DecEntry, IInv, TypeOK
<1>2. spc # 0
  <2>1. PICK e \in Entries : e.nx = n
    BY <1>1 DEF IInv, EveryoneFound
  <2>2. oldSpc = 0 /\ ix = 0
    BY <1>1 DEF IInv, Phases, TypeOK
  <2> QED
    BY <2>1, <2>2 DEF Entries
<1>3. n \in Nat
    BY RfcAssumption
<1>4. k \in 0..(spc - 1) /\ IsTable(table, spc)
    BY <1>2, <1>3, Room, PlaceStops
<1> HIDE DEF k
<1>5. Count(n) = Top + table[k].rfc
    BY <1>1, <1>4, CountAt
<1>6. table[k].rfc \in Nat
    BY <1>4, EntryType
<1>7. Count(n) > 0
    BY <1>5, <1>6, RfcAssumption
<1>8. CASE table[k].rfc = 0
  <2>1. field' = [field EXCEPT ![n] = Top - 1] /\ UNCHANGED table
    BY <1>1, <1>8
  <2>2. table' = [table EXCEPT ![k].rfc = 0]
    BY <2>1, <1>4, <1>8, EntryType DEF IsTable, Entry
  <2>3. PICK c, r : c = Top - 1 /\ r = 0
    OBVIOUS
  <2>4. c \in 0..Top /\ r \in Nat /\ c < Top /\ Count(n) - 1 = c
    BY <1>5, <1>8, <2>3, RfcAssumption
  <2>5. IInv' /\ CountsBut(n, IF c < Top THEN c ELSE Top + r)
    <3>1. field' = [field EXCEPT ![n] = c] /\ table' = [table EXCEPT ![k].rfc = r]
      BY <2>1, <2>2, <2>3
    <3> QED
      BY <1>1, <1>4, <2>4, <3>1, RestStep
  <2> QED
    BY <1>7, <2>4, <2>5
<1>9. CASE table[k].rfc # 0
  <2> DEFINE r == table[k].rfc - 1
  <2>1. table' = [table EXCEPT ![k].rfc = r] /\ UNCHANGED field
    BY <1>1, <1>4, <1>9 DEF IsTable
  <2>2. field' = [field EXCEPT ![n] = Top]
    BY <2>1, <1>1 DEF IInv, TypeOK
  <2>3. Top \in 0..Top /\ r \in Nat /\ ~(Top < Top)
    BY <1>6, <1>9, RfcAssumption
  <2>4. Count(n) - 1 = Top + r
    BY <1>5, <1>6, RfcAssumption
  <2> HIDE DEF r
  <2>5. IInv' /\ CountsBut(n, IF Top < Top THEN Top ELSE Top + r)
    BY <1>1, <1>4, <2>1, <2>2, <2>3, RestStep
  <2> QED
    BY <1>7, <2>3, <2>4, <2>5
<1> QED
    BY <1>8, <1>9

\* An entry for a node that had none: the table it is put in, and that table.
LEMMA NewEntryStep ==
    ASSUME IInv, NEW n \in Nodes, NewEntry(n)
    PROVE  IInv' /\ CountsBut(n, Count(n) + 1)
<1> DEFINE e == [nx |-> n, rfc |-> 0]
<1>1. PICK size, t, filled :
          /\ size = IF spc = 0 THEN Spc0 ELSE spc
          /\ t = IF spc = 0 THEN Blank(Spc0) ELSE table
          /\ filled = [t EXCEPT ![Place(t, size, n)] = e]
    OBVIOUS
<1>2. /\ pc = "ready"
      /\ field[n] >= Top - 1
      /\ t[Place(t, size, n)].nx = Null
      /\ field' = [field EXCEPT ![n] = @ + 1]
      /\ used' = used + 1
      /\ ix' = 0
      /\ IF 2 * used' >= size
         THEN /\ old' = filled
              /\ oldSpc' = size
              /\ spc' = 4 * size
              /\ table' = Blank(spc')
              /\ pc' = "copying"
         ELSE /\ table' = filled
              /\ spc' = size
              /\ UNCHANGED <<old, oldSpc, pc>>
    BY <1>1 DEF NewEntry, HalfFull
<1>3. oldSpc = 0 /\ ix = 0 /\ Left = {}
  <2>1. oldSpc = 0 /\ ix = 0
    BY <1>2 DEF IInv, Phases, TypeOK
  <2> QED
    BY <2>1 DEF Left
<1>4. Cardinality(Left) = 0
    BY <1>3, FS_EmptySet
<1>5. n \in Nat /\ n # Null /\ e \in Entry /\ e.nx = n /\ e.rfc = 0
    BY RfcAssumption DEF Null, Entry
<1> HIDE DEF e
<1>6. /\ size \in Nat \ {0}
      /\ IsTable(t, size)
      /\ ChainsWhole(t, size)
      /\ Once(t, 0, size - 1)
      /\ Cardinality(Occupied(t, size)) = used
      /\ 2 * used < size
      /\ used \in Nat
      /\ \A x \in Entries : \E l \in 0..(size - 1) : x = t[l]
  <2>1. CASE spc = 0
    <3>1. size = Spc0 /\ t = Blank(Spc0) /\ used = 0 /\ Spc0 \in Nat \ {0}
      BY <1>1, <2>1, RfcAssumption DEF IInv, Capacity
    <3>2. Entries = {}
      BY <2>1, <1>3 DEF Entries
    <3> QED
      BY <3>1, <3>2, BlankTable
  <2>2. CASE spc # 0
    <3>1. size = spc /\ t = table
      BY <1>1, <2>2
    <3>2. spc \in Nat \ {0} /\ IsTable(table, spc)
      BY <2>2, Room
    <3>3. Cardinality(Occupied(table, spc)) = used /\ 2 * used < spc
      BY <2>2, <3>2, <1>4, OccupiedFinite DEF IInv, Capacity
    <3>4. \A x \in Entries : \E l \in 0..(spc - 1) : x = table[l]
      BY <1>3 DEF Entries
    <3> QED
      BY <3>1, <3>2, <3>3, <3>4 DEF IInv, TypeOK
  <2> QED
    BY <2>1, <2>2
<1>7. Free(t, size) # {}
    BY <1>6, RoomIsFree
<1>8. \A l \in 0..(size - 1) : t[l].nx # n
    BY <1>2, <1>5, <1>6, PlaceFinds
<1>9. field[n] = Top - 1
    BY <1>2, <1>6, <1>8, RfcAssumption DEF IInv, TypeOK, EveryoneFound
<1>10. field' = [field EXCEPT ![n] = Top]
    BY <1>2, <1>9, RfcAssumption
<1> DEFINE k == Place(t, size, n)
<1>11. /\ IsTable(filled, size)
       /\ ChainsWhole(filled, size)
       /\ Once(filled, 0, size - 1)
       /\ k \in 0..(size - 1)
       /\ Cardinality(Occupied(filled, size)) = used + 1
    BY <1>1, <1>5, <1>6, <1>7, <1>8, PlaceFills
<1>12. filled[k] = e /\ \A l \in 0..(size - 1) : l # k => filled[l] = t[l]
    BY <1>1, <1>6, <1>11 DEF IsTable
<1>13. t[k].nx = Null
    BY <1>2
<1> HIDE DEF k
<1>14. \A x \in Entries : x.nx # Null => \E l \in 0..(size - 1) : x = filled[l]
    BY <1>6, <1>12, <1>13
<1>15. TypeOK' /\ Phases' /\ Capacity' /\ ChainsWhole(table', spc')
       /\ Once(table', 0, spc' - 1) /\ Once(old', ix', oldSpc' - 1)
       /\ Apart(table', spc', old', ix', oldSpc' - 1)
       /\ \A l \in 0..(size - 1) : filled[l] \in Entries'
  <2>0. field' \in [Nodes -> 0..Top]
    BY <1>10, RfcAssumption DEF IInv, TypeOK
  <2>1. CASE 2 * used' >= size
    <3>1. /\ old' = filled /\ oldSpc' = size /\ spc' = 4 * size
          /\ table' = Blank(4 * size) /\ pc' = "copying" /\ ix' = 0 /\ used' = used + 1
      BY <1>2, <2>1
    <3>2. 4 * size \in Nat /\ 4 * size # 0 /\ 2 * (used + 1) < 4 * size
      BY <1>6
    <3>3. /\ IsTable(table', spc')
          /\ ChainsWhole(table', spc')
          /\ Once(table', 0, spc' - 1)
          /\ Occupied(table', spc') = {}
          /\ Cardinality(Occupied(table', spc')) = 0
      BY <3>1, <3>2, BlankTable
    <3>4. Left' = Occupied(filled, size)
      BY <3>1 DEF Left, Occupied
    <3>5. Capacity'
      BY <3>1, <3>2, <3>3, <3>4, <1>6, <1>11 DEF Capacity
    <3>6. TypeOK' /\ Phases'
      BY <3>1, <3>2, <3>3, <2>0, <1>6, <1>11 DEF TypeOK, Phases, IsTable
    <3>7. Apart(table', spc', old', ix', oldSpc' - 1)
      BY <3>3 DEF Apart, Occupied
    <3>8. \A l \in 0..(size - 1) : filled[l] \in Entries'
      BY <3>1 DEF Entries
    <3> QED
      BY <3>1, <3>3, <3>5, <3>6, <3>7, <3>8, <1>11
  <2>2. CASE ~(2 * used' >= size)
    <3>1. /\ table' = filled /\ spc' = size /\ old' = old /\ oldSpc' = 0 /\ pc' = "ready"
          /\ ix' = 0 /\ used' = used + 1
      BY <1>2, <1>3, <2>2
    <3>2. Left' = {} /\ Cardinality(Left') = 0
      BY <3>1, FS_EmptySet DEF Left
    <3>3. Capacity'
      BY <3>1, <3>2, <2>2, <1>6, <1>11 DEF Capacity
    <3>4. TypeOK' /\ Phases'
      BY <3>1, <2>0, <1>3, <1>6, <1>11 DEF TypeOK, Phases, IsTable, IInv
    <3>5. Apart(table', spc', old', ix', oldSpc' - 1) /\ Once(old', ix', oldSpc' - 1)
      BY <3>1 DEF Apart, Once
    <3>6. \A l \in 0..(size - 1) : filled[l] \in Entries'
      BY <3>1 DEF Entries
    <3> QED
      BY <3>1, <3>3, <3>4, <3>5, <3>6, <1>11
  <2> QED
    BY <2>1, <2>2
<1>16. \A x \in Entries : x.nx # Null => x \in Entries'
    BY <1>14, <1>15
<1>17. e \in Entries'
    BY <1>11, <1>12, <1>15
<1>18. EveryoneFound'
  <2> SUFFICES ASSUME NEW m \in Nodes, field'[m] = Top
               PROVE  \E x \in Entries' : x.nx = m
    BY DEF EveryoneFound
  <2>1. m # Null
    BY RfcAssumption DEF Null
  <2>2. CASE m # n
    <3>1. field[m] = Top
      BY <2>2, <1>10 DEF IInv, TypeOK
    <3> QED
      BY <2>1, <3>1, <1>16 DEF IInv, EveryoneFound
  <2> QED
    BY <2>2, <1>5, <1>17
<1>19. IInv'
    BY <1>15, <1>18 DEF IInv
<1>20. ASSUME NEW m \in Nodes
       PROVE  Count(m)' = IF m = n THEN Count(n) + 1 ELSE Count(m)
  <2>1. CASE m = n
    <3>1. PICK f, E : f = field' /\ E = Entries'
      OBVIOUS
    <3>2. Unique(E) /\ f[n] = Top /\ e \in E
      BY <3>1, <1>10, <1>17, <1>19, EntriesStayUnique DEF IInv, TypeOK
    <3>3. CountIn(f, E, n) = Top + e.rfc
      BY <3>2, <1>5, OverflowedCount
    <3>4. Count(n)' = CountIn(f, E, n)
      BY <3>1 DEF Count, CountIn, Beyond
    <3>5. Count(n) = Top - 1
      BY <1>9, RfcAssumption DEF Count
    <3> QED
      BY <2>1, <3>3, <3>4, <3>5, <1>5, RfcAssumption
  <2>2. CASE m # n
    <3>1. field'[m] = field[m]
      BY <2>2, <1>10 DEF IInv, TypeOK
    <3>2. \A x \in Entries : x.nx = m => x \in Entries'
      BY <1>16, RfcAssumption DEF Null
    <3> QED
      BY <2>2, <3>1, <3>2, <1>19, OthersKept
  <2> QED
    BY <2>1, <2>2
<1> QED
    BY <1>19, <1>20 DEF CountsBut

\* An entry moves from oldRFCT to RFCT.
LEMMA CopyStep ==
    ASSUME IInv, Copy
    PROVE  IInv' /\ CountsKept
<1>1. PICK e, k : e = old[ix] /\ k = Place(table, spc, e.nx)
    OBVIOUS
<1>2. /\ pc = "copying"
      /\ ix < oldSpc
      /\ table' = IF e.nx = Null THEN table ELSE [table EXCEPT ![k] = e]
      /\ ix' = ix + 1
      /\ UNCHANGED <<field, spc, used, old, oldSpc, pc>>
    BY <1>1 DEF Copy, CopyTo
<1>3. /\ oldSpc \in Nat /\ ix \in 0..(oldSpc - 1) /\ ix \in ix..(oldSpc - 1)
      /\ IsTable(old, oldSpc) /\ spc # 0 /\ used \in Nat
    BY <1>2 DEF IInv, TypeOK, Phases, IsTable
<1>4. spc \in Nat \ {0} /\ IsTable(table, spc) /\ Free(table, spc) # {}
    BY <1>3, Room
<1>5. e \in Entry /\ (e.nx # Null => e.nx \in Nat)
    BY <1>1, <1>3, EntryType
<1>6. \A l \in 0..(spc - 1) : table[l].nx # Null => table[l].nx # e.nx
    BY <1>1, <1>3 DEF IInv, Apart
<1>7. /\ IsTable(table', spc) /\ ChainsWhole(table', spc) /\ Once(table', 0, spc - 1)
      /\ Capacity' /\ Apart(table', spc, old, ix + 1, oldSpc - 1)
      /\ \A x \in Entries : x.nx # Null => x \in Entries'
  <2>1. CASE e.nx = Null
    <3>1. table' = table
      BY <1>2, <2>1
    <3>2. Left' = Left
      BY <1>1, <1>2, <1>3, <2>1 DEF Left
    <3>3. Capacity'
      BY <1>2, <3>1, <3>2 DEF IInv, Capacity
    <3>4. Apart(table, spc, old, ix + 1, oldSpc - 1)
      BY <1>3 DEF IInv, Apart
    <3>5. \A x \in Entries : x.nx # Null => x \in Entries'
      BY <1>1, <1>2, <1>3, <2>1, <3>1 DEF Entries
    <3> QED
      BY <1>4, <3>1, <3>3, <3>4, <3>5 DEF IInv
  <2>2. CASE e.nx # Null
    <3>1. PICK u : u = table'
      OBVIOUS
    <3>2. u = [table EXCEPT ![k] = e]
      BY <1>2, <2>2, <3>1
    <3>3. \A l \in 0..(spc - 1) : table[l].nx # e.nx
      BY <1>6, <2>2
    <3>4. ChainsWhole(table, spc) /\ Once(table, 0, spc - 1)
      BY DEF IInv
    <3>5. /\ IsTable(u, spc) /\ ChainsWhole(u, spc) /\ Once(u, 0, spc - 1)
          /\ k \in 0..(spc - 1) /\ table[k].nx = Null
          /\ Cardinality(Occupied(u, spc)) = Cardinality(Occupied(table, spc)) + 1
      BY <1>1, <1>4, <1>5, <2>2, <3>2, <3>3, <3>4, PlaceFills
    <3>6. u[k] = e /\ \A l \in 0..(spc - 1) : l # k => u[l] = table[l]
      BY <1>4, <3>2, <3>5 DEF IsTable
    <3>7. IsFiniteSet(Left) /\ ix \in Left
      <4>1. IsFiniteSet(ix..(oldSpc - 1))
        BY <1>3, FS_Interval
      <4>2. Left \in SUBSET (ix..(oldSpc - 1)) /\ ix \in Left
        BY <1>1, <1>3, <2>2 DEF Left
      <4> QED
        BY <4>1, <4>2, FS_Subset
    <3>8. Left' = Left \ {ix}
      BY <1>2, <1>3 DEF Left
    <3>9. Cardinality(Left') = Cardinality(Left) - 1 /\ Cardinality(Left) \in Nat
      BY <3>7, <3>8, FS_RemoveElement, FS_CardinalityType
    <3>10. Cardinality(Occupied(table, spc)) \in Nat
      BY <1>4, OccupiedFinite
    <3>11. Capacity'
      BY <1>2, <3>1, <3>5, <3>9, <3>10 DEF IInv, Capacity
    <3>12. Apart(u, spc, old, ix + 1, oldSpc - 1)
      <4> SUFFICES ASSUME NEW i \in 0..(spc - 1), NEW l \in (ix + 1)..(oldSpc - 1),
                          u[i].nx # Null
                   PROVE  u[i].nx # old[l].nx
        BY DEF Apart
      <4>1. l \in ix..(oldSpc - 1) /\ l # ix
        BY <1>3
      <4>2. CASE i = k
        <5>1. u[i].nx = old[ix].nx /\ old[ix].nx # Null
          BY <1>1, <2>2, <3>6, <4>2
        <5> QED
          BY <1>3, <4>1, <5>1 DEF IInv, Once
      <4>3. CASE i # k
        BY <3>6, <4>1, <4>3 DEF IInv, Apart
      <4> QED
        BY <4>2, <4>3
    <3>13. ASSUME NEW x \in Entries, x.nx # Null
           PROVE  x \in Entries'
      <4>1. CASE \E l \in 0..(spc - 1) : x = table[l]
        BY <1>2, <3>1, <3>5, <3>6, <3>13, <4>1 DEF Entries
      <4>2. CASE x = old[ix]
        BY <1>1, <1>2, <3>1, <3>5, <3>6, <4>2 DEF Entries
      <4>3. CASE \E l \in (ix + 1)..(oldSpc - 1) : x = old[l]
        BY <1>2, <4>3 DEF Entries
      <4> QED
        BY <1>3, <4>1, <4>2, <4>3 DEF Entries
    <3> QED
      BY <3>1, <3>5, <3>11, <3>12, <3>13
  <2> QED
    BY <2>1, <2>2
<1>8. TypeOK'
    BY <1>2, <1>3, <1>7 DEF IInv, TypeOK, IsTable
<1>9. Phases' /\ Once(old', ix', oldSpc' - 1)
    BY <1>2, <1>3 DEF IInv, Phases, Once
<1>10. EveryoneFound'
  <2> SUFFICES ASSUME NEW m \in Nodes, field'[m] = Top
               PROVE  \E x \in Entries' : x.nx = m
    BY DEF EveryoneFound
  <2>1. m # Null
    BY RfcAssumption DEF Null
  <2> QED
    BY <1>2, <1>7, <2>1 DEF IInv, EveryoneFound
<1>11. IInv'
    BY <1>2, <1>7, <1>8, <1>9, <1>10 DEF IInv
<1>12. ASSUME NEW m \in Nodes PROVE Count(m)' = Count(m)
  <2>1. m # Null
    BY RfcAssumption DEF Null
  <2>2. \A x \in Entries : x.nx = m => x \in Entries'
    BY <1>7, <2>1
  <2>3. field'[m] = field[m]
    BY <1>2
  <2> QED
    BY <1>11, <2>2, <2>3, OthersKept
<1> QED
    BY <1>11, <1>12 DEF CountsKept

\* When oldRFCT is freed it has nothing left.
LEMMA CopiedStep ==
    ASSUME IInv, Copied
    PROVE  IInv' /\ CountsKept
<1>1. /\ ix = oldSpc /\ old' = Blank(0) /\ oldSpc' = 0 /\ ix' = 0 /\ pc' = "ready"
      /\ UNCHANGED <<field, table, spc, used>>
    BY DEF Copied
<1>2. oldSpc \in Nat
    BY DEF IInv, TypeOK
<1>3. Left = {} /\ Left' = {} /\ Entries' = Entries
    BY <1>1, <1>2 DEF Left, Entries
<1>4. IsTable(Blank(0), 0)
    BY BlankTable
<1>5. TypeOK'
    BY <1>1, <1>4 DEF IInv, TypeOK, IsTable
<1>6. Phases' /\ Capacity' /\ EveryoneFound'
    BY <1>1, <1>3 DEF IInv, Phases, Capacity, EveryoneFound
<1>7. Once(old', ix', oldSpc' - 1) /\ Apart(table', spc', old', ix', oldSpc' - 1)
    BY <1>1 DEF Once, Apart
<1>8. IInv'
    BY <1>1, <1>5, <1>6, <1>7 DEF IInv
<1>9. CountsKept
    BY <1>1, <1>3 DEF CountsKept, Count, Beyond
<1> QED
    BY <1>8, <1>9

\* A step that leaves fields and tables, whatever it does to pc outside of the copying.
LEMMA LeavingStep ==
    ASSUME IInv, UNCHANGED <<field, table, spc, used, old, oldSpc, ix>>,
           pc' = pc \/ (pc = "ready" /\ pc' = "exited")
    PROVE  IInv' /\ CountsKept
<1>1. Entries' = Entries /\ Left' = Left
    BY DEF Entries, Left
<1>2. TypeOK' /\ Phases'
    BY DEF IInv, TypeOK, Phases
<1>3. Capacity' /\ EveryoneFound'
    BY <1>1 DEF IInv, Capacity, EveryoneFound
<1>4. IInv'
    BY <1>2, <1>3 DEF IInv
<1>5. CountsKept
    BY <1>1 DEF CountsKept, Count, Beyond
<1> QED
    BY <1>4, <1>5

\* What a step does.
LEMMA Step ==
    ASSUME IInv, [Next]_vars
    PROVE  /\ IInv'
           /\ \/ CountsKept
              \/ \E n \in Nodes : CountsBut(n, Count(n) + 1)
              \/ \E n \in Nodes : CountsBut(n, Count(n) - 1) /\ Count(n) > 0
<1>1. CASE UNCHANGED vars
    BY <1>1, LeavingStep DEF vars
<1>2. ASSUME NEW n \in Nodes, IncField(n)
      PROVE  IInv' /\ CountsBut(n, Count(n) + 1)
    BY <1>2, IncFieldStep
<1>3. ASSUME NEW n \in Nodes, IncEntry(n)
      PROVE  IInv' /\ CountsBut(n, Count(n) + 1)
    BY <1>3, IncEntryStep
<1>4. ASSUME NEW n \in Nodes, NewEntry(n)
      PROVE  IInv' /\ CountsBut(n, Count(n) + 1)
    BY <1>4, NewEntryStep
<1>5. ASSUME NEW n \in Nodes, DecField(n)
      PROVE  IInv' /\ CountsBut(n, Count(n) - 1) /\ Count(n) > 0
    BY <1>5, DecFieldStep
<1>6. ASSUME NEW n \in Nodes, DecEntry(n)
      PROVE  IInv' /\ CountsBut(n, Count(n) - 1) /\ Count(n) > 0
    BY <1>6, DecEntryStep
<1>7. ASSUME NEW n \in Nodes, OutOfMemory(n)
      PROVE  IInv' /\ CountsKept
    BY <1>7, LeavingStep DEF OutOfMemory
<1>8. CASE Copy
    BY <1>8, CopyStep
<1>9. CASE Copied
    BY <1>9, CopiedStep
<1> QED
    BY <1>1, <1>2, <1>3, <1>4, <1>5, <1>6, <1>7, <1>8, <1>9, Zenon DEF Next
-----------------------------------------------------------------------------
(***************************************************************************)
(* The inductive invariant: the chains of the table are whole, each node   *)
(* has one entry at most, in RFCT or still in oldRFCT, and RFCT is less    *)
(* than half full, the entries still to be copied included.                *)
(***************************************************************************)
THEOREM Invariance == Spec => []IInv
<1>1. IInv /\ [Next]_vars => IInv'
    BY Step
<1> QED
    BY <1>1, InitInv, PTL DEF Spec

(***************************************************************************)
(* The tables always hold nodes, and the fields stay within 0 and Top.     *)
(***************************************************************************)
THEOREM TypeCorrect == Spec => []TypeOK
<1>1. IInv => TypeOK
    BY DEF IInv
<1> QED
    BY <1>1, Invariance, PTL

(***************************************************************************)
(* RFCT is never full, so that the loops over nx2 in rfc_inc_ovf() and     *)
(* rfc_dec_ovf() end.                                                      *)
(***************************************************************************)
THEOREM ProbesAlwaysEnd == Spec => []ProbesEnd
<1>1. IInv => ProbesEnd
    BY Room DEF ProbesEnd
<1> QED
    BY <1>1, Invariance, PTL

(***************************************************************************)
(* Probing for a node that has an entry ends at this entry, and each node  *)
(* whose field is full has one.                                            *)
(***************************************************************************)
THEOREM EntriesAlwaysFound == Spec => []EntriesFound
<1>1. IInv => EntriesFound
  <2> SUFFICES ASSUME IInv PROVE EntriesFound
    OBVIOUS
  <2>1. ASSUME NEW k \in 0..(spc - 1), table[k].nx # Null
        PROVE  Place(table, spc, table[k].nx) = k
    <3>1. spc \in Nat
      BY DEF IInv, TypeOK
    <3>2. spc \in Nat \ {0} /\ IsTable(table, spc)
      BY <3>1, Room
    <3>3. table[k].nx \in Nat
      BY <2>1, <3>2, EntryType
    <3> QED
      BY <3>2, <3>3, PlaceFinds DEF IInv
  <2> QED
    BY <2>1 DEF EntriesFound, FoundIn, IInv, EveryoneFound
<1> QED
    BY <1>1, Invariance, PTL

(***************************************************************************)
(* Field and overflow table together are a count per node that goes up and *)
(* down by one and has no bound, also while the table is copied.           *)
(***************************************************************************)
THEOREM CountsCorrect == Spec => CountsRight
<1>1. Init => Counts!Init
    BY RfcAssumption DEF Init, Counts!Init, Count
<1>2. ASSUME IInv, [Next]_vars
      PROVE  [Counts!Next]_([n \in Nodes |-> Count(n)])
  <2>1. CASE CountsKept
    <3>1. [n \in Nodes |-> Count(n)]' = [n \in Nodes |-> Count(n)]
      BY <2>1 DEF CountsKept
    <3> QED
      BY <3>1
  <2>2. ASSUME NEW n \in Nodes, CountsBut(n, Count(n) + 1)
        PROVE  Counts!Inc(n)
    BY <2>2 DEF CountsBut, Counts!Inc
  <2>3. ASSUME NEW n \in Nodes, CountsBut(n, Count(n) - 1), Count(n) > 0
        PROVE  Counts!Dec(n)
    BY <2>3 DEF CountsBut, Counts!Dec
  <2> QED
    BY <1>2, <2>1, <2>2, <2>3, Step DEF Counts!Next
<1> QED
    BY <1>1, <1>2, Invariance, PTL DEF Spec, CountsRight, Counts!Spec
=============================================================================
