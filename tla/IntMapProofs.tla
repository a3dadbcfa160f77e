---------------------------- MODULE IntMapProofs ----------------------------
(***************************************************************************)
(* Proofs about list.c and map.c: the links of the lists stay sound        *)
(* (LinksSound), and the map is a queue of values per key (MapSpec), for   *)
(* every heap, every set of keys and every number of buckets.              *)
(*                                                                         *)
(* The inductive invariant says what the links alone cannot: there is a    *)
(* sequence of nodes for each list, and next and prev are its two          *)
(* directions.  A walk is a recursive function, so what it returns is      *)
(* shown by induction over its steps.                                      *)
(***************************************************************************)
EXTENDS IntMap, SequenceTheorems, FiniteSetTheorems, WellFoundedInduction, TLAPS

\* Every set of naturals with an element has a least one.
LEMMA LeastNatural ==
  ASSUME NEW T, T \subseteq Nat, T # {}
  PROVE  \E x \in T : \A y \in T : x <= y
<1> DEFINE R == OpToRel(<, Nat)
<1>1. \A x, y \in Nat : x < y => <<x, y>> \in R
  BY DEF OpToRel
<1>2. IsWellFoundedOn(R, Nat)
  BY NatLessThanWellFounded DEF OpToRel
<1> HIDE DEF R
<1>3. PICK x \in T : \A y \in T : ~ (<<y, x>> \in R)
  BY <1>2, WFMin
<1>4. \A y \in T : y \in Nat /\ x \in Nat /\ ~ (y < x)
  BY <1>1, <1>3
<1>5. \A y \in T : x <= y
  BY <1>4
<1> QED
  BY <1>5

\* Induction over an interval, with the claim as a set.
LEMMA IntervalInduction ==
  ASSUME NEW m \in Nat, NEW n \in Nat, NEW S,
         m \in S, \A i \in m .. n - 1 : i \in S => i + 1 \in S
  PROVE  \A i \in m .. n : i \in S
<1> DEFINE T == {i \in m .. n : i \notin S}
<1>1. SUFFICES ASSUME T # {} PROVE FALSE
  OBVIOUS
<1>2. T \subseteq Nat
  OBVIOUS
<1>3. PICK x \in T : \A y \in T : x <= y
  <2> HIDE DEF T
  <2> QED
    BY <1>1, <1>2, LeastNatural
<1>4. x # m /\ x \in m .. n /\ x \notin S
  OBVIOUS
<1>5. x - 1 \in m .. n - 1 /\ (x - 1) + 1 = x /\ x - 1 \in m .. n /\ ~ (x <= x - 1)
  BY <1>4
<1>6. x - 1 \in S
  BY <1>3, <1>5
<1> QED
  BY <1>4, <1>5, <1>6

----------------------------------------------------------------------------
(* The rings. *)

\* The cell at place i of the ring of l: the sentinel, then the nodes of s,
\* then the sentinel again.
Cell(l, s, i) == IF i \in 1 .. Len(s) THEN s[i] ELSE l

\* s[l] are the nodes of list l in their order: both directions, nx and pv,
\* follow it, no node has two places, and the lists ls have all the nodes ns.
RingsOf(s, ls, ns, nx, pv, len) ==
  /\ s \in [Lists -> Seq(Nodes)] /\ ls \subseteq Lists
  /\ DOMAIN nx = Nodes \cup Lists /\ DOMAIN pv = Nodes \cup Lists
  /\ DOMAIN len = Lists
  /\ \A l \in Lists : len[l] = Len(s[l]) /\ (l \notin ls => s[l] = <<>>)
  /\ \A l \in ls : \A i \in 0 .. Len(s[l]) :
       /\ nx[Cell(l, s[l], i)] = Cell(l, s[l], i + 1)
       /\ pv[Cell(l, s[l], i + 1)] = Cell(l, s[l], i)
  /\ \A l, m \in ls : \A i \in 1 .. Len(s[l]), j \in 1 .. Len(s[m]) :
       s[l][i] = s[m][j] => l = m /\ i = j
  /\ ns = {n \in Nodes : \E l \in ls : \E i \in 1 .. Len(s[l]) : n = s[l][i]}

Rings(s) == DOMAIN element = Nodes /\ RingsOf(s, made, live, next, prev, length)

HeapSound == \E s : Rings(s)

\* NodeAt walks along next: idx steps lead to place idx + 1 of a ring.
LEMMA Walk ==
  \A l, p : \A idx \in Nat :
    p[0] = next[l] /\ (\A i \in 1 .. idx : p[i] = next[p[i - 1]]) => NodeAt(l, idx) = p[idx]
<1> SUFFICES ASSUME NEW l, NEW p, NEW idx \in Nat,
                    p[0] = next[l], \A i \in 1 .. idx : p[i] = next[p[i - 1]]
             PROVE  NodeAt(l, idx) = p[idx]
  OBVIOUS
<1> DEFINE walk[i \in 0 .. idx] == IF i = 0 THEN next[l] ELSE next[walk[i - 1]]
           Step(g) == [i \in 0 .. idx |-> IF i = 0 THEN next[l] ELSE next[g[i - 1]]]
           S == {i \in 0 .. idx : walk[i] = p[i]}
<1>1. NodeAt(l, idx) = walk[idx]
  BY DEF NodeAt
<1>2. \E g : g = Step(g)
  <2> DEFINE q == [i \in 0 .. idx |-> p[i]]
  <2>1. q = Step(q)
    OBVIOUS
  <2> QED
    BY <2>1
<1>3. walk = CHOOSE g : g = Step(g)
  OBVIOUS
<1> HIDE DEF walk
<1>4. walk = Step(walk)
  <2> HIDE DEF Step
  <2> QED
    BY <1>2, <1>3
<1>5. 0 \in S
  BY <1>4
<1>6. ASSUME NEW n \in 0 .. idx - 1, n \in S
      PROVE  n + 1 \in S
  <2>1. n + 1 \in 1 .. idx /\ n + 1 \in 0 .. idx /\ n \in 0 .. idx /\ n + 1 # 0 /\ (n + 1) - 1 = n
    OBVIOUS
  <2>2. \A i \in 1 .. idx : walk[i] = next[walk[i - 1]] /\ p[i] = next[p[i - 1]]
    BY <1>4
  <2>3. walk[n + 1] = next[walk[n]] /\ p[n + 1] = next[p[n]]
    <3> HIDE DEF Step
    <3> QED
      BY <2>1, <2>2
  <2> QED
    BY <2>1, <2>3, <1>6
<1>7. \A i \in 0 .. idx : i \in S
  <2> HIDE DEF S
  <2> QED
    BY <1>5, <1>6, IntervalInduction
<1> QED
  BY <1>1, <1>7

\* The node at an index is the one at its place in the ring, and one step
\* further than the last index is the sentinel.
LEMMA RingWalk ==
  \A s : Rings(s) =>
    \A l \in made : \A idx \in 0 .. length[l] : NodeAt(l, idx) = Cell(l, s[l], idx + 1)
<1> SUFFICES ASSUME NEW s, Rings(s), NEW l \in made, NEW idx \in 0 .. length[l]
             PROVE  NodeAt(l, idx) = Cell(l, s[l], idx + 1)
  OBVIOUS
<1> DEFINE p == [i \in 0 .. idx |-> Cell(l, s[l], i + 1)]
<1>1. length[l] = Len(s[l]) /\ Len(s[l]) \in Nat /\ idx \in Nat
  BY LenProperties DEF Rings, RingsOf
<1>2. \A i \in 0 .. Len(s[l]) : next[Cell(l, s[l], i)] = Cell(l, s[l], i + 1)
  BY DEF Rings, RingsOf
<1>3. p[0] = next[l]
  <2>1. Cell(l, s[l], 0) = l
    BY DEF Cell
  <2>2. next[Cell(l, s[l], 0)] = Cell(l, s[l], 0 + 1)
    BY <1>1, <1>2
  <2> QED
    BY <2>1, <2>2, <1>1
<1>4. ASSUME NEW i \in 1 .. idx
      PROVE  p[i] = next[p[i - 1]]
  <2>1. i \in 0 .. Len(s[l]) /\ i \in 0 .. idx /\ i - 1 \in 0 .. idx /\ (i - 1) + 1 = i
    BY <1>1
  <2> QED
    BY <2>1, <1>2
<1>5. p[idx] = Cell(l, s[l], idx + 1)
  BY <1>1
<1> HIDE DEF p
<1> QED
  BY <1>1, <1>3, <1>4, <1>5, Walk

\* The same one step later.
LEMMA RingWalkNext ==
  \A s : Rings(s)' =>
    \A l \in made' : \A idx \in 0 .. length'[l] : NodeAt(l, idx)' = Cell(l, s[l], idx + 1)
<1> DEFINE A == \A s : Rings(s) =>
    \A l \in made : \A idx \in 0 .. length[l] : NodeAt(l, idx) = Cell(l, s[l], idx + 1)
<1>1. A
  BY RingWalk
<1> HIDE DEF A
<1>2. A'
  BY <1>1, PTL
<1> QED
  BY <1>2 DEF A

\* The nodes of a list, as the code finds them, are those of its ring.
LEMMA RingMembers ==
  ASSUME NEW s, Rings(s), NEW l \in made
  PROVE  /\ Len(s[l]) \in Nat /\ length[l] = Len(s[l])
         /\ \A i \in 0 .. length[l] - 1 : NodeAt(l, i) = s[l][i + 1]
         /\ Members(l) = {s[l][i] : i \in 1 .. Len(s[l])}
<1>1. Len(s[l]) \in Nat /\ length[l] = Len(s[l])
  BY LenProperties DEF Rings, RingsOf
<1>2. ASSUME NEW i \in 0 .. length[l] - 1
      PROVE  NodeAt(l, i) = s[l][i + 1]
  <2>1. i \in 0 .. length[l] /\ i + 1 \in 1 .. Len(s[l])
    BY <1>1
  <2> QED
    BY <2>1, RingWalk DEF Cell
<1>3. \A i \in 1 .. Len(s[l]) : i - 1 \in 0 .. length[l] - 1 /\ (i - 1) + 1 = i
  BY <1>1
<1>4. \A i \in 0 .. length[l] - 1 : i + 1 \in 1 .. Len(s[l])
  BY <1>1
<1>5. \A n : n \in Members(l) <=> \E i \in 0 .. length[l] - 1 : n = s[l][i + 1]
  BY <1>2 DEF Members
<1>6. \A n : n \in Members(l) <=> \E i \in 1 .. Len(s[l]) : n = s[l][i]
  BY <1>3, <1>4, <1>5
<1> QED
  BY <1>1, <1>2, <1>6

LEMMA RingCount ==
  ASSUME NEW s, Rings(s), NEW l \in made
  PROVE  Cardinality(Members(l)) = length[l]
<1>1. /\ Len(s[l]) \in Nat /\ length[l] = Len(s[l])
      /\ Members(l) = {s[l][i] : i \in 1 .. Len(s[l])}
  BY RingMembers
<1> DEFINE f == [i \in 1 .. Len(s[l]) |-> s[l][i]]
<1>2. \A i, j \in 1 .. Len(s[l]) : s[l][i] = s[l][j] => i = j
  BY DEF Rings, RingsOf
<1>3. f \in [1 .. Len(s[l]) -> Members(l)]
  BY <1>1
<1>4. f \in Injection(1 .. Len(s[l]), Members(l))
  BY <1>2, <1>3 DEF Injection, IsInjective
<1>5. f \in Surjection(1 .. Len(s[l]), Members(l))
  BY <1>1, <1>3 DEF Surjection
<1>6. f \in Bijection(1 .. Len(s[l]), Members(l))
  BY <1>4, <1>5 DEF Bijection
<1> QED
  BY <1>1, <1>6, FS_CountingElements DEF ExistsBijection

\* What the rings say of the links.
LEMMA SoundLinks ==
  ASSUME HeapSound
  PROVE  LinksSound
<1>1. PICK s : Rings(s)
  BY DEF HeapSound
<1>2. \A l \in made : Len(s[l]) \in Nat /\ length[l] = Len(s[l]) /\ Members(l) = {s[l][i] : i \in 1 .. Len(s[l])}
  BY <1>1, RingMembers
<1>3. \A l \in made : \A i \in 0 .. Len(s[l]) :
       /\ next[Cell(l, s[l], i)] = Cell(l, s[l], i + 1)
       /\ prev[Cell(l, s[l], i + 1)] = Cell(l, s[l], i)
  BY <1>1 DEF Rings, RingsOf
<1>4. \A n : n \in live <=> \E l \in made : \E i \in 1 .. Len(s[l]) : n = s[l][i]
  <2>1. \A l \in made : s[l] \in Seq(Nodes)
    BY <1>1 DEF Rings, RingsOf
  <2>2. \A l \in made : \A i \in 1 .. Len(s[l]) : s[l][i] \in Nodes
    BY <2>1, ElementOfSeq
  <2> QED
    BY <1>1, <2>2 DEF Rings, RingsOf
<1>5. \A l \in made : \A i : Cell(l, s[l], i) \in made \cup live
  BY <1>4 DEF Cell
<1>6. ASSUME NEW c \in made \cup live
      PROVE  /\ next[c] \in made \cup live /\ prev[next[c]] = c
             /\ prev[c] \in made \cup live /\ next[prev[c]] = c
  <2>1. \E l \in made : \E i \in 0 .. Len(s[l]) : c = Cell(l, s[l], i)
    <3>1. CASE c \in made
      <4>1. 0 \in 0 .. Len(s[c]) /\ c = Cell(c, s[c], 0)
        BY <3>1, <1>2 DEF Cell
      <4> QED
        BY <3>1, <4>1
    <3>2. CASE c \in live
      BY <3>2, <1>2, <1>4 DEF Cell
    <3> QED
      BY <3>1, <3>2
  <2>2. \E l \in made : \E i \in 0 .. Len(s[l]) : c = Cell(l, s[l], i + 1)
    <3>1. CASE c \in made
      <4>1. Len(s[c]) \in 0 .. Len(s[c]) /\ c = Cell(c, s[c], Len(s[c]) + 1)
        BY <3>1, <1>2 DEF Cell
      <4> QED
        BY <3>1, <4>1
    <3>2. CASE c \in live
      <4>1. PICK l \in made : \E i \in 1 .. Len(s[l]) : c = s[l][i]
        BY <3>2, <1>4
      <4>2. PICK i \in 1 .. Len(s[l]) : c = s[l][i]
        BY <4>1
      <4>3. i - 1 \in 0 .. Len(s[l]) /\ (i - 1) + 1 = i /\ c = Cell(l, s[l], i)
        BY <4>2, <1>2 DEF Cell
      <4> QED
        BY <4>3
    <3> QED
      BY <3>1, <3>2
  <2>3. next[c] \in made \cup live /\ prev[next[c]] = c
    BY <2>1, <1>3, <1>5
  <2>4. prev[c] \in made \cup live /\ next[prev[c]] = c
    BY <2>2, <1>3, <1>5
  <2> QED
    BY <2>3, <2>4
<1>7. ASSUME NEW l \in made
      PROVE  NodeAt(l, length[l]) = l /\ Cardinality(Members(l)) = length[l]
  <2>1. length[l] \in 0 .. length[l] /\ Cell(l, s[l], length[l] + 1) = l
    BY <1>2 DEF Cell
  <2> QED
    BY <2>1, <1>1, RingWalk, RingCount
<1>8. live = UNION {Members(l) : l \in made}
  <2>1. \A l \in made : \A n : n \in Members(l) <=> \E i \in 1 .. Len(s[l]) : n = s[l][i]
    BY <1>2
  <2>2. \A n : n \in live <=> \E l \in made : n \in Members(l)
    BY <1>4, <2>1
  <2>3. \A n : n \in UNION {Members(l) : l \in made} <=> \E l \in made : n \in Members(l)
    OBVIOUS
  <2> QED
    BY <2>2, <2>3, Zenon
<1>9. \A l, m \in made : l # m => Members(l) \cap Members(m) = {}
  <2>1. \A l \in made : \A n : n \in Members(l) <=> \E i \in 1 .. Len(s[l]) : n = s[l][i]
    BY <1>2
  <2>2. \A l, m \in made : \A i \in 1 .. Len(s[l]), j \in 1 .. Len(s[m]) :
          s[l][i] = s[m][j] => l = m
    BY <1>1 DEF Rings, RingsOf
  <2> QED
    BY <2>1, <2>2
<1> QED
  BY <1>6, <1>7, <1>8, <1>9 DEF LinksSound

----------------------------------------------------------------------------
(* What the operations of list.c make of the rings. *)

\* Places of a ring: the inner ones are nodes, and no place is another one's.
LEMMA RingPlaces ==
  ASSUME NEW s, NEW ls, NEW ns, NEW nx, NEW pv, NEW len,
         RingsOf(s, ls, ns, nx, pv, len), NEW l \in ls
  PROVE  /\ l \in Lists /\ l \notin Nodes /\ s[l] \in Seq(Nodes)
         /\ Len(s[l]) \in Nat /\ len[l] = Len(s[l])
         /\ \A i \in 1 .. Len(s[l]) : s[l][i] \in Nodes /\ s[l][i] \in ns /\ s[l][i] \notin Lists
         /\ \A i : Cell(l, s[l], i) \in Nodes \cup Lists
<1>1. l \in Lists /\ s[l] \in Seq(Nodes)
  BY DEF RingsOf
<1>2. \A i \in 1 .. Len(s[l]) : s[l][i] \in Nodes
  BY <1>1, ElementOfSeq
<1>3. \A i \in 1 .. Len(s[l]) : s[l][i] \in ns
  BY <1>2 DEF RingsOf
<1>4. Len(s[l]) \in Nat /\ len[l] = Len(s[l])
  BY <1>1, LenProperties DEF RingsOf
<1> QED
  BY <1>1, <1>2, <1>3, <1>4, HeapAssumption DEF Cell

\* createList: an empty ring more.
LEMMA CreatedRings ==
  ASSUME NEW s, Rings(s), NEW l \in Lists \ made
  PROVE  RingsOf(s, made \cup {l}, live, Created(l).next, Created(l).prev, length)
<1> DEFINE nx == [next EXCEPT ![l] = l]
           pv == [prev EXCEPT ![l] = l]
<1>1. RingsOf(s, made, live, next, prev, length)
  BY DEF Rings
<1>2. s[l] = <<>> /\ Len(s[l]) = 0
  BY <1>1 DEF RingsOf
<1>3. DOMAIN nx = Nodes \cup Lists /\ DOMAIN pv = Nodes \cup Lists /\ nx[l] = l /\ pv[l] = l
  BY <1>1 DEF RingsOf
<1>4. \A c \in Nodes \cup Lists : c # l => nx[c] = next[c] /\ pv[c] = prev[c]
  BY <1>1 DEF RingsOf
<1> HIDE DEF nx, pv
<1>5. ASSUME NEW m \in made \cup {l}, NEW i \in 0 .. Len(s[m])
      PROVE  /\ nx[Cell(m, s[m], i)] = Cell(m, s[m], i + 1)
             /\ pv[Cell(m, s[m], i + 1)] = Cell(m, s[m], i)
  <2>1. CASE m = l
    <3>1. i = 0 /\ Cell(m, s[m], i) = l /\ Cell(m, s[m], i + 1) = l
      BY <2>1, <1>2 DEF Cell
    <3> QED
      BY <3>1, <1>3
  <2>2. CASE m # l
    <3>1. m \in made
      BY <2>2
    <3>2. \A j : Cell(m, s[m], j) \in Nodes \cup Lists /\ Cell(m, s[m], j) # l
      BY <1>1, <2>2, <3>1, RingPlaces DEF Cell
    <3>3. /\ next[Cell(m, s[m], i)] = Cell(m, s[m], i + 1)
          /\ prev[Cell(m, s[m], i + 1)] = Cell(m, s[m], i)
      BY <1>1, <3>1 DEF RingsOf
    <3> QED
      BY <3>2, <3>3, <1>4
  <2> QED
    BY <2>1, <2>2
<1>6. /\ \A m, o \in made \cup {l} : \A i \in 1 .. Len(s[m]), j \in 1 .. Len(s[o]) :
           s[m][i] = s[o][j] => m = o /\ i = j
      /\ live = {n \in Nodes : \E m \in made \cup {l} : \E i \in 1 .. Len(s[m]) : n = s[m][i]}
  <2>1. \A m \in made \cup {l} : \A i \in 1 .. Len(s[m]) : m \in made
    BY <1>2
  <2>2. \A m, o \in made : \A i \in 1 .. Len(s[m]), j \in 1 .. Len(s[o]) :
          s[m][i] = s[o][j] => m = o /\ i = j
    BY <1>1 DEF RingsOf
  <2>3. live = {n \in Nodes : \E m \in made : \E i \in 1 .. Len(s[m]) : n = s[m][i]}
    BY <1>1 DEF RingsOf
  <2> QED
    BY <2>1, <2>2, <2>3
<1>7. /\ s \in [Lists -> Seq(Nodes)] /\ made \cup {l} \subseteq Lists /\ DOMAIN length = Lists
      /\ \A m \in Lists : length[m] = Len(s[m]) /\ (m \notin made \cup {l} => s[m] = <<>>)
  BY <1>1 DEF RingsOf
<1>8. RingsOf(s, made \cup {l}, live, nx, pv, length)
  BY <1>3, <1>5, <1>6, <1>7 DEF RingsOf
<1> QED
  BY <1>8 DEF Created, nx, pv

\* One turn of a ring visits no cell twice.
LEMMA CellsDistinct ==
  ASSUME NEW s, NEW ls, NEW ns, NEW nx, NEW pv, NEW len,
         RingsOf(s, ls, ns, nx, pv, len), NEW l \in ls
  PROVE  /\ \A i, j \in 0 .. Len(s[l]) : Cell(l, s[l], i) = Cell(l, s[l], j) => i = j
         /\ \A i, j \in 1 .. Len(s[l]) + 1 : Cell(l, s[l], i) = Cell(l, s[l], j) => i = j
<1>1. \A m \in ls : Len(s[m]) \in Nat
  BY RingPlaces
<1>2. \A m \in ls : \A i \in 1 .. Len(s[m]) : s[m][i] \notin Lists
  BY RingPlaces
<1>3. ls \subseteq Lists
  BY DEF RingsOf
<1>4. \A m, o \in ls : \A i \in 1 .. Len(s[m]), j \in 1 .. Len(s[o]) :
        s[m][i] = s[o][j] => m = o /\ i = j
  BY DEF RingsOf
<1>5. \A i, j \in 0 .. Len(s[l]) : Cell(l, s[l], i) = Cell(l, s[l], j) => i = j
  BY <1>1, <1>2, <1>3, <1>4 DEF Cell
<1>6. \A i, j \in 1 .. Len(s[l]) + 1 : Cell(l, s[l], i) = Cell(l, s[l], j) => i = j
  BY <1>1, <1>2, <1>3, <1>4 DEF Cell
<1> QED
  BY <1>5, <1>6

\* No two rings meet.
LEMMA RingsApart ==
  ASSUME NEW s, NEW ls, NEW ns, NEW nx, NEW pv, NEW len,
         RingsOf(s, ls, ns, nx, pv, len), NEW l \in ls, NEW m \in ls, m # l, NEW i, NEW j
  PROVE  Cell(m, s[m], i) # Cell(l, s[l], j)
<1>1. /\ \A a \in 1 .. Len(s[m]) : s[m][a] \notin Lists
      /\ \A a \in 1 .. Len(s[l]) : s[l][a] \notin Lists
  BY RingPlaces
<1>2. ls \subseteq Lists
  BY DEF RingsOf
<1>3. \A a \in 1 .. Len(s[m]), b \in 1 .. Len(s[l]) : s[m][a] # s[l][b]
  BY DEF RingsOf
<1> QED
  BY <1>1, <1>2, <1>3 DEF Cell

\* append: the ring is opened between its last cell and the sentinel.
LEMMA AppendedRings ==
  ASSUME NEW s, NEW ls, NEW ns, NEW nx, NEW pv, NEW len,
         RingsOf(s, ls, ns, nx, pv, len), NEW l \in ls, NEW n \in Nodes \ ns
  PROVE  RingsOf([s EXCEPT ![l] = Append(s[l], n)], ls, ns \cup {n},
                 [nx EXCEPT ![pv[l]] = n, ![n] = l], [pv EXCEPT ![l] = n, ![n] = pv[l]],
                 [len EXCEPT ![l] = len[l] + 1])
<1> DEFINE t == s[l]
           k == Len(s[l])
           s2 == [s EXCEPT ![l] = Append(s[l], n)]
           nx2 == [nx EXCEPT ![pv[l]] = n, ![n] = l]
           pv2 == [pv EXCEPT ![l] = n, ![n] = pv[l]]
           len2 == [len EXCEPT ![l] = len[l] + 1]
<1>1. /\ l \in Lists /\ l \notin Nodes /\ t \in Seq(Nodes) /\ k \in Nat /\ len[l] = k
      /\ \A i \in 1 .. k : t[i] \in Nodes /\ t[i] \in ns
  BY RingPlaces
<1>2. /\ Append(t, n) \in Seq(Nodes) /\ Len(Append(t, n)) = k + 1
      /\ \A i \in 1 .. k : Append(t, n)[i] = t[i]
      /\ Append(t, n)[k + 1] = n
  BY <1>1, AppendProperties
<1>3. /\ s \in [Lists -> Seq(Nodes)] /\ ls \subseteq Lists
      /\ DOMAIN nx = Nodes \cup Lists /\ DOMAIN pv = Nodes \cup Lists /\ DOMAIN len = Lists
      /\ \A m \in Lists : len[m] = Len(s[m]) /\ (m \notin ls => s[m] = <<>>)
  BY DEF RingsOf
<1>4. \A m \in ls : \A i \in 0 .. Len(s[m]) :
        /\ nx[Cell(m, s[m], i)] = Cell(m, s[m], i + 1)
        /\ pv[Cell(m, s[m], i + 1)] = Cell(m, s[m], i)
  BY DEF RingsOf
<1>5. pv[l] = Cell(l, t, k)
  <2>1. k \in 0 .. Len(s[l]) /\ Cell(l, t, k + 1) = l
    BY <1>1 DEF Cell
  <2> QED
    BY <2>1, <1>4
<1>6. /\ s2[l] = Append(t, n) /\ \A m \in Lists : m # l => s2[m] = s[m]
      /\ s2 \in [Lists -> Seq(Nodes)]
  BY <1>1, <1>2, <1>3
<1>7. \A m \in ls : \A i : Cell(m, s[m], i) \in Nodes \cup Lists /\ Cell(m, s[m], i) # n
  BY RingPlaces, HeapAssumption DEF Cell
<1>8. \A c \in Nodes \cup Lists :
        /\ nx2[c] = IF c = n THEN l ELSE IF c = Cell(l, t, k) THEN n ELSE nx[c]
        /\ pv2[c] = IF c = n THEN Cell(l, t, k) ELSE IF c = l THEN n ELSE pv[c]
  BY <1>1, <1>3, <1>5, <1>7
<1>9. \A i \in 0 .. k + 2 : Cell(l, s2[l], i) = IF i = k + 1 THEN n ELSE Cell(l, t, i)
  BY <1>1, <1>2, <1>6 DEF Cell
<1>10. DOMAIN nx2 = Nodes \cup Lists /\ DOMAIN pv2 = Nodes \cup Lists /\ DOMAIN len2 = Lists
  BY <1>3
<1>11. \A m \in Lists : len2[m] = Len(s2[m]) /\ (m \notin ls => s2[m] = <<>>)
  BY <1>1, <1>2, <1>3, <1>6
<1> HIDE DEF nx2, pv2, len2, s2
<1>12. ASSUME NEW i \in 0 .. k + 1
       PROVE  /\ nx2[Cell(l, s2[l], i)] = Cell(l, s2[l], i + 1)
              /\ pv2[Cell(l, s2[l], i + 1)] = Cell(l, s2[l], i)
  <2>1. CASE i = k + 1
    <3>1. Cell(l, s2[l], i) = n /\ Cell(l, s2[l], i + 1) = l
      BY <2>1, <1>1, <1>9 DEF Cell
    <3> QED
      BY <3>1, <1>1, <1>8
  <2>2. CASE i = k
    <3>1. Cell(l, s2[l], i) = Cell(l, t, k) /\ Cell(l, s2[l], i + 1) = n
      BY <2>2, <1>1, <1>9
    <3> QED
      BY <3>1, <1>1, <1>7, <1>8
  <2>3. CASE i < k
    <3>1. /\ i \in 0 .. k /\ i + 1 \in 1 .. k /\ k \in 0 .. k /\ i # k /\ i # k + 1
          /\ i \in 0 .. k + 2 /\ i + 1 \in 0 .. k + 2 /\ i + 1 # k + 1
      BY <2>3, <1>1
    <3>2. Cell(l, s2[l], i) = Cell(l, t, i) /\ Cell(l, s2[l], i + 1) = Cell(l, t, i + 1)
      BY <3>1, <1>9
    <3>3. Cell(l, t, i) # Cell(l, t, k) /\ Cell(l, t, i + 1) # l
      BY <3>1, <1>1, CellsDistinct DEF Cell
    <3>4. nx[Cell(l, t, i)] = Cell(l, t, i + 1) /\ pv[Cell(l, t, i + 1)] = Cell(l, t, i)
      BY <3>1, <1>4
    <3> QED
      BY <3>2, <3>3, <3>4, <1>7, <1>8
  <2> QED
    BY <1>1, <2>1, <2>2, <2>3
<1>13. ASSUME NEW m \in ls, m # l, NEW i \in 0 .. Len(s2[m])
       PROVE  /\ nx2[Cell(m, s2[m], i)] = Cell(m, s2[m], i + 1)
              /\ pv2[Cell(m, s2[m], i + 1)] = Cell(m, s2[m], i)
  <2>1. s2[m] = s[m]
    BY <1>13, <1>3, <1>6
  <2>2. \A j : Cell(m, s[m], j) # Cell(l, t, k) /\ Cell(m, s[m], j) # l
    <3>1. Cell(l, t, 0) = l
      BY DEF Cell
    <3>2. \A j, b : Cell(m, s[m], j) # Cell(l, s[l], b)
      BY <1>13, RingsApart
    <3> QED
      BY <3>1, <3>2
  <2>3. i \in 0 .. Len(s[m])
    BY <2>1
  <2>4. /\ nx[Cell(m, s[m], i)] = Cell(m, s[m], i + 1)
        /\ pv[Cell(m, s[m], i + 1)] = Cell(m, s[m], i)
    BY <2>3, <1>4
  <2>5. /\ nx2[Cell(m, s[m], i)] = nx[Cell(m, s[m], i)]
        /\ pv2[Cell(m, s[m], i + 1)] = pv[Cell(m, s[m], i + 1)]
    BY <2>2, <1>7, <1>8
  <2> QED
    BY <2>1, <2>4, <2>5
<1>14. ASSUME NEW m \in ls, NEW i \in 1 .. Len(s2[m])
       PROVE  \/ m = l /\ i = k + 1 /\ s2[m][i] = n
              \/ i \in 1 .. Len(s[m]) /\ s2[m][i] = s[m][i] /\ s[m][i] # n
  <2>1. \A j \in 1 .. Len(s[m]) : s[m][j] # n
    BY RingPlaces
  <2>2. CASE m = l
    <3>1. Len(s2[m]) = k + 1 /\ s2[m] = Append(t, n)
      BY <2>2, <1>2, <1>6
    <3>2. i = k + 1 \/ i \in 1 .. k
      BY <3>1, <1>1
    <3> QED
      BY <2>1, <2>2, <3>1, <3>2, <1>2
  <2>3. CASE m # l
    BY <2>1, <2>3, <1>3, <1>6
  <2> QED
    BY <2>2, <2>3
<1>15. ASSUME NEW m \in ls, NEW i \in 1 .. Len(s[m])
       PROVE  i \in 1 .. Len(s2[m]) /\ s2[m][i] = s[m][i]
  <2>1. CASE m = l
    <3>1. Len(s2[m]) = k + 1 /\ s2[m] = Append(t, n) /\ i \in 1 .. k
      BY <2>1, <1>2, <1>6
    <3> QED
      BY <2>1, <3>1, <1>1, <1>2
  <2>2. CASE m # l
    BY <2>2, <1>3, <1>6
  <2> QED
    BY <2>1, <2>2
<1>16. ASSUME NEW m \in ls, NEW o \in ls, NEW i \in 1 .. Len(s2[m]), NEW j \in 1 .. Len(s2[o]),
              s2[m][i] = s2[o][j]
       PROVE  m = o /\ i = j
  <2>1. \A p, q \in ls : \A a \in 1 .. Len(s[p]), b \in 1 .. Len(s[q]) :
          s[p][a] = s[q][b] => p = q /\ a = b
    BY DEF RingsOf
  <2>2. \/ m = l /\ i = k + 1 /\ s2[m][i] = n
        \/ i \in 1 .. Len(s[m]) /\ s2[m][i] = s[m][i] /\ s[m][i] # n
    BY <1>14
  <2>3. \/ o = l /\ j = k + 1 /\ s2[o][j] = n
        \/ j \in 1 .. Len(s[o]) /\ s2[o][j] = s[o][j] /\ s[o][j] # n
    BY <1>14
  <2> QED
    BY <2>1, <2>2, <2>3, <1>16
<1>17. ns \cup {n} = {x \in Nodes : \E m \in ls : \E i \in 1 .. Len(s2[m]) : x = s2[m][i]}
  <2>1. ns = {x \in Nodes : \E m \in ls : \E i \in 1 .. Len(s[m]) : x = s[m][i]}
    BY DEF RingsOf
  <2>2. ASSUME NEW m \in ls, NEW i \in 1 .. Len(s[m])
        PROVE  \E j \in 1 .. Len(s2[m]) : s[m][i] = s2[m][j]
    BY <1>15
  <2>3. ASSUME NEW m \in ls, NEW i \in 1 .. Len(s2[m]), s2[m][i] # n
        PROVE  \E j \in 1 .. Len(s[m]) : s2[m][i] = s[m][j]
    BY <2>3, <1>14
  <2>4. \E m \in ls : \E i \in 1 .. Len(s2[m]) : n = s2[m][i]
    <3>1. k + 1 \in 1 .. Len(s2[l]) /\ s2[l][k + 1] = n
      BY <1>1, <1>2, <1>6
    <3> QED
      BY <3>1
  <2>5. ASSUME NEW x \in Nodes
        PROVE  x \in ns \cup {n} <=> \E m \in ls : \E i \in 1 .. Len(s2[m]) : x = s2[m][i]
    <3>1. CASE x = n
      BY <3>1, <2>4
    <3>2. CASE x # n
      <4>1. x \in ns <=> \E m \in ls : \E i \in 1 .. Len(s[m]) : x = s[m][i]
        BY <2>1
      <4> QED
        BY <3>2, <4>1, <2>2, <2>3
    <3> QED
      BY <3>1, <3>2
  <2>6. ns \subseteq Nodes
    BY <2>1
  <2> QED
    BY <2>5, <2>6
<1>18. \A m \in ls : \A i \in 0 .. Len(s2[m]) :
         /\ nx2[Cell(m, s2[m], i)] = Cell(m, s2[m], i + 1)
         /\ pv2[Cell(m, s2[m], i + 1)] = Cell(m, s2[m], i)
  BY <1>2, <1>6, <1>12, <1>13
<1>19. RingsOf(s2, ls, ns \cup {n}, nx2, pv2, len2)
  BY <1>3, <1>6, <1>10, <1>11, <1>16, <1>17, <1>18 DEF RingsOf
<1> QED
  BY <1>19 DEF s2, nx2, pv2, len2

\* A sequence without its k-th element.
Without(t, k) == [i \in 1 .. Len(t) - 1 |-> IF i < k THEN t[i] ELSE t[i + 1]]

LEMMA WithoutList ==
  ASSUME NEW S, NEW t \in Seq(S), NEW k \in 1 .. Len(t)
  PROVE  /\ Without(t, k) \in Seq(S) /\ Len(Without(t, k)) = Len(t) - 1
         /\ \A i \in 1 .. Len(t) - 1 : Without(t, k)[i] = IF i < k THEN t[i] ELSE t[i + 1]
<1>1. Len(t) \in Nat /\ Len(t) - 1 \in Nat /\ \A i \in 1 .. Len(t) : t[i] \in S
  BY LenProperties, ElementOfSeq
<1>2. \A i \in 1 .. Len(t) - 1 : (IF i < k THEN t[i] ELSE t[i + 1]) \in S
  BY <1>1
<1> QED
  BY <1>1, <1>2 DEF Without

\* remove: the two neighbours of the k-th node of l point to each other.
LEMMA RemovedRings ==
  ASSUME NEW s, NEW ls, NEW ns, NEW nx, NEW pv, NEW len,
         RingsOf(s, ls, ns, nx, pv, len), NEW l \in ls, NEW k \in 1 .. Len(s[l]),
         NEW n, n = s[l][k]
  PROVE  RingsOf([s EXCEPT ![l] = Without(s[l], k)], ls, ns \ {n},
                 [nx EXCEPT ![pv[n]] = nx[n], ![n] = Garbage],
                 [pv EXCEPT ![nx[n]] = pv[n], ![n] = Garbage],
                 [len EXCEPT ![l] = len[l] - 1])
<1> DEFINE t == s[l]
           z == Len(s[l])
           s2 == [s EXCEPT ![l] = Without(s[l], k)]
           nx2 == [nx EXCEPT ![pv[n]] = nx[n], ![n] = Garbage]
           pv2 == [pv EXCEPT ![nx[n]] = pv[n], ![n] = Garbage]
           len2 == [len EXCEPT ![l] = len[l] - 1]
<1>1. /\ l \in Lists /\ l \notin Nodes /\ t \in Seq(Nodes) /\ z \in Nat /\ len[l] = z
      /\ \A i \in 1 .. z : t[i] \in Nodes /\ t[i] \in ns
      /\ n \in Nodes /\ n # l
  BY RingPlaces
<1>2. /\ Without(t, k) \in Seq(Nodes) /\ Len(Without(t, k)) = z - 1
      /\ \A i \in 1 .. z - 1 : Without(t, k)[i] = IF i < k THEN t[i] ELSE t[i + 1]
  BY <1>1, WithoutList
<1>3. /\ s \in [Lists -> Seq(Nodes)] /\ ls \subseteq Lists
      /\ DOMAIN nx = Nodes \cup Lists /\ DOMAIN pv = Nodes \cup Lists /\ DOMAIN len = Lists
      /\ \A m \in Lists : len[m] = Len(s[m]) /\ (m \notin ls => s[m] = <<>>)
  BY DEF RingsOf
<1>4. \A m \in ls : \A i \in 0 .. Len(s[m]) :
        /\ nx[Cell(m, s[m], i)] = Cell(m, s[m], i + 1)
        /\ pv[Cell(m, s[m], i + 1)] = Cell(m, s[m], i)
  BY DEF RingsOf
<1>5. /\ n = Cell(l, t, k) /\ k \in 0 .. z /\ k - 1 \in 0 .. z /\ (k - 1) + 1 = k
      /\ k + 1 \in 1 .. z + 1 /\ k \in 1 .. z + 1
  BY <1>1 DEF Cell
<1>6. nx[n] = Cell(l, t, k + 1) /\ pv[n] = Cell(l, t, k - 1)
  <2>1. nx[Cell(l, s[l], k)] = Cell(l, s[l], k + 1)
    BY <1>4, <1>5
  <2>2. pv[Cell(l, s[l], (k - 1) + 1)] = Cell(l, s[l], k - 1)
    BY <1>4, <1>5
  <2> QED
    BY <2>1, <2>2, <1>5
<1>7. /\ s2[l] = Without(t, k) /\ \A m \in Lists : m # l => s2[m] = s[m]
      /\ s2 \in [Lists -> Seq(Nodes)]
  BY <1>1, <1>2, <1>3
<1>8. \A m \in ls : \A i : Cell(m, s[m], i) \in Nodes \cup Lists
  BY RingPlaces
<1>9. /\ \A i, j \in 0 .. z : Cell(l, t, i) = Cell(l, t, j) => i = j
      /\ \A i, j \in 1 .. z + 1 : Cell(l, t, i) = Cell(l, t, j) => i = j
  BY CellsDistinct
<1>10. \A c \in Nodes \cup Lists :
        /\ nx2[c] = IF c = n THEN Garbage ELSE IF c = Cell(l, t, k - 1) THEN Cell(l, t, k + 1) ELSE nx[c]
        /\ pv2[c] = IF c = n THEN Garbage ELSE IF c = Cell(l, t, k + 1) THEN Cell(l, t, k - 1) ELSE pv[c]
  BY <1>3, <1>6
<1>11. \A i \in 0 .. z : Cell(l, s2[l], i) = Cell(l, t, IF i < k THEN i ELSE i + 1)
  <2> TAKE i \in 0 .. z
  <2>1. CASE i \in 1 .. z - 1
    <3>1. s2[l][i] = t[IF i < k THEN i ELSE i + 1] /\ (IF i < k THEN i ELSE i + 1) \in 1 .. z
      BY <2>1, <1>1, <1>2, <1>7
    <3> QED
      BY <2>1, <3>1, <1>2, <1>7 DEF Cell
  <2>2. CASE i = 0
    BY <2>2, <1>1, <1>2, <1>7 DEF Cell
  <2>3. CASE i = z
    BY <2>3, <1>1, <1>2, <1>7 DEF Cell
  <2> QED
    BY <1>1, <2>1, <2>2, <2>3
<1>12. DOMAIN nx2 = Nodes \cup Lists /\ DOMAIN pv2 = Nodes \cup Lists /\ DOMAIN len2 = Lists
  BY <1>3
<1>13. \A m \in Lists : len2[m] = Len(s2[m]) /\ (m \notin ls => s2[m] = <<>>)
  BY <1>1, <1>2, <1>3, <1>7
<1> HIDE DEF nx2, pv2, len2, s2
<1>14. ASSUME NEW i \in 0 .. z - 1
       PROVE  /\ nx2[Cell(l, s2[l], i)] = Cell(l, s2[l], i + 1)
              /\ pv2[Cell(l, s2[l], i + 1)] = Cell(l, s2[l], i)
  <2>0. i \in 0 .. z /\ i + 1 \in 0 .. z
    BY <1>1
  <2>1. CASE i = k - 1
    <3>1. Cell(l, s2[l], i) = Cell(l, t, k - 1) /\ Cell(l, s2[l], i + 1) = Cell(l, t, k + 1)
      BY <2>0, <2>1, <1>11
    <3>2. Cell(l, t, k - 1) # n /\ Cell(l, t, k + 1) # n
      BY <1>5, <1>9
    <3> QED
      BY <3>1, <3>2, <1>8, <1>10
  <2>2. CASE i # k - 1
    <3> DEFINE a == IF i < k THEN i ELSE i + 1
    <3>1. Cell(l, s2[l], i) = Cell(l, t, a) /\ Cell(l, s2[l], i + 1) = Cell(l, t, a + 1)
      BY <2>0, <2>2, <1>11
    <3>2. a \in 0 .. z /\ a # k /\ a # k - 1 /\ a + 1 \in 1 .. z + 1 /\ a + 1 # k /\ a + 1 # k + 1
      BY <2>2, <1>1
    <3> HIDE DEF a
    <3>3. Cell(l, t, a) # n /\ Cell(l, t, a) # Cell(l, t, k - 1)
      BY <3>2, <1>5, <1>9
    <3>4. Cell(l, t, a + 1) # n /\ Cell(l, t, a + 1) # Cell(l, t, k + 1)
      BY <3>2, <1>5, <1>9
    <3>5. nx[Cell(l, t, a)] = Cell(l, t, a + 1) /\ pv[Cell(l, t, a + 1)] = Cell(l, t, a)
      BY <3>2, <1>4
    <3>6. nx2[Cell(l, t, a)] = nx[Cell(l, t, a)] /\ pv2[Cell(l, t, a + 1)] = pv[Cell(l, t, a + 1)]
      BY <3>3, <3>4, <1>8, <1>10
    <3> QED
      BY <3>1, <3>5, <3>6
  <2> QED
    BY <2>1, <2>2
<1>15. ASSUME NEW m \in ls, m # l, NEW i \in 0 .. Len(s2[m])
       PROVE  /\ nx2[Cell(m, s2[m], i)] = Cell(m, s2[m], i + 1)
              /\ pv2[Cell(m, s2[m], i + 1)] = Cell(m, s2[m], i)
  <2>1. s2[m] = s[m]
    BY <1>15, <1>3, <1>7
  <2>2. \A j, b : Cell(m, s[m], j) # Cell(l, s[l], b)
    BY <1>15, RingsApart
  <2>3. /\ nx[Cell(m, s[m], i)] = Cell(m, s[m], i + 1)
        /\ pv[Cell(m, s[m], i + 1)] = Cell(m, s[m], i)
    BY <2>1, <1>4
  <2>4. /\ nx2[Cell(m, s[m], i)] = nx[Cell(m, s[m], i)]
        /\ pv2[Cell(m, s[m], i + 1)] = pv[Cell(m, s[m], i + 1)]
    <3>1. \A c \in Nodes \cup Lists :
            c # n /\ c # Cell(l, t, k - 1) /\ c # Cell(l, t, k + 1) => nx2[c] = nx[c] /\ pv2[c] = pv[c]
      BY <1>10
    <3>2. \A j : /\ Cell(m, s[m], j) \in Nodes \cup Lists /\ Cell(m, s[m], j) # n
                 /\ Cell(m, s[m], j) # Cell(l, t, k - 1) /\ Cell(m, s[m], j) # Cell(l, t, k + 1)
      BY <2>2, <1>5, <1>8
    <3> QED
      BY <3>1, <3>2
  <2> QED
    BY <2>1, <2>3, <2>4
<1>16. ASSUME NEW m \in ls, NEW i \in 1 .. Len(s2[m])
       PROVE  \E j \in 1 .. Len(s[m]) :
                /\ s2[m][i] = s[m][j]
                /\ m = l => j # k /\ j = (IF i < k THEN i ELSE i + 1)
                /\ m # l => j = i
  <2>1. CASE m = l
    <3>1. i \in 1 .. z - 1 /\ (IF i < k THEN i ELSE i + 1) \in 1 .. z /\ (IF i < k THEN i ELSE i + 1) # k
      BY <2>1, <1>1, <1>2, <1>7
    <3>2. s2[m][i] = s[m][IF i < k THEN i ELSE i + 1]
      BY <2>1, <3>1, <1>2, <1>7
    <3> QED
      BY <2>1, <3>1, <3>2
  <2>2. CASE m # l
    BY <2>2, <1>3, <1>7
  <2> QED
    BY <2>1, <2>2
<1>17. ASSUME NEW m \in ls, NEW j \in 1 .. Len(s[m]), s[m][j] # n
       PROVE  \E i \in 1 .. Len(s2[m]) : s[m][j] = s2[m][i]
  <2>1. CASE m = l
    <3>1. j # k /\ j \in 1 .. z
      BY <2>1, <1>17
    <3> DEFINE i == IF j < k THEN j ELSE j - 1
    <3>2. i \in 1 .. z - 1 /\ (IF i < k THEN i ELSE i + 1) = j
      BY <3>1, <1>1
    <3> HIDE DEF i
    <3>3. s2[l][i] = t[IF i < k THEN i ELSE i + 1] /\ Len(s2[l]) = z - 1
      BY <3>2, <1>2, <1>7
    <3> QED
      BY <2>1, <3>2, <3>3
  <2>2. CASE m # l
    BY <2>2, <1>3, <1>7
  <2> QED
    BY <2>1, <2>2
<1>18. \A p, q \in ls : \A a \in 1 .. Len(s[p]), b \in 1 .. Len(s[q]) :
          s[p][a] = s[q][b] => p = q /\ a = b
  BY DEF RingsOf
<1>19. ASSUME NEW m \in ls, NEW o \in ls, NEW i \in 1 .. Len(s2[m]), NEW j \in 1 .. Len(s2[o]),
              s2[m][i] = s2[o][j]
       PROVE  m = o /\ i = j
  <2>1. PICK a \in 1 .. Len(s[m]) : /\ s2[m][i] = s[m][a]
                                    /\ m = l => a = (IF i < k THEN i ELSE i + 1)
                                    /\ m # l => a = i
    BY <1>16
  <2>2. PICK b \in 1 .. Len(s[o]) : /\ s2[o][j] = s[o][b]
                                    /\ o = l => b = (IF j < k THEN j ELSE j + 1)
                                    /\ o # l => b = j
    BY <1>16
  <2>3. m = o /\ a = b
    <3>1. s[m][a] = s[o][b]
      BY <2>1, <2>2, <1>19
    <3> QED
      BY <3>1, <1>18
  <2>4. i \in Int /\ j \in Int /\ k \in Int
    <3>1. Len(s2[m]) \in Nat /\ Len(s2[o]) \in Nat
      BY <1>3, <1>7, LenProperties
    <3> QED
      BY <3>1
  <2> QED
    BY <2>1, <2>2, <2>3, <2>4
<1>20. ns \ {n} = {x \in Nodes : \E m \in ls : \E i \in 1 .. Len(s2[m]) : x = s2[m][i]}
  <2>1. ns = {x \in Nodes : \E m \in ls : \E i \in 1 .. Len(s[m]) : x = s[m][i]}
    BY DEF RingsOf
  <2>2. ASSUME NEW m \in ls, NEW i \in 1 .. Len(s2[m])
        PROVE  s2[m][i] # n /\ s2[m][i] \in ns
    <3>1. PICK j \in 1 .. Len(s[m]) : s2[m][i] = s[m][j] /\ (m = l => j # k)
      BY <1>16
    <3>2. s[m][j] # s[l][k]
      BY <3>1, <1>18
    <3>3. s[m][j] \in ns
      BY RingPlaces
    <3> QED
      BY <3>1, <3>2, <3>3
  <2>3. ASSUME NEW x \in Nodes
        PROVE  x \in ns \ {n} <=> \E m \in ls : \E i \in 1 .. Len(s2[m]) : x = s2[m][i]
    <3>1. ASSUME x \in ns \ {n}
          PROVE  \E m \in ls : \E i \in 1 .. Len(s2[m]) : x = s2[m][i]
      BY <3>1, <2>1, <1>17
    <3> QED
      BY <3>1, <2>2
  <2> QED
    BY <2>1, <2>3
<1>21. \A m \in ls : \A i \in 0 .. Len(s2[m]) :
         /\ nx2[Cell(m, s2[m], i)] = Cell(m, s2[m], i + 1)
         /\ pv2[Cell(m, s2[m], i + 1)] = Cell(m, s2[m], i)
  BY <1>2, <1>7, <1>14, <1>15
<1>22. RingsOf(s2, ls, ns \ {n}, nx2, pv2, len2)
  BY <1>3, <1>7, <1>12, <1>13, <1>19, <1>20, <1>21 DEF RingsOf
<1> QED
  BY <1>22 DEF s2, nx2, pv2, len2

----------------------------------------------------------------------------
(* The steps of the map, and LinksSound. *)

\* No list has more nodes than there are.
LEMMA RingFits ==
  ASSUME NEW s, Rings(s), NEW l \in made
  PROVE  length[l] <= Cardinality(Nodes) /\ Cardinality(Nodes) \in Nat
<1>1. \A i \in 1 .. Len(s[l]) : s[l][i] \in Nodes
  BY RingPlaces DEF Rings
<1>2. Members(l) \subseteq Nodes
  BY <1>1, RingMembers
<1> QED
  BY <1>2, RingCount, HeapAssumption, FS_Subset, FS_CardinalityType

\* createMap: no list at all.
LEMMA NoRings ==
  ASSUME NoLists
  PROVE  Rings([l \in Lists |-> <<>>])
<1> DEFINE s == [l \in Lists |-> <<>>]
<1>1. s \in [Lists -> Seq(Nodes)] /\ \A l \in Lists : s[l] = <<>> /\ Len(s[l]) = 0
  OBVIOUS
<1> HIDE DEF s
<1>2. RingsOf(s, made, live, next, prev, length)
  BY <1>1 DEF RingsOf, NoLists
<1> QED
  BY <1>2 DEF Rings, s, NoLists

\* map_add stores the pair in a fresh node at the end of its bucket, or
\* leaves the nodes as they were.
LEMMA AddRings ==
  ASSUME NEW s, Rings(s), NEW key \in Keys, NEW value \in Values \cup {NoValue},
         map_add(key, value)
  PROVE  \/ /\ value \in Values /\ Said("add", key, "SUCCESS", value)
            /\ \E n \in Nodes \ live :
                 /\ element' = [element EXCEPT ![n] = [key |-> key, value |-> value]]
                 /\ live' = live \cup {n}
                 /\ Rings([s EXCEPT ![hash(key)] = Append(s[hash(key)], n)])'
         \/ /\ Said("add", key, "ERROR", value)
            /\ element' = element /\ live' = live /\ Rings(s)'
<1> DEFINE l == hash(key)
           links == IF l \in made THEN [next |-> next, prev |-> prev] ELSE Created(l)
           ls == made \cup {l}
<1>1. l \in Lists
  BY BucketsAssumption DEF hash
<1>2. RingsOf(s, ls, live, links.next, links.prev, length)
  <2>1. CASE l \in made
    <3>1. ls = made /\ links.next = next /\ links.prev = prev
      BY <2>1
    <3> QED
      BY <3>1 DEF Rings
  <2>2. CASE l \notin made
    <3>1. links = Created(l) /\ l \in Lists \ made
      BY <2>2, <1>1
    <3> QED
      BY <3>1, CreatedRings
  <2> QED
    BY <2>1, <2>2
<1>3. DOMAIN element = Nodes
  BY DEF Rings
<1>4. CASE Said("add", key, "ERROR", value) /\ UNCHANGED heap
  <2>1. Rings(s)'
    BY <1>4 DEF heap, Rings
  <2> QED
    BY <1>4, <2>1 DEF heap
<1>5. ASSUME value # NoValue, made' = ls, NEW rv \in {"SUCCESS", "ERROR"},
             append(l, [key |-> key, value |-> value], links, rv), Said("add", key, rv, value)
      PROVE  \/ /\ value \in Values /\ Said("add", key, "SUCCESS", value)
                /\ \E n \in Nodes \ live :
                     /\ element' = [element EXCEPT ![n] = [key |-> key, value |-> value]]
                     /\ live' = live \cup {n}
                     /\ Rings([s EXCEPT ![l] = Append(s[l], n)])'
             \/ /\ Said("add", key, "ERROR", value)
                /\ element' = element /\ live' = live /\ Rings(s)'
  <2> HIDE DEF links, ls
  <2>1. CASE rv = "SUCCESS"
    <3>1. PICK n \in Nodes \ live :
            /\ live' = live \cup {n}
            /\ element' = [element EXCEPT ![n] = [key |-> key, value |-> value]]
            /\ Link(n, l, [key |-> key, value |-> value], links)
            /\ length' = [length EXCEPT ![l] = @ + 1]
      BY <1>5, <2>1 DEF append
    <3>2. /\ next' = [links.next EXCEPT ![links.prev[l]] = n, ![n] = l]
          /\ prev' = [links.prev EXCEPT ![l] = n, ![n] = links.prev[l]]
          /\ length' = [length EXCEPT ![l] = length[l] + 1]
      BY <3>1 DEF Link
    <3>3. l \in ls
      BY DEF ls
    <3>4. RingsOf([s EXCEPT ![l] = Append(s[l], n)], ls, live \cup {n}, next', prev', length')
      BY <1>2, <3>2, <3>3, AppendedRings
    <3>5. DOMAIN element' = Nodes
      BY <1>3, <3>1
    <3>6. Rings([s EXCEPT ![l] = Append(s[l], n)])'
      BY <1>5, <3>1, <3>4, <3>5 DEF Rings
    <3> QED
      BY <1>5, <2>1, <3>1, <3>6
  <2>2. CASE rv = "ERROR"
    <3>1. next' = links.next /\ prev' = links.prev /\ UNCHANGED <<live, element, length>>
      BY <1>5, <2>2 DEF append
    <3>2. Rings(s)'
      BY <1>2, <1>3, <1>5, <3>1 DEF Rings
    <3> QED
      BY <1>5, <2>2, <3>1, <3>2
  <2> QED
    BY <1>5, <2>1, <2>2
<1> QED
  BY <1>4, <1>5 DEF map_add

\* remove takes one node out of its ring, and the element with it.
LEMMA RemoveRings ==
  ASSUME NEW s, Rings(s), NEW l \in made, NEW idx \in Nat, remove(l, idx)
  PROVE  /\ idx + 1 \in 1 .. Len(s[l])
         /\ element' = [element EXCEPT ![s[l][idx + 1]] = Garbage]
         /\ live' = live \ {s[l][idx + 1]}
         /\ Rings([s EXCEPT ![l] = Without(s[l], idx + 1)])'
<1> DEFINE n == s[l][idx + 1]
<1>1. idx \in 0 .. length[l] - 1 /\ idx + 1 \in 1 .. Len(s[l]) /\ NodeAt(l, idx) = n
  BY RingMembers DEF remove, InRange
<1> HIDE DEF n
<1>2. /\ next' = [next EXCEPT ![prev[n]] = next[n], ![n] = Garbage]
      /\ prev' = [prev EXCEPT ![next[n]] = prev[n], ![n] = Garbage]
      /\ live' = live \ {n}
      /\ element' = [element EXCEPT ![n] = Garbage]
      /\ length' = [length EXCEPT ![l] = length[l] - 1]
      /\ made' = made
  BY <1>1 DEF remove
<1>3. RingsOf(s, made, live, next, prev, length) /\ DOMAIN element = Nodes
  BY DEF Rings
<1>4. RingsOf([s EXCEPT ![l] = Without(s[l], idx + 1)], made, live \ {n}, next', prev', length')
  BY <1>1, <1>2, <1>3, RemovedRings DEF n
<1>5. Rings([s EXCEPT ![l] = Without(s[l], idx + 1)])'
  BY <1>2, <1>3, <1>4 DEF Rings
<1> QED
  BY <1>1, <1>2, <1>5 DEF n

\* map_destroy frees every node of every list.
LEMMA DestroyRings ==
  ASSUME HeapSound, destroyAll(made)
  PROVE  live' = {} /\ Rings([l \in Lists |-> <<>>])'
<1> DEFINE s == [l \in Lists |-> <<>>]
<1>1. live = UNION {Members(l) : l \in made} /\ made \subseteq Lists
  BY SoundLinks DEF LinksSound, HeapSound, Rings, RingsOf
<1>2. /\ made' = {} /\ live' = {} /\ length' = [l \in Lists |-> IF l \in made THEN 0 ELSE length[l]]
      /\ DOMAIN next' = Nodes \cup Lists /\ DOMAIN prev' = Nodes \cup Lists
      /\ DOMAIN element' = Nodes
  BY <1>1 DEF destroyAll
<1>3. \A l \in Lists : length'[l] = 0
  <2>1. \A l \in Lists : l \notin made => length[l] = 0
    BY DEF HeapSound, Rings, RingsOf
  <2> QED
    BY <1>2, <2>1
<1>4. s \in [Lists -> Seq(Nodes)] /\ \A l \in Lists : s[l] = <<>> /\ Len(s[l]) = 0
  OBVIOUS
<1> HIDE DEF s
<1>5. DOMAIN length' = Lists
  BY <1>2
<1>6. RingsOf(s, {}, {}, next', prev', length')
  BY <1>2, <1>3, <1>4, <1>5 DEF RingsOf
<1>7. Rings(s)'
  BY <1>2, <1>6 DEF Rings
<1> QED
  BY <1>2, <1>7 DEF s

\* A node that is allocated holds a pair of the map.
ElementsTyped == \A n \in live : element[n] \in KeyValue

IInv == HeapSound /\ ElementsTyped

LEMMA InvInit == createMap => IInv
<1> SUFFICES ASSUME createMap PROVE IInv
  OBVIOUS
<1>1. NoLists
  BY DEF createMap
<1>2. HeapSound
  BY <1>1, NoRings DEF HeapSound
<1>3. ElementsTyped
  BY <1>1 DEF NoLists, ElementsTyped
<1> QED
  BY <1>2, <1>3 DEF IInv

LEMMA InvStep == IInv /\ [Next]_vars => IInv'
<1> SUFFICES ASSUME IInv, [Next]_vars PROVE IInv'
  OBVIOUS
<1>1. PICK s : Rings(s)
  BY DEF IInv, HeapSound
<1>2. ElementsTyped /\ live \subseteq Nodes /\ DOMAIN element = Nodes
  BY <1>1 DEF IInv, Rings, RingsOf
<1>3. CASE UNCHANGED heap
  <2>1. Rings(s)'
    BY <1>1, <1>3 DEF heap, Rings
  <2>2. ElementsTyped'
    BY <1>2, <1>3 DEF heap, ElementsTyped
  <2> QED
    BY <2>1, <2>2 DEF IInv, HeapSound
<1>4. ASSUME NEW k \in Keys, NEW v \in Values \cup {NoValue}, map_add(k, v)
      PROVE  IInv'
  <2>1. CASE /\ v \in Values /\ Said("add", k, "SUCCESS", v)
             /\ \E n \in Nodes \ live :
                  /\ element' = [element EXCEPT ![n] = [key |-> k, value |-> v]]
                  /\ live' = live \cup {n}
                  /\ Rings([s EXCEPT ![hash(k)] = Append(s[hash(k)], n)])'
    <3>1. PICK n \in Nodes \ live :
            /\ element' = [element EXCEPT ![n] = [key |-> k, value |-> v]]
            /\ live' = live \cup {n}
            /\ Rings([s EXCEPT ![hash(k)] = Append(s[hash(k)], n)])'
      BY <2>1
    <3>2. HeapSound'
      BY <3>1 DEF HeapSound
    <3>3. [key |-> k, value |-> v] \in KeyValue
      BY <2>1 DEF KeyValue
    <3>4. ElementsTyped'
      BY <1>2, <3>1, <3>3 DEF ElementsTyped
    <3> QED
      BY <3>2, <3>4 DEF IInv
  <2>2. CASE /\ Said("add", k, "ERROR", v)
             /\ element' = element /\ live' = live /\ Rings(s)'
    BY <1>2, <2>2 DEF IInv, HeapSound, ElementsTyped
  <2> QED
    BY <1>1, <1>4, <2>1, <2>2, AddRings
<1>5. ASSUME NEW k \in Keys, map_remove(k)
      PROVE  IInv'
  <2>1. CASE \E i \in 0 .. Cardinality(Nodes) : Found(k, i) /\ remove(hash(k), i)
    <3>1. PICK i \in 0 .. Cardinality(Nodes) : Found(k, i) /\ remove(hash(k), i)
      BY <2>1
    <3>2. hash(k) \in made /\ i \in Nat
      <4>1. Cardinality(Nodes) \in Nat
        BY HeapAssumption, FS_CardinalityType
      <4> QED
        BY <3>1, <4>1 DEF Found
    <3> DEFINE n == s[hash(k)][i + 1]
    <3>3. /\ element' = [element EXCEPT ![n] = Garbage] /\ live' = live \ {n}
          /\ Rings([s EXCEPT ![hash(k)] = Without(s[hash(k)], i + 1)])'
      BY <1>1, <3>1, <3>2, RemoveRings
    <3>4. ElementsTyped'
      BY <1>2, <3>3 DEF ElementsTyped
    <3> QED
      BY <3>3, <3>4 DEF IInv, HeapSound
  <2>2. CASE UNCHANGED heap
    BY <1>3, <2>2
  <2> QED
    BY <1>5, <2>1, <2>2 DEF map_remove
<1>6. CASE map_destroy
  <2>1. live' = {} /\ Rings([l \in Lists |-> <<>>])'
    BY <1>6, DestroyRings DEF IInv, map_destroy
  <2> QED
    BY <2>1 DEF IInv, HeapSound, ElementsTyped
<1>7. ASSUME NEW k \in Keys, map_get(k)
      PROVE  IInv'
  BY <1>3, <1>7 DEF map_get
<1>8. CASE UNCHANGED vars
  BY <1>3, <1>8 DEF vars
<1> QED
  BY <1>4, <1>5, <1>6, <1>7, <1>8 DEF Next

\* The links of the map's lists stay sound (list.c): both directions agree,
\* the lengths are the numbers of nodes, no node is shared, leaked, or freed
\* and still pointed to.
THEOREM LinksStaySound == Spec => []LinksSound
<1>1. Spec => []IInv
  BY InvInit, InvStep, PTL DEF Spec
<1>2. IInv => LinksSound
  BY SoundLinks DEF IInv
<1> QED
  BY <1>1, <1>2, PTL

----------------------------------------------------------------------------
(* The values of a key in a sequence of pairs. *)

\* u[i] are the values of k among the first i pairs of b.
Reading(u, k, b) ==
  /\ u \in [0 .. Len(b) -> Seq(Values)] /\ u[0] = <<>>
  /\ \A i \in 1 .. Len(b) :
       u[i] = IF b[i].key = k THEN Append(u[i - 1], b[i].value) ELSE u[i - 1]
  /\ ValuesOf(k, b) = u[Len(b)]

\* ValuesOf reads a bucket from left to right.
LEMMA ValuesUpTo ==
  ASSUME NEW b \in Seq(KeyValue), NEW k
  PROVE  \E u : Reading(u, k, b)
<1> DEFINE upTo[i \in 0 .. Len(b)] ==
             IF i = 0 THEN <<>>
             ELSE IF b[i].key = k THEN Append(upTo[i - 1], b[i].value)
             ELSE upTo[i - 1]
           More(g, i) == IF i = 0 THEN <<>>
                         ELSE IF b[i].key = k THEN Append(g[i - 1], b[i].value)
                         ELSE g[i - 1]
           Step(g, n) == [i \in 0 .. n |-> More(g, i)]
           S == {n \in 0 .. Len(b) : \E g : g = Step(g, n)}
           T == {n \in 0 .. Len(b) : upTo[n] \in Seq(Values)}
<1>1. Len(b) \in Nat /\ \A i \in 1 .. Len(b) : b[i].value \in Values
  <2>1. Len(b) \in Nat /\ \A i \in 1 .. Len(b) : b[i] \in KeyValue
    BY LenProperties, ElementOfSeq
  <2> QED
    BY <2>1 DEF KeyValue
<1>2. ValuesOf(k, b) = upTo[Len(b)]
  BY DEF ValuesOf
<1>3. 0 \in S
  <2> DEFINE g == [i \in 0 .. 0 |-> <<>>]
  <2>1. g = Step(g, 0)
    OBVIOUS
  <2>2. 0 \in 0 .. Len(b)
    BY <1>1
  <2> HIDE DEF g, Step
  <2> QED
    BY <2>1, <2>2
<1>4. ASSUME NEW n \in 0 .. Len(b) - 1, n \in S
      PROVE  n + 1 \in S
  <2>1. PICK g : g = Step(g, n)
    BY <1>4
  <2> DEFINE h == [i \in 0 .. n + 1 |-> IF i = n + 1 THEN More(g, n + 1) ELSE g[i]]
  <2>2. \A i \in 0 .. n : g[i] = More(g, i)
    BY <2>1
  <2>3. \A i \in 0 .. n : h[i] = g[i]
    BY <1>1
  <2>4. \A i \in 0 .. n + 1 : i = 0 \/ i - 1 \in 0 .. n
    BY <1>1
  <2>5. \A i \in 0 .. n + 1 : More(h, i) = More(g, i)
    <3> HIDE DEF h
    <3> QED
      BY <2>3, <2>4
  <2>6. \A i \in 0 .. n + 1 : h[i] = More(g, i)
    <3> HIDE DEF More
    <3> QED
      BY <2>2, <1>1
  <2>7. h = [i \in 0 .. n + 1 |-> h[i]]
    OBVIOUS
  <2> HIDE DEF h, More
  <2>8. h = Step(h, n + 1)
    BY <2>5, <2>6, <2>7
  <2>9. n + 1 \in 0 .. Len(b)
    BY <1>1
  <2> QED
    BY <2>8, <2>9
<1>5. \E g : g = Step(g, Len(b))
  <2>1. \A n \in 0 .. Len(b) : n \in S
    <3> HIDE DEF S
    <3> QED
      BY <1>1, <1>3, <1>4, IntervalInduction
  <2>2. Len(b) \in 0 .. Len(b)
    BY <1>1
  <2> HIDE DEF Step
  <2> QED
    BY <2>1, <2>2
<1>6. upTo = CHOOSE g : g = Step(g, Len(b))
  OBVIOUS
<1> HIDE DEF upTo
<1>7. upTo = Step(upTo, Len(b))
  <2> HIDE DEF Step
  <2> QED
    BY <1>5, <1>6
<1>8. /\ upTo[0] = <<>> /\ DOMAIN upTo = 0 .. Len(b)
      /\ \A i \in 1 .. Len(b) :
           upTo[i] = IF b[i].key = k THEN Append(upTo[i - 1], b[i].value) ELSE upTo[i - 1]
      /\ upTo = [i \in 0 .. Len(b) |-> upTo[i]]
  <2>1. DOMAIN upTo = 0 .. Len(b) /\ upTo = [i \in 0 .. Len(b) |-> upTo[i]]
    BY <1>7
  <2>2. \A i \in 0 .. Len(b) : upTo[i] = More(upTo, i)
    BY <1>7
  <2>3. upTo[0] = <<>>
    BY <1>1, <2>2
  <2>4. ASSUME NEW i \in 1 .. Len(b)
        PROVE  upTo[i] = IF b[i].key = k THEN Append(upTo[i - 1], b[i].value) ELSE upTo[i - 1]
    <3>1. i \in 0 .. Len(b) /\ i # 0
      BY <1>1
    <3> QED
      BY <3>1, <2>2
  <2> QED
    BY <2>1, <2>3, <2>4
<1> HIDE DEF Step, More
<1>9. 0 \in T
  BY <1>1, <1>8
<1>10. ASSUME NEW n \in 0 .. Len(b) - 1, n \in T
       PROVE  n + 1 \in T
  <2>1. n + 1 \in 1 .. Len(b) /\ n + 1 \in 0 .. Len(b) /\ (n + 1) - 1 = n
    BY <1>1
  <2>2. upTo[n + 1] = IF b[n + 1].key = k THEN Append(upTo[n], b[n + 1].value) ELSE upTo[n]
    BY <2>1, <1>8
  <2>3. b[n + 1].value \in Values /\ upTo[n] \in Seq(Values)
    BY <2>1, <1>1, <1>10
  <2>4. upTo[n + 1] \in Seq(Values)
    BY <2>2, <2>3, AppendProperties
  <2> QED
    BY <2>1, <2>4
<1>11. \A i \in 0 .. Len(b) : i \in T
  <2> HIDE DEF T
  <2> QED
    BY <1>1, <1>9, <1>10, IntervalInduction
<1>12. upTo \in [0 .. Len(b) -> Seq(Values)]
  BY <1>8, <1>11
<1> QED
  BY <1>2, <1>8, <1>12 DEF Reading

LEMMA ValuesOfNone ==
  ASSUME NEW b \in Seq(KeyValue), NEW k, \A i \in 1 .. Len(b) : b[i].key # k
  PROVE  ValuesOf(k, b) = <<>>
<1>1. PICK u : Reading(u, k, b)
  BY ValuesUpTo
<1> DEFINE S == {i \in Nat : u[i] = <<>>}
<1>2. Len(b) \in Nat /\ 0 \in S
  BY <1>1, LenProperties DEF Reading
<1>3. ASSUME NEW i \in 0 .. Len(b) - 1, i \in S
      PROVE  i + 1 \in S
  <2>1. i + 1 \in 1 .. Len(b) /\ (i + 1) - 1 = i /\ i + 1 \in Nat
    BY <1>2
  <2>2. u[i + 1] = u[i]
    BY <1>1, <2>1 DEF Reading
  <2> QED
    BY <1>3, <2>1, <2>2
<1>4. \A i \in 0 .. Len(b) : i \in S
  <2> HIDE DEF S
  <2> QED
    BY <1>2, <1>3, IntervalInduction
<1> QED
  BY <1>1, <1>2, <1>4 DEF Reading

\* A pair at the end is a value at the end, for its own key only.
LEMMA ValuesOfAppend ==
  ASSUME NEW b \in Seq(KeyValue), NEW e \in KeyValue, NEW k
  PROVE  ValuesOf(k, Append(b, e)) =
           IF e.key = k THEN Append(ValuesOf(k, b), e.value) ELSE ValuesOf(k, b)
<1> DEFINE a == Append(b, e)
<1>1. /\ Len(b) \in Nat /\ a \in Seq(KeyValue) /\ Len(a) = Len(b) + 1
      /\ \A i \in 1 .. Len(b) : a[i] = b[i]
      /\ a[Len(b) + 1] = e
  BY LenProperties, AppendProperties
<1> HIDE DEF a
<1>2. PICK u : Reading(u, k, b)
  BY ValuesUpTo
<1>3. PICK w : Reading(w, k, a)
  BY <1>1, ValuesUpTo
<1> DEFINE S == {i \in Nat : w[i] = u[i]}
<1>4. 0 \in S
  BY <1>2, <1>3 DEF Reading
<1>5. ASSUME NEW i \in 0 .. Len(b) - 1, i \in S
      PROVE  i + 1 \in S
  <2>1. /\ i + 1 \in 1 .. Len(b) /\ (i + 1) - 1 = i /\ i + 1 \in Nat /\ i + 1 \in 1 .. Len(a)
        /\ a[i + 1] = b[i + 1]
    BY <1>1
  <2>2. u[i + 1] = IF b[i + 1].key = k THEN Append(u[i], b[i + 1].value) ELSE u[i]
    BY <1>2, <2>1 DEF Reading
  <2>3. w[i + 1] = IF b[i + 1].key = k THEN Append(w[i], b[i + 1].value) ELSE w[i]
    BY <1>3, <2>1 DEF Reading
  <2> QED
    BY <1>5, <2>1, <2>2, <2>3
<1>6. \A i \in 0 .. Len(b) : i \in S
  <2> HIDE DEF S
  <2> QED
    BY <1>1, <1>4, <1>5, IntervalInduction
<1>7. Len(b) + 1 \in 1 .. Len(a) /\ (Len(b) + 1) - 1 = Len(b) /\ w[Len(b)] = u[Len(b)]
  BY <1>1, <1>6
<1>8. w[Len(b) + 1] = IF e.key = k THEN Append(w[Len(b)], e.value) ELSE w[Len(b)]
  BY <1>1, <1>3, <1>7 DEF Reading
<1> QED
  BY <1>1, <1>2, <1>3, <1>7, <1>8 DEF Reading, a

\* Without a pair of another key the values are the same ...
LEMMA ValuesOfOthers ==
  ASSUME NEW b \in Seq(KeyValue), NEW p \in 1 .. Len(b), NEW k, b[p].key # k
  PROVE  ValuesOf(k, Without(b, p)) = ValuesOf(k, b)
<1> DEFINE a == Without(b, p)
<1>1. /\ Len(b) \in Nat /\ a \in Seq(KeyValue) /\ Len(a) = Len(b) - 1
      /\ \A i \in 1 .. Len(b) - 1 : a[i] = IF i < p THEN b[i] ELSE b[i + 1]
  BY LenProperties, WithoutList
<1> HIDE DEF a
<1>2. PICK u : Reading(u, k, b)
  BY ValuesUpTo
<1>3. PICK w : Reading(w, k, a)
  BY <1>1, ValuesUpTo
<1> DEFINE S == {i \in Nat : IF i < p THEN w[i] = u[i] ELSE w[i - 1] = u[i]}
<1>4. 0 \in S
  BY <1>2, <1>3 DEF Reading
<1>5. ASSUME NEW i \in 0 .. Len(b) - 1, i \in S
      PROVE  i + 1 \in S
  <2>1. i + 1 \in 1 .. Len(b) /\ (i + 1) - 1 = i /\ i + 1 \in Nat /\ i \in Int /\ p \in Int
    BY <1>1
  <2>2. u[i + 1] = IF b[i + 1].key = k THEN Append(u[i], b[i + 1].value) ELSE u[i]
    BY <1>2, <2>1 DEF Reading
  <2>3. CASE i + 1 < p
    <3>1. i < p /\ i + 1 \in 1 .. Len(b) - 1 /\ i + 1 \in 1 .. Len(a) /\ a[i + 1] = b[i + 1]
      <4>1. i < p /\ i + 1 \in 1 .. Len(b) - 1
        BY <1>1, <2>1, <2>3
      <4> QED
        BY <4>1, <1>1, <2>3
    <3>2. w[i + 1] = IF b[i + 1].key = k THEN Append(w[i], b[i + 1].value) ELSE w[i]
      BY <1>3, <2>1, <3>1 DEF Reading
    <3> QED
      BY <1>5, <2>1, <2>2, <2>3, <3>1, <3>2
  <2>4. CASE i + 1 = p
    <3>1. i < p /\ ~ (i + 1 < p) /\ u[i + 1] = u[i]
      BY <2>1, <2>2, <2>4
    <3> QED
      BY <1>5, <2>1, <3>1
  <2>5. CASE i + 1 > p
    <3>1. /\ ~ (i < p) /\ ~ (i + 1 < p) /\ i \in 1 .. Len(b) - 1 /\ i \in 1 .. Len(a)
          /\ a[i] = b[i + 1]
      BY <1>1, <2>1, <2>5
    <3>2. w[i] = IF b[i + 1].key = k THEN Append(w[i - 1], b[i + 1].value) ELSE w[i - 1]
      BY <1>3, <3>1 DEF Reading
    <3> QED
      BY <1>5, <2>1, <2>2, <3>1, <3>2
  <2> QED
    BY <2>1, <2>3, <2>4, <2>5
<1>6. \A i \in 0 .. Len(b) : i \in S
  <2> HIDE DEF S
  <2> QED
    BY <1>1, <1>4, <1>5, IntervalInduction
<1>7. Len(b) \in S /\ ~ (Len(b) < p)
  BY <1>1, <1>6
<1>8. w[Len(b) - 1] = u[Len(b)]
  BY <1>7
<1> QED
  BY <1>1, <1>2, <1>3, <1>8 DEF Reading, a

\* ... and the first pair of a key is the head of its values.
LEMMA ValuesOfFirst ==
  ASSUME NEW b \in Seq(KeyValue), NEW p \in 1 .. Len(b), NEW k, b[p].key = k,
         \A i \in 1 .. p - 1 : b[i].key # k
  PROVE  /\ ValuesOf(k, b) # <<>> /\ Head(ValuesOf(k, b)) = b[p].value
         /\ ValuesOf(k, Without(b, p)) = Tail(ValuesOf(k, b))
<1> DEFINE a == Without(b, p)
<1>1. /\ Len(b) \in Nat /\ a \in Seq(KeyValue) /\ Len(a) = Len(b) - 1
      /\ \A i \in 1 .. Len(b) - 1 : a[i] = IF i < p THEN b[i] ELSE b[i + 1]
  BY LenProperties, WithoutList
<1> HIDE DEF a
<1>2. PICK u : Reading(u, k, b)
  BY ValuesUpTo
<1>3. PICK w : Reading(w, k, a)
  BY <1>1, ValuesUpTo
<1> DEFINE Z == {i \in Nat : u[i] = <<>> /\ w[i] = <<>>}
<1>4. 0 \in Z
  BY <1>2, <1>3 DEF Reading
<1>5. ASSUME NEW i \in 0 .. (p - 1) - 1, i \in Z
      PROVE  i + 1 \in Z
  <2>1. /\ i + 1 \in 1 .. Len(b) /\ (i + 1) - 1 = i /\ i + 1 \in Nat /\ i + 1 \in 1 .. p - 1
        /\ i + 1 \in 1 .. Len(a) /\ a[i + 1] = b[i + 1]
    BY <1>1
  <2>2. u[i + 1] = u[i] /\ w[i + 1] = w[i]
    BY <1>2, <1>3, <2>1 DEF Reading
  <2> QED
    BY <1>5, <2>1, <2>2
<1>6. p - 1 \in Z
  <2>1. p - 1 \in Nat /\ p - 1 \in 0 .. p - 1
    BY <1>1
  <2>2. \A i \in 0 .. p - 1 : i \in Z
    <3> HIDE DEF Z
    <3> QED
      BY <1>4, <1>5, <2>1, IntervalInduction
  <2> QED
    BY <2>1, <2>2
<1>7. u[p] = Append(<<>>, b[p].value) /\ w[p - 1] = <<>>
  <2>1. u[p] = Append(u[p - 1], b[p].value)
    BY <1>2 DEF Reading
  <2> QED
    BY <1>6, <2>1
<1> DEFINE S == {i \in Nat : u[i] # <<>> /\ Head(u[i]) = b[p].value /\ Tail(u[i]) = w[i - 1]}
<1>8. p \in S
  <2>1. /\ Append(<<>>, b[p].value) # <<>> /\ Head(Append(<<>>, b[p].value)) = b[p].value
        /\ Tail(Append(<<>>, b[p].value)) = <<>> /\ p \in Nat
    BY <1>1
  <2> QED
    BY <1>7, <2>1
<1>9. ASSUME NEW i \in p .. Len(b) - 1, i \in S
      PROVE  i + 1 \in S
  <2>1. /\ i + 1 \in 1 .. Len(b) /\ (i + 1) - 1 = i /\ i + 1 \in Nat /\ i \in 1 .. Len(a)
        /\ ~ (i < p) /\ a[i] = b[i + 1] /\ i \in 0 .. Len(b)
    BY <1>1
  <2>2. u[i + 1] = IF b[i + 1].key = k THEN Append(u[i], b[i + 1].value) ELSE u[i]
    BY <1>2, <2>1 DEF Reading
  <2>3. w[i] = IF b[i + 1].key = k THEN Append(w[i - 1], b[i + 1].value) ELSE w[i - 1]
    BY <1>3, <2>1 DEF Reading
  <2>4. u[i] \in Seq(Values)
    BY <1>2, <2>1 DEF Reading
  <2>5. b[i + 1].value \in Values
    <3>1. b[i + 1] \in KeyValue
      BY <2>1, ElementOfSeq
    <3> QED
      BY <3>1 DEF KeyValue
  <2>6. LET more == Append(u[i], b[i + 1].value)
        IN  more # <<>> /\ Head(more) = Head(u[i]) /\ Tail(more) = Append(Tail(u[i]), b[i + 1].value)
    <3>1. u[i] # <<>>
      BY <1>9
    <3> HIDE DEF S
    <3>2. Append(u[i], b[i + 1].value) # <<>>
      BY <2>4, <2>5, AppendProperties
    <3> QED
      BY <3>1, <3>2, <2>4, HeadTailAppend
  <2> QED
    BY <1>9, <2>1, <2>2, <2>3, <2>6
<1>10. \A i \in p .. Len(b) : i \in S
  <2>1. p \in Nat
    BY <1>1
  <2> HIDE DEF S
  <2> QED
    BY <1>1, <1>8, <1>9, <2>1, IntervalInduction
<1>11. Len(b) \in S
  BY <1>1, <1>10
<1> QED
  BY <1>1, <1>2, <1>3, <1>11 DEF Reading, a

----------------------------------------------------------------------------
(* The map implements the queues. *)

\* The pairs in a bucket; a bucket that is not made has none.
Bucket(s, l) == [i \in 1 .. Len(s[l]) |-> element[s[l][i]]]

LEMMA BucketTyped ==
  ASSUME NEW s, Rings(s), ElementsTyped, NEW l \in Lists
  PROVE  /\ s[l] \in Seq(Nodes) /\ Len(s[l]) \in Nat
         /\ Bucket(s, l) \in Seq(KeyValue) /\ Len(Bucket(s, l)) = Len(s[l])
         /\ \A i \in 1 .. Len(s[l]) :
              s[l][i] \in Nodes /\ s[l][i] \in live /\ Bucket(s, l)[i] = element[s[l][i]]
         /\ l \notin made => s[l] = <<>> /\ Bucket(s, l) = <<>>
<1>1. RingsOf(s, made, live, next, prev, length)
  BY DEF Rings
<1>2. s[l] \in Seq(Nodes) /\ (l \notin made => s[l] = <<>>)
  BY <1>1 DEF RingsOf
<1>3. Len(s[l]) \in Nat /\ \A i \in 1 .. Len(s[l]) : s[l][i] \in Nodes
  BY <1>2, LenProperties, ElementOfSeq
<1>4. \A i \in 1 .. Len(s[l]) : s[l][i] \in live
  <2>1. l \notin made => Len(s[l]) = 0
    BY <1>2
  <2> QED
    BY <1>1, <1>3, <2>1, RingPlaces
<1>5. \A i \in 1 .. Len(s[l]) : element[s[l][i]] \in KeyValue
  BY <1>4 DEF ElementsTyped
<1>6. /\ Bucket(s, l) \in Seq(KeyValue) /\ Len(Bucket(s, l)) = Len(s[l])
      /\ \A i \in 1 .. Len(s[l]) : Bucket(s, l)[i] = element[s[l][i]]
  BY <1>3, <1>5 DEF Bucket
<1>7. l \notin made => Bucket(s, l) = <<>>
  BY <1>2 DEF Bucket
<1> QED
  BY <1>2, <1>3, <1>4, <1>6, <1>7

\* The loops over a bucket read its pairs in order.
LEMMA BucketRead ==
  ASSUME NEW s, Rings(s), ElementsTyped, NEW l \in made
  PROVE  /\ l \in Lists /\ length[l] = Len(Bucket(s, l))
         /\ \A i \in 0 .. length[l] - 1 : get(l, i) = Bucket(s, l)[i + 1]
         /\ [i \in 1 .. length[l] |-> get(l, i - 1)] = Bucket(s, l)
<1>1. l \in Lists
  BY DEF Rings, RingsOf
<1>2. Len(s[l]) \in Nat /\ length[l] = Len(s[l])
      /\ \A i \in 0 .. length[l] - 1 : NodeAt(l, i) = s[l][i + 1]
  BY RingMembers
<1>3. /\ Len(Bucket(s, l)) = Len(s[l])
      /\ \A i \in 1 .. Len(s[l]) : Bucket(s, l)[i] = element[s[l][i]]
  BY <1>1, BucketTyped
<1>4. ASSUME NEW i \in 0 .. length[l] - 1
      PROVE  get(l, i) = Bucket(s, l)[i + 1]
  <2>1. i + 1 \in 1 .. Len(s[l])
    BY <1>2
  <2> QED
    BY <2>1, <1>2, <1>3 DEF get
<1>5. \A i \in 1 .. length[l] : i - 1 \in 0 .. length[l] - 1 /\ (i - 1) + 1 = i
  BY <1>2
<1>6. \A i \in 1 .. length[l] : get(l, i - 1) = Bucket(s, l)[i]
  BY <1>4, <1>5
<1>7. Bucket(s, l) = [i \in 1 .. length[l] |-> Bucket(s, l)[i]]
  BY <1>2 DEF Bucket
<1> QED
  BY <1>1, <1>2, <1>3, <1>4, <1>6, <1>7

LEMMA QueueIsBucket ==
  \A s : Rings(s) /\ ElementsTyped =>
    \A k \in Keys : /\ Bucket(s, hash(k)) \in Seq(KeyValue)
                    /\ QueueOf(k) = ValuesOf(k, Bucket(s, hash(k)))
<1> SUFFICES ASSUME NEW s, Rings(s), ElementsTyped, NEW k \in Keys
             PROVE  /\ Bucket(s, hash(k)) \in Seq(KeyValue)
                    /\ QueueOf(k) = ValuesOf(k, Bucket(s, hash(k)))
  OBVIOUS
<1> DEFINE l == hash(k)
<1>1. l \in Lists
  BY BucketsAssumption DEF hash
<1>2. Bucket(s, l) \in Seq(KeyValue) /\ (l \notin made => Bucket(s, l) = <<>>)
  BY <1>1, BucketTyped
<1>3. CASE l \in made
  <2>1. [i \in 1 .. length[l] |-> get(l, i - 1)] = Bucket(s, l)
    BY <1>3, BucketRead
  <2> QED
    BY <1>2, <1>3, <2>1 DEF QueueOf
<1>4. CASE l \notin made
  <2>1. Bucket(s, l) = <<>> /\ Len(Bucket(s, l)) = 0
    BY <1>2, <1>4
  <2>2. ValuesOf(k, Bucket(s, l)) = <<>>
    <3>1. \A i \in 1 .. Len(Bucket(s, l)) : Bucket(s, l)[i].key # k
      BY <2>1
    <3> HIDE DEF l
    <3> QED
      BY <1>2, <3>1, ValuesOfNone
  <2>3. QueueOf(k) = <<>>
    BY <1>4 DEF QueueOf
  <2> QED
    BY <1>2, <2>2, <2>3
<1> QED
  BY <1>3, <1>4

\* The same one step later.
LEMMA QueueIsBucketNext ==
  \A s : Rings(s)' /\ ElementsTyped' =>
    \A k \in Keys : QueueOf(k)' = ValuesOf(k, Bucket(s, hash(k))')
<1> DEFINE A == \A s : Rings(s) /\ ElementsTyped =>
    \A k \in Keys : /\ Bucket(s, hash(k)) \in Seq(KeyValue)
                    /\ QueueOf(k) = ValuesOf(k, Bucket(s, hash(k)))
<1>1. A
  BY QueueIsBucket
<1> HIDE DEF A
<1>2. A'
  BY <1>1, PTL
<1> QED
  BY <1>2 DEF A

\* The search of a bucket ends at the first pair of the key, ...
LEMMA SearchEnds ==
  ASSUME NEW s, Rings(s), ElementsTyped, NEW k \in Keys, NEW i \in 0 .. Cardinality(Nodes)
  PROVE  Found(k, i) <=>
           /\ i + 1 \in 1 .. Len(Bucket(s, hash(k))) /\ Bucket(s, hash(k))[i + 1].key = k
           /\ \A j \in 1 .. i : Bucket(s, hash(k))[j].key # k
<1> DEFINE l == hash(k)
           b == Bucket(s, l)
<1>1. l \in Lists
  BY BucketsAssumption DEF hash
<1>2. Cardinality(Nodes) \in Nat /\ i \in Nat
  BY HeapAssumption, FS_CardinalityType
<1>3. CASE l \notin made
  <2>1. b = <<>> /\ Len(b) = 0
    BY <1>1, <1>3, BucketTyped
  <2>2. ~ (i + 1 \in 1 .. Len(b))
    BY <2>1, <1>2
  <2> QED
    BY <1>3, <2>2 DEF Found
<1>4. CASE l \in made
  <2>1. length[l] = Len(b) /\ \A j \in 0 .. length[l] - 1 : get(l, j) = b[j + 1]
    BY <1>4, BucketRead
  <2>2. Len(b) \in Nat
    BY <1>1, BucketTyped
  <2> HIDE DEF l, b
  <2>3. InRange(l, i) <=> i + 1 \in 1 .. Len(b)
    BY <1>2, <2>1, <2>2 DEF InRange
  <2>4. ASSUME i + 1 \in 1 .. Len(b)
        PROVE  /\ get(l, i) = b[i + 1]
               /\ (\A j \in 0 .. i - 1 : get(l, j).key # k) <=> (\A j \in 1 .. i : b[j].key # k)
    <3>1. i \in 0 .. length[l] - 1 /\ \A j \in 0 .. i - 1 : j \in 0 .. length[l] - 1 /\ j + 1 \in 1 .. i
      BY <1>2, <2>1, <2>2, <2>4
    <3>2. \A j \in 1 .. i : j - 1 \in 0 .. i - 1 /\ (j - 1) + 1 = j
      BY <1>2
    <3>3. \A j \in 0 .. i - 1 : get(l, j) = b[j + 1]
      BY <2>1, <3>1
    <3>4. get(l, i) = b[i + 1]
      BY <2>1, <3>1
    <3>5. ASSUME \A j \in 0 .. i - 1 : get(l, j).key # k, NEW j \in 1 .. i
          PROVE  b[j].key # k
      <4>1. get(l, j - 1) = b[(j - 1) + 1]
        BY <3>2, <3>3
      <4> QED
        BY <3>2, <3>5, <4>1
    <3>6. ASSUME \A j \in 1 .. i : b[j].key # k, NEW j \in 0 .. i - 1
          PROVE  get(l, j).key # k
      BY <3>1, <3>3, <3>6
    <3> QED
      BY <3>4, <3>5, <3>6
  <2> QED
    BY <1>4, <2>3, <2>4 DEF Found, l, b
<1> QED
  BY <1>3, <1>4

\* ... so that it finds the head of the queue of the key, if there is one.
LEMMA SearchFindsHead ==
  ASSUME NEW s, Rings(s), ElementsTyped, NEW k \in Keys
  PROVE  /\ Present(k) => QueueOf(k) # <<>> /\ ValueOf(k) = Head(QueueOf(k))
         /\ ~ Present(k) => QueueOf(k) = <<>>
<1> DEFINE l == hash(k)
           b == Bucket(s, l)
<1>1. l \in Lists
  BY BucketsAssumption DEF hash
<1>2. b \in Seq(KeyValue) /\ Len(b) \in Nat /\ QueueOf(k) = ValuesOf(k, b)
  BY <1>1, QueueIsBucket, BucketTyped
<1>3. \A i \in 0 .. Cardinality(Nodes) :
        Found(k, i) <=> /\ i + 1 \in 1 .. Len(b) /\ b[i + 1].key = k
                        /\ \A j \in 1 .. i : b[j].key # k
  BY SearchEnds
<1>4. Cardinality(Nodes) \in Nat /\ Len(b) <= Cardinality(Nodes)
  <2>1. Cardinality(Nodes) \in Nat
    BY HeapAssumption, FS_CardinalityType
  <2>2. CASE l \in made
    <3>1. length[l] = Len(b) /\ length[l] <= Cardinality(Nodes)
      BY <2>2, BucketRead, RingFits
    <3> QED
      BY <2>1, <3>1
  <2>3. CASE l \notin made
    <3>1. Len(b) = 0
      BY <1>1, <2>3, BucketTyped
    <3> QED
      BY <2>1, <3>1
  <2> QED
    BY <2>2, <2>3
<1>5. ASSUME Present(k)
      PROVE  QueueOf(k) # <<>> /\ ValueOf(k) = Head(QueueOf(k))
  <2> DEFINE p == CHOOSE i \in 0 .. Cardinality(Nodes) : Found(k, i)
  <2>1. p \in 0 .. Cardinality(Nodes) /\ Found(k, p)
    BY <1>5 DEF Present
  <2>2. ValueOf(k) = get(l, p).value
    BY DEF ValueOf
  <2> HIDE DEF p
  <2>3. /\ p + 1 \in 1 .. Len(b) /\ b[p + 1].key = k /\ (p + 1) - 1 = p /\ p \in Nat
        /\ \A j \in 1 .. p : b[j].key # k
    BY <1>3, <1>4, <2>1
  <2>4. l \in made
    BY <2>1 DEF Found
  <2>5. get(l, p) = b[p + 1]
    <3>1. length[l] = Len(b) /\ \A i \in 0 .. length[l] - 1 : get(l, i) = b[i + 1]
      BY <2>4, BucketRead
    <3>2. p \in 0 .. length[l] - 1
      BY <1>2, <2>3, <3>1
    <3> QED
      BY <3>1, <3>2
  <2>6. \A j \in 1 .. (p + 1) - 1 : b[j].key # k
    BY <2>3
  <2>7. ValuesOf(k, b) # <<>> /\ Head(ValuesOf(k, b)) = b[p + 1].value
    <3> HIDE DEF b
    <3> QED
      BY <1>2, <2>3, <2>6, ValuesOfFirst
  <2> QED
    BY <1>2, <2>2, <2>5, <2>7
<1>6. ASSUME ~ Present(k)
      PROVE  QueueOf(k) = <<>>
  <2> DEFINE T == {i \in 1 .. Len(b) : b[i].key = k}
  <2>1. T = {}
    <3>1. SUFFICES ASSUME T # {} PROVE FALSE
      OBVIOUS
    <3>2. T \subseteq Nat
      OBVIOUS
    <3>3. PICK i \in T : \A j \in T : i <= j
      <4> HIDE DEF T
      <4> QED
        BY <3>1, <3>2, LeastNatural
    <3>4. i \in 1 .. Len(b) /\ b[i].key = k /\ i - 1 \in 0 .. Cardinality(Nodes) /\ (i - 1) + 1 = i
      BY <1>2, <1>4
    <3>5. \A j \in 1 .. i - 1 : b[j].key # k
      <4>1. ASSUME NEW j \in 1 .. i - 1, b[j].key = k
            PROVE  FALSE
        <5>1. j \in 1 .. Len(b) /\ ~ (i <= j)
          BY <1>2, <3>4
        <5>2. j \in T
          BY <4>1, <5>1
        <5> QED
          BY <3>3, <5>1, <5>2
      <4> QED
        BY <4>1
    <3>6. Found(k, i - 1)
      <4> HIDE DEF b, T
      <4> QED
        BY <1>3, <3>4, <3>5
    <3> QED
      BY <1>6, <3>4, <3>6 DEF Present
  <2>2. \A i \in 1 .. Len(b) : b[i].key # k
    BY <2>1
  <2> HIDE DEF b
  <2> QED
    BY <1>2, <2>2, ValuesOfNone
<1> QED
  BY <1>5, <1>6

\* map_add puts the pair behind those of its bucket, ...
Stored(s, l, n, e, s2) ==
  /\ n \in Nodes \ live /\ element' = [element EXCEPT ![n] = e]
  /\ s2 = [s EXCEPT ![l] = Append(s[l], n)]

LEMMA BucketsAfterAdd ==
  ASSUME NEW s, Rings(s), ElementsTyped, NEW l \in Lists, NEW n, NEW e \in KeyValue,
         NEW s2, Stored(s, l, n, e, s2), NEW m \in Lists
  PROVE  Bucket(s2, m)' = IF m = l THEN Append(Bucket(s, m), e) ELSE Bucket(s, m)
<1> USE DEF Stored
<1>1. /\ s[m] \in Seq(Nodes) /\ Len(s[m]) \in Nat
      /\ Bucket(s, m) \in Seq(KeyValue) /\ Len(Bucket(s, m)) = Len(s[m])
      /\ \A i \in 1 .. Len(s[m]) :
           s[m][i] \in Nodes /\ s[m][i] \in live /\ Bucket(s, m)[i] = element[s[m][i]]
  BY BucketTyped
<1>2. DOMAIN s = Lists /\ DOMAIN element = Nodes
  BY DEF Rings, RingsOf
<1>3. \A i \in 1 .. Len(s[m]) : element'[s[m][i]] = Bucket(s, m)[i]
  BY <1>1, <1>2
<1>4. Bucket(s2, m)' = [i \in 1 .. Len(s2[m]) |-> element'[s2[m][i]]]
  BY DEF Bucket
<1>5. CASE m # l
  <2>1. s2[m] = s[m]
    BY <1>2, <1>5
  <2>2. Bucket(s2, m)' = [i \in 1 .. Len(s[m]) |-> element'[s[m][i]]]
    BY <1>4, <2>1
  <2>3. Bucket(s, m) = [i \in 1 .. Len(s[m]) |-> Bucket(s, m)[i]]
    BY DEF Bucket
  <2> QED
    BY <1>3, <1>5, <2>2, <2>3
<1>6. CASE m = l
  <2>1. s2[m] = Append(s[m], n)
    BY <1>2, <1>6
  <2>2. /\ Len(s2[m]) = Len(s[m]) + 1 /\ s2[m][Len(s[m]) + 1] = n
        /\ \A i \in 1 .. Len(s[m]) : s2[m][i] = s[m][i]
    BY <1>1, <2>1
  <2>3. element'[n] = e
    BY <1>2
  <2> DEFINE b == Bucket(s, m)
             a == Append(b, e)
  <2>4. /\ Len(b) = Len(s[m]) /\ Len(a) = Len(s[m]) + 1 /\ a \in Seq(KeyValue)
        /\ a[Len(s[m]) + 1] = e /\ \A i \in 1 .. Len(s[m]) : a[i] = b[i]
    <3> HIDE DEF b
    <3> QED
      BY <1>1, AppendProperties DEF b
  <2>5. a = [i \in 1 .. Len(s[m]) + 1 |-> a[i]]
    <3> HIDE DEF a
    <3> QED
      BY <2>4
  <2> HIDE DEF a, b
  <2>6. \A i \in 1 .. Len(s[m]) + 1 : element'[s2[m][i]] = a[i]
    <3>1. \A i \in 1 .. Len(s[m]) + 1 : i \in 1 .. Len(s[m]) \/ i = Len(s[m]) + 1
      BY <1>1
    <3>2. \A i \in 1 .. Len(s[m]) : element'[s2[m][i]] = a[i]
      BY <1>3, <2>2, <2>4 DEF b
    <3>3. element'[s2[m][Len(s[m]) + 1]] = a[Len(s[m]) + 1]
      BY <2>2, <2>3, <2>4
    <3> QED
      BY <3>1, <3>2, <3>3
  <2>7. Bucket(s2, m)' = a
    BY <1>4, <2>2, <2>5, <2>6
  <2> QED
    BY <1>6, <2>7 DEF a, b
<1> QED
  BY <1>5, <1>6

\* ... and map_remove takes one pair out of its bucket.
LEMMA BucketsAfterRemove ==
  ASSUME NEW s, Rings(s), ElementsTyped, NEW l \in made, NEW p \in 1 .. Len(s[l]),
         element' = [element EXCEPT ![s[l][p]] = Garbage], NEW m \in Lists
  PROVE  Bucket([s EXCEPT ![l] = Without(s[l], p)], m)' =
           IF m = l THEN Without(Bucket(s, m), p) ELSE Bucket(s, m)
<1> DEFINE s2 == [s EXCEPT ![l] = Without(s[l], p)]
           n == s[l][p]
<1>1. /\ s[m] \in Seq(Nodes) /\ Len(s[m]) \in Nat
      /\ Bucket(s, m) \in Seq(KeyValue) /\ Len(Bucket(s, m)) = Len(s[m])
      /\ \A i \in 1 .. Len(s[m]) :
           s[m][i] \in Nodes /\ s[m][i] \in live /\ Bucket(s, m)[i] = element[s[m][i]]
      /\ m \notin made => s[m] = <<>>
  BY BucketTyped
<1>2. DOMAIN s = Lists /\ DOMAIN element = Nodes
  BY DEF Rings, RingsOf
<1>3. \A i \in 1 .. Len(s[m]) : ~ (m = l /\ i = p) => s[m][i] # n
  <2>1. m \notin made => Len(s[m]) = 0
    BY <1>1
  <2>2. \A i \in 1 .. Len(s[m]) : m \in made
    BY <2>1
  <2>3. \A x, y \in made : \A i \in 1 .. Len(s[x]), j \in 1 .. Len(s[y]) :
          s[x][i] = s[y][j] => x = y /\ i = j
    BY DEF Rings, RingsOf
  <2> QED
    BY <2>2, <2>3
<1>4. \A i \in 1 .. Len(s[m]) : ~ (m = l /\ i = p) => element'[s[m][i]] = Bucket(s, m)[i]
  <2> HIDE DEF n
  <2>1. element' = [element EXCEPT ![n] = Garbage]
    BY DEF n
  <2> QED
    BY <1>1, <1>2, <1>3, <2>1
<1>5. Bucket(s2, m)' = [i \in 1 .. Len(s2[m]) |-> element'[s2[m][i]]]
  BY DEF Bucket
<1>6. CASE m # l
  <2>1. s2[m] = s[m]
    BY <1>2, <1>6
  <2>2. Bucket(s2, m)' = [i \in 1 .. Len(s[m]) |-> element'[s[m][i]]]
    BY <1>5, <2>1
  <2>3. Bucket(s, m) = [i \in 1 .. Len(s[m]) |-> Bucket(s, m)[i]]
    BY DEF Bucket
  <2> HIDE DEF s2, n
  <2> QED
    BY <1>4, <1>6, <2>2, <2>3 DEF s2
<1>7. CASE m = l
  <2>1. s2[m] = Without(s[m], p)
    BY <1>2, <1>7
  <2>2. /\ Len(s2[m]) = Len(s[m]) - 1
        /\ \A i \in 1 .. Len(s[m]) - 1 : s2[m][i] = IF i < p THEN s[m][i] ELSE s[m][i + 1]
    <3>1. s[m] \in Seq(Nodes) /\ p \in 1 .. Len(s[m])
      BY <1>1, <1>7
    <3>2. /\ Len(Without(s[m], p)) = Len(s[m]) - 1
          /\ \A i \in 1 .. Len(s[m]) - 1 :
               Without(s[m], p)[i] = IF i < p THEN s[m][i] ELSE s[m][i + 1]
      BY <3>1, WithoutList
    <3> QED
      BY <2>1, <3>2
  <2> HIDE DEF s2, n
  <2>3. \A i \in 1 .. Len(s[m]) - 1 :
          element'[s2[m][i]] = IF i < p THEN Bucket(s, m)[i] ELSE Bucket(s, m)[i + 1]
    <3>1. ASSUME NEW i \in 1 .. Len(s[m]) - 1, i < p
          PROVE  element'[s2[m][i]] = Bucket(s, m)[i]
      <4>1. i \in 1 .. Len(s[m]) /\ i # p
        BY <1>1, <1>7, <3>1
      <4> QED
        BY <1>4, <2>2, <3>1, <4>1
    <3>2. ASSUME NEW i \in 1 .. Len(s[m]) - 1, ~ (i < p)
          PROVE  element'[s2[m][i]] = Bucket(s, m)[i + 1]
      <4>1. i + 1 \in 1 .. Len(s[m]) /\ i + 1 # p
        BY <1>1, <1>7, <3>2
      <4> QED
        BY <1>4, <2>2, <3>2, <4>1
    <3> QED
      BY <3>1, <3>2
  <2>4. Without(Bucket(s, m), p) =
          [i \in 1 .. Len(s[m]) - 1 |-> IF i < p THEN Bucket(s, m)[i] ELSE Bucket(s, m)[i + 1]]
    BY <1>1 DEF Without
  <2>5. Bucket(s2, m)' = Without(Bucket(s, m), p)
    BY <1>5, <2>2, <2>3, <2>4
  <2> QED
    BY <1>7, <2>5 DEF s2
<1> QED
  BY <1>6, <1>7

\* The state of the queues.
Promised == [k \in Keys |-> QueueOf(k)]

\* After createMap there are no values.
LEMMA QueuesInit == createMap => Queues!Init
<1> SUFFICES ASSUME createMap PROVE Queues!Init
  OBVIOUS
<1>1. \A k \in Keys : QueueOf(k) = <<>>
  BY DEF createMap, NoLists, QueueOf
<1> QED
  BY <1>1 DEF Queues!Init, createMap

\* A call that leaves the heap alone leaves the queues alone.
LEMMA QueuesKept ==
  ASSUME NEW s, Rings(s), ElementsTyped, Rings(s)', ElementsTyped', element' = element
  PROVE  \A k \in Keys : QueueOf(k)' = QueueOf(k)
<1> SUFFICES ASSUME NEW k \in Keys PROVE QueueOf(k)' = QueueOf(k)
  OBVIOUS
<1>1. QueueOf(k) = ValuesOf(k, Bucket(s, hash(k)))
  BY QueueIsBucket
<1>2. QueueOf(k)' = ValuesOf(k, Bucket(s, hash(k))')
  BY QueueIsBucketNext
<1>3. Bucket(s, hash(k))' = Bucket(s, hash(k))
  BY DEF Bucket
<1> QED
  BY <1>1, <1>2, <1>3

\* map_add puts a value behind those of its key, whatever the bucket holds.
LEMMA QueuesAfterAdd ==
  ASSUME IInv, IInv', NEW key \in Keys, NEW value \in Values \cup {NoValue},
         map_add(key, value)
  PROVE  \/ /\ Said("add", key, "SUCCESS", value)
            /\ \A k \in Keys : QueueOf(k)' = IF k = key THEN Append(QueueOf(k), value)
                                             ELSE QueueOf(k)
         \/ /\ Said("add", key, "ERROR", value)
            /\ \A k \in Keys : QueueOf(k)' = QueueOf(k)
<1>1. PICK s : Rings(s)
  BY DEF IInv, HeapSound
<1>2. ElementsTyped /\ ElementsTyped'
  BY DEF IInv
<1>3. \A k \in Keys : hash(k) \in Lists
  BY BucketsAssumption DEF hash
<1>4. ASSUME value \in Values, NEW n \in Nodes \ live, NEW l, l = hash(key),
             NEW e, e = [key |-> key, value |-> value],
             element' = [element EXCEPT ![n] = e],
             NEW k \in Keys,
             NEW s2, s2 = [s EXCEPT ![l] = Append(s[l], n)], Rings(s2)'
      PROVE  QueueOf(k)' = IF k = key THEN Append(QueueOf(k), value) ELSE QueueOf(k)
  <2> DEFINE b == Bucket(s, hash(k))
  <2>1. e \in KeyValue /\ e.key = key /\ e.value = value
    BY <1>4 DEF KeyValue
  <2>2. l \in Lists /\ hash(k) \in Lists
    BY <1>3, <1>4
  <2>3. Bucket(s2, hash(k))' = IF hash(k) = l THEN Append(b, e) ELSE b
    <3>1. Stored(s, l, n, e, s2)
      BY <1>4 DEF Stored
    <3> QED
      BY <1>1, <1>2, <2>1, <2>2, <3>1, BucketsAfterAdd
  <2>4. QueueOf(k) = ValuesOf(k, b) /\ b \in Seq(KeyValue)
    BY <1>1, <1>2, QueueIsBucket
  <2>5. QueueOf(k)' = ValuesOf(k, Bucket(s2, hash(k))')
    BY <1>2, <1>4, QueueIsBucketNext
  <2> HIDE DEF b
  <2>6. ValuesOf(k, Append(b, e)) =
          IF k = key THEN Append(ValuesOf(k, b), value) ELSE ValuesOf(k, b)
    BY <2>1, <2>4, ValuesOfAppend
  <2>7. k = key => hash(k) = l
    BY <1>4
  <2> QED
    BY <2>3, <2>4, <2>5, <2>6, <2>7
<1>5. CASE Said("add", key, "ERROR", value) /\ element' = element /\ Rings(s)'
  BY <1>1, <1>2, <1>5, QueuesKept
<1>6. ASSUME /\ value \in Values /\ Said("add", key, "SUCCESS", value)
             /\ \E n \in Nodes \ live :
                  /\ element' = [element EXCEPT ![n] = [key |-> key, value |-> value]]
                  /\ live' = live \cup {n}
                  /\ Rings([s EXCEPT ![hash(key)] = Append(s[hash(key)], n)])'
      PROVE  \A k \in Keys : QueueOf(k)' = IF k = key THEN Append(QueueOf(k), value)
                                           ELSE QueueOf(k)
  BY <1>4, <1>6
<1> QED
  BY <1>1, <1>5, <1>6, AddRings

\* map_remove takes the first value of its key, and no other key's.
LEMMA QueuesAfterRemove ==
  ASSUME IInv, IInv', NEW key \in Keys, NEW i \in 0 .. Cardinality(Nodes),
         Found(key, i), remove(hash(key), i)
  PROVE  \A k \in Keys : QueueOf(k)' = IF k = key THEN Tail(QueueOf(k)) ELSE QueueOf(k)
<1>1. PICK s : Rings(s)
  BY DEF IInv, HeapSound
<1>2. ElementsTyped /\ ElementsTyped'
  BY DEF IInv
<1> DEFINE l == hash(key)
           p == i + 1
           s2 == [s EXCEPT ![l] = Without(s[l], p)]
<1>3. i \in Nat /\ p - 1 = i
  BY HeapAssumption, FS_CardinalityType
<1>4. l \in made /\ \A k \in Keys : hash(k) \in Lists
  BY BucketsAssumption DEF Found, hash
<1>5. /\ p \in 1 .. Len(s[l]) /\ element' = [element EXCEPT ![s[l][p]] = Garbage] /\ Rings(s2)'
  BY <1>1, <1>3, <1>4, RemoveRings
<1>6. /\ p \in 1 .. Len(Bucket(s, l)) /\ Bucket(s, l)[p].key = key
      /\ \A j \in 1 .. p - 1 : Bucket(s, l)[j].key # key
  <2>1. /\ p \in 1 .. Len(Bucket(s, l)) /\ Bucket(s, l)[p].key = key
        /\ \A j \in 1 .. i : Bucket(s, l)[j].key # key
    BY <1>1, <1>2, SearchEnds
  <2> QED
    BY <1>3, <2>1
<1> SUFFICES ASSUME NEW k \in Keys
             PROVE  QueueOf(k)' = IF k = key THEN Tail(QueueOf(k)) ELSE QueueOf(k)
  OBVIOUS
<1> HIDE DEF p, l
<1>7. Bucket(s2, hash(k))' =
        IF hash(k) = l THEN Without(Bucket(s, hash(k)), p) ELSE Bucket(s, hash(k))
  BY <1>1, <1>2, <1>4, <1>5, BucketsAfterRemove
<1>8. QueueOf(k) = ValuesOf(k, Bucket(s, hash(k))) /\ Bucket(s, hash(k)) \in Seq(KeyValue)
  BY <1>1, <1>2, QueueIsBucket
<1> HIDE DEF s2
<1>9. QueueOf(k)' = ValuesOf(k, Bucket(s2, hash(k))')
  BY <1>2, <1>5, QueueIsBucketNext
<1>10. k = key => hash(k) = l
  BY DEF l
<1>11. CASE k = key
  <2>1. ValuesOf(k, Without(Bucket(s, l), p)) = Tail(ValuesOf(k, Bucket(s, l)))
    BY <1>6, <1>8, <1>10, <1>11, ValuesOfFirst
  <2> QED
    BY <1>7, <1>8, <1>9, <1>10, <1>11, <2>1
<1>12. CASE k # key /\ hash(k) = l
  <2>1. ValuesOf(k, Without(Bucket(s, l), p)) = ValuesOf(k, Bucket(s, l))
    BY <1>6, <1>8, <1>12, ValuesOfOthers
  <2> QED
    BY <1>7, <1>8, <1>9, <1>12, <2>1
<1>13. CASE hash(k) # l
  BY <1>7, <1>8, <1>9, <1>10, <1>13
<1> QED
  BY <1>11, <1>12, <1>13

\* Every step of the map is a step of the queues.
LEMMA QueuesStep == IInv /\ IInv' /\ [Next]_vars => [Queues!Next]_<<Promised, answer>>
<1> SUFFICES ASSUME IInv, IInv', [Next]_vars
             PROVE  [Queues!Next]_<<Promised, answer>>
  OBVIOUS
<1>1. PICK s : Rings(s)
  BY DEF IInv, HeapSound
<1>2. ElementsTyped /\ ElementsTyped'
  BY DEF IInv
<1>3. UNCHANGED heap => Promised' = Promised
  <2>1. UNCHANGED heap => Rings(s)' /\ element' = element
    BY <1>1 DEF heap, Rings
  <2> QED
    BY <1>1, <1>2, <2>1, QueuesKept DEF Promised
<1>4. \A k \in Keys : Promised[k] = QueueOf(k)
  BY DEF Promised
<1>5. \A k \in Keys : /\ Present(k) => QueueOf(k) # <<>> /\ ValueOf(k) = Head(QueueOf(k))
                      /\ ~ Present(k) => QueueOf(k) = <<>>
  BY <1>1, <1>2, SearchFindsHead
<1>6. ASSUME NEW k \in Keys, map_get(k)
      PROVE  Queues!Get(k)
  BY <1>3, <1>4, <1>5, <1>6 DEF map_get, Said, Queues!Get, Queues!Said, Promised
<1>7. ASSUME NEW k \in Keys, NEW v \in Values \cup {NoValue}, map_add(k, v)
      PROVE  Queues!Add(k, v)
  <2>1. CASE /\ Said("add", k, "SUCCESS", v)
             /\ \A j \in Keys : QueueOf(j)' = IF j = k THEN Append(QueueOf(j), v)
                                              ELSE QueueOf(j)
    <3>1. Promised' = [Promised EXCEPT ![k] = Append(Promised[k], v)]
      BY <2>1 DEF Promised
    <3> QED
      BY <2>1, <3>1 DEF Said, Queues!Add, Queues!Said, Promised
  <2>2. CASE /\ Said("add", k, "ERROR", v) /\ \A j \in Keys : QueueOf(j)' = QueueOf(j)
    <3>1. Promised' = Promised
      BY <2>2 DEF Promised
    <3> QED
      BY <2>2, <3>1 DEF Said, Queues!Add, Queues!Said, Promised
  <2> QED
    BY <1>7, <2>1, <2>2, QueuesAfterAdd
<1>8. ASSUME NEW k \in Keys, map_remove(k)
      PROVE  Queues!Remove(k)
  <2>1. CASE /\ \E i \in 0 .. Cardinality(Nodes) : Found(k, i) /\ remove(hash(k), i)
             /\ Said("remove", k, "SUCCESS", ValueOf(k))
    <3>1. PICK i \in 0 .. Cardinality(Nodes) : Found(k, i) /\ remove(hash(k), i)
      BY <2>1
    <3>2. \A j \in Keys : QueueOf(j)' = IF j = k THEN Tail(QueueOf(j)) ELSE QueueOf(j)
      BY <3>1, QueuesAfterRemove
    <3>3. Promised' = [Promised EXCEPT ![k] = Tail(Promised[k])]
      BY <3>2 DEF Promised
    <3>4. QueueOf(k) # <<>> /\ ValueOf(k) = Head(QueueOf(k))
      BY <1>5, <3>1 DEF Present
    <3> QED
      BY <1>4, <2>1, <3>3, <3>4 DEF Said, Queues!Remove, Queues!Said, Promised
  <2>2. CASE /\ ~ Present(k) /\ UNCHANGED heap
             /\ Said("remove", k, IF hash(k) \in made THEN "NOT_FOUND" ELSE "ERROR", NoValue)
    BY <1>3, <1>4, <1>5, <2>2 DEF Said, Queues!Remove, Queues!Said, Promised
  <2> QED
    BY <1>8, <2>1, <2>2 DEF map_remove
<1>9. CASE map_destroy
  <2>1. made' = {}
    BY <1>9 DEF map_destroy, destroyAll
  <2>2. \A k \in Keys : QueueOf(k)' = <<>>
    BY <2>1 DEF QueueOf
  <2>3. Promised' = [k \in Keys |-> <<>>]
    BY <2>2 DEF Promised
  <2>4. Queues!Renew
    BY <1>9, <2>3 DEF map_destroy, Said, Queues!Renew, Queues!Said, Promised
  <2> QED
    BY <2>4 DEF Queues!Next
<1>10. CASE UNCHANGED vars
  BY <1>3, <1>10 DEF vars
<1> QED
  BY <1>6, <1>7, <1>8, <1>9, <1>10 DEF Next, Queues!Next

\* To its callers the map is a queue of values per key (map.c), with every
\* status and value it returns, whichever keys share a bucket and whichever
\* allocation fails.
THEOREM MapImplementsQueues == Spec => MapSpec
<1>1. Spec => []IInv
  BY InvInit, InvStep, PTL DEF Spec
<1> QED
  BY <1>1, QueuesInit, QueuesStep, PTL DEF Spec, MapSpec, Queues!Spec, Promised
=============================================================================
