----------------------------- MODULE LinkedList -----------------------------
(***************************************************************************)
(* list.c: doubly linked lists, each a ring of nodes through a sentinel.   *)
(* The lists of a program share one heap.  A node keeps its element until  *)
(* it is freed; what a freed node holds is Garbage, and nothing may follow *)
(* a pointer into it.  rv is the status a call returns.                    *)
(***************************************************************************)
EXTENDS Integers, FiniteSets

CONSTANTS Lists,     \* sentinels, one for each list there may be
          Nodes,     \* cells malloc may return for a node
          Garbage    \* what the fields of a freed or unused cell hold

ASSUME HeapAssumption == IsFiniteSet(Nodes) /\ Nodes \cap Lists = {}

VARIABLES made,      \* lists that have been created
          live,      \* nodes that are allocated
          next, prev, element, length

heap == <<made, live, next, prev, element, length>>

NoLists ==
  /\ made = {} /\ live = {}
  /\ next = [c \in Nodes \cup Lists |-> Garbage]
  /\ prev = [c \in Nodes \cup Lists |-> Garbage]
  /\ element = [n \in Nodes |-> Garbage]
  /\ length = [l \in Lists |-> 0]

\* The node a walk of idx steps from the first one arrives at.
NodeAt(l, idx) ==
  LET walk[i \in 0 .. idx] == IF i = 0 THEN next[l] ELSE next[walk[i - 1]]
  IN  walk[idx]

\* The four assignments of append: n becomes the last node of l.
Link(n, l, e, links) ==
  /\ next' = [links.next EXCEPT ![links.prev[l]] = n, ![n] = l]
  /\ prev' = [links.prev EXCEPT ![l] = n, ![n] = links.prev[l]]

\* links are the pointers append finds: those of the heap, or of a list
\* that has been created in the same call.
append(l, e, links, rv) ==
  \/ /\ rv = "SUCCESS"
     /\ \E n \in Nodes \ live :
          /\ live' = live \cup {n}
          /\ element' = [element EXCEPT ![n] = e]
          /\ Link(n, l, e, links)
     /\ length' = [length EXCEPT ![l] = @ + 1]
  \/ /\ rv = "ERROR"
     /\ next' = links.next /\ prev' = links.prev
     /\ UNCHANGED <<live, element, length>>

\* An index from 0, as in the code.
InRange(l, idx) == 0 <= idx /\ idx < length[l]

get(l, idx) == element[NodeAt(l, idx)]

\* Mutant: the next node keeps pointing back to the one that is freed.
removeOneWay(l, idx) ==
  LET n == NodeAt(l, idx)
  IN  /\ InRange(l, idx)
      /\ next' = [next EXCEPT ![prev[n]] = next[n], ![n] = Garbage]
      /\ prev' = [prev EXCEPT ![n] = Garbage]
      /\ live' = live \ {n}
      /\ element' = [element EXCEPT ![n] = Garbage]
      /\ length' = [length EXCEPT ![l] = @ - 1]
      /\ UNCHANGED made

remove(l, idx) ==
  LET n == NodeAt(l, idx)
  IN  /\ InRange(l, idx)
      /\ next' = [next EXCEPT ![prev[n]] = next[n], ![n] = Garbage]
      /\ prev' = [prev EXCEPT ![next[n]] = prev[n], ![n] = Garbage]
      /\ live' = live \ {n}
      /\ element' = [element EXCEPT ![n] = Garbage]
      /\ length' = [length EXCEPT ![l] = @ - 1]
      /\ UNCHANGED made

\* createList for l, as part of a caller's step.
Created(l) == [next |-> [next EXCEPT ![l] = l], prev |-> [prev EXCEPT ![l] = l]]

Members(l) == {NodeAt(l, i) : i \in 0 .. length[l] - 1}

\* destroy for the lists of ls, one after the other.
destroyAll(ls) ==
  LET gone == UNION {Members(l) : l \in ls}
  IN  /\ made' = made \ ls
      /\ live' = live \ gone
      /\ next' = [c \in Nodes \cup Lists |-> IF c \in gone \cup ls THEN Garbage ELSE next[c]]
      /\ prev' = [c \in Nodes \cup Lists |-> IF c \in gone \cup ls THEN Garbage ELSE prev[c]]
      /\ element' = [n \in Nodes |-> IF n \in gone THEN Garbage ELSE element[n]]
      /\ length' = [l \in Lists |-> IF l \in ls THEN 0 ELSE length[l]]

----------------------------------------------------------------------------
\* However elements are appended and removed, at the head, in the middle
\* and at the tail: the two directions of every ring agree, its length is the
\* number of its nodes, no node is in two lists or leaked, and no pointer
\* leads to a freed cell.
LinksSound ==
  /\ \A c \in made \cup live :
       /\ next[c] \in made \cup live /\ prev[next[c]] = c
       /\ prev[c] \in made \cup live /\ next[prev[c]] = c
  /\ \A l \in made :
       NodeAt(l, length[l]) = l /\ Cardinality(Members(l)) = length[l]
  /\ live = UNION {Members(l) : l \in made}
  /\ \A l, m \in made : l # m => Members(l) \cap Members(m) = {}
=============================================================================
