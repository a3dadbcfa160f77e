------------------------------- MODULE IntMap -------------------------------
(***************************************************************************)
(* map.c: a hash map from ints to pointers.  A key goes to bucket          *)
(* key % BUCKETS, a list that is created when its first key comes and is   *)
(* shared by all keys with the same remainder.  add never looks for an     *)
(* older value of its key.                                                 *)
(*                                                                         *)
(* A KeyValue is the element of the node that points to it; one that add   *)
(* has allocated and append has refused is lost memory and no state here.  *)
(* Any allocation may fail.  All callers of remove ask for the value.      *)
(***************************************************************************)
EXTENDS LinkedList, Sequences

CONSTANTS Keys, Values,
          NoValue,     \* NULL
          BUCKETS

ASSUME BucketsAssumption ==
  Keys \subseteq Nat /\ BUCKETS \in Nat \ {0} /\ Lists = 0 .. BUCKETS - 1

VARIABLE answer        \* the last call and what it returned

vars == <<heap, answer>>

KeyValue == [key : Keys, value : Values]

Said(op, k, rv, v) == answer' = [op |-> op, key |-> k, rv |-> rv, value |-> v]

createMap ==
  /\ NoLists
  /\ answer = [op |-> "create", key |-> NoValue, rv |-> "SUCCESS", value |-> NoValue]

hash(key) == key % BUCKETS

\* Mutant: a key is taken for any other one of its bucket.
FoundInBucket(key, i) ==
  /\ hash(key) \in made /\ InRange(hash(key), i) /\ i = 0

\* The loop over a bucket ends at index i, the first one with this key.
Found(key, i) ==
  LET l == hash(key)
  IN  /\ l \in made /\ InRange(l, i)
      /\ get(l, i).key = key
      /\ \A j \in 0 .. i - 1 : get(l, j).key # key

Present(key) == \E i \in 0 .. Cardinality(Nodes) : Found(key, i)

ValueOf(key) ==
  get(hash(key), CHOOSE i \in 0 .. Cardinality(Nodes) : Found(key, i)).value

map_get(key) ==
  /\ \/ Present(key) /\ Said("get", key, "SUCCESS", ValueOf(key))
     \/ ~ Present(key) /\ Said("get", key, "NOT_FOUND", NoValue)
  /\ UNCHANGED heap

\* The bucket may come into being although the value is refused.
map_add(key, value) ==
  LET l == hash(key)
      links == IF l \in made THEN [next |-> next, prev |-> prev] ELSE Created(l)
  IN  \/ /\ value # NoValue
         /\ made' = made \cup {l}
         /\ \E rv \in {"SUCCESS", "ERROR"} :
              /\ append(l, [key |-> key, value |-> value], links, rv)
              /\ Said("add", key, rv, value)
      \/ Said("add", key, "ERROR", value) /\ UNCHANGED heap

map_remove(key) ==
  \/ /\ \E i \in 0 .. Cardinality(Nodes) : Found(key, i) /\ remove(hash(key), i)
     /\ Said("remove", key, "SUCCESS", ValueOf(key))
  \/ /\ ~ Present(key)
     /\ Said("remove", key, IF hash(key) \in made THEN "NOT_FOUND" ELSE "ERROR", NoValue)
     /\ UNCHANGED heap

\* map_destroy empties and destroys every bucket; createMap starts anew.
map_destroy ==
  /\ destroyAll(made)
  /\ Said("create", NoValue, "SUCCESS", NoValue)

Next ==
  \/ \E k \in Keys : \/ map_get(k) \/ map_remove(k)
                     \/ \E v \in Values \cup {NoValue} : map_add(k, v)
  \/ map_destroy

Spec == createMap /\ [][Next]_vars

----------------------------------------------------------------------------
\* The values of a key in the order of its bucket.
ValuesOf(key, bucket) ==
  LET upTo[i \in 0 .. Len(bucket)] ==
        IF i = 0 THEN <<>>
        ELSE IF bucket[i].key = key THEN Append(upTo[i - 1], bucket[i].value)
        ELSE upTo[i - 1]
  IN  upTo[Len(bucket)]

QueueOf(key) ==
  LET l == hash(key)
  IN  IF l \in made THEN ValuesOf(key, [i \in 1 .. length[l] |-> get(l, i - 1)]) ELSE <<>>

Queues == INSTANCE KeyedQueues WITH queue <- [k \in Keys |-> QueueOf(k)]

\* To its callers the map is a queue per key, with every status and value it
\* returns, whatever else shares the key's bucket, whichever allocation
\* failed before and however often a key was added.
MapSpec == Queues!Spec
=============================================================================
