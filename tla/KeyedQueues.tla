---------------------------- MODULE KeyedQueues ----------------------------
(***************************************************************************)
(* What an integer map promises to the stores that are built on it         *)
(* (sessions, keys, registrations, posts, follows): a queue of values per  *)
(* key.  add puts a value behind the older ones, get shows the oldest and  *)
(* remove takes it.  A map that replaced values would have Append nowhere. *)
(***************************************************************************)
EXTENDS Sequences

CONSTANTS Keys, Values, NoValue

VARIABLES queue,    \* queue[k]: the values added under k and not removed
          answer    \* the last call and what it returned

Said(op, k, rv, v) == answer' = [op |-> op, key |-> k, rv |-> rv, value |-> v]

Init ==
  /\ queue = [k \in Keys |-> <<>>]
  /\ answer = [op |-> "create", key |-> NoValue, rv |-> "SUCCESS", value |-> NoValue]

\* A value is stored and acknowledged, or refused and not stored.
Add(k, v) ==
  \/ Said("add", k, "SUCCESS", v) /\ queue' = [queue EXCEPT ![k] = Append(@, v)]
  \/ Said("add", k, "ERROR", v) /\ UNCHANGED queue

Get(k) ==
  /\ IF queue[k] = <<>> THEN Said("get", k, "NOT_FOUND", NoValue)
                        ELSE Said("get", k, "SUCCESS", Head(queue[k]))
  /\ UNCHANGED queue

Remove(k) ==
  IF queue[k] = <<>>
  THEN /\ \E rv \in {"ERROR", "NOT_FOUND"} : Said("remove", k, rv, NoValue)
       /\ UNCHANGED queue
  ELSE /\ Said("remove", k, "SUCCESS", Head(queue[k]))
       /\ queue' = [queue EXCEPT ![k] = Tail(@)]

\* The map is destroyed and a new one created.
Renew ==
  /\ queue' = [k \in Keys |-> <<>>]
  /\ Said("create", NoValue, "SUCCESS", NoValue)

Next ==
  \/ \E k \in Keys : Get(k) \/ Remove(k) \/ \E v \in Values \cup {NoValue} : Add(k, v)
  \/ Renew

Spec == Init /\ [][Next]_<<queue, answer>>
=============================================================================
