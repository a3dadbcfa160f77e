---------------------------- MODULE FollowGraph ----------------------------
(***************************************************************************)
(* What the follower repository of the Lodi server promises, as a graph of *)
(* edges <<idol, follower>>.  An edge is followed when the last call about *)
(* it was an addFollower that returned SUCCESS.  An edge is doubtful when  *)
(* an addFollower about it returned ERROR and nothing has settled it since:*)
(* the caller was refused, and the repository may or may not have recorded *)
(* the follower with the idol.                                             *)
(***************************************************************************)
CONSTANT Users

VARIABLES follows,   \* edges both sides know
          doubtful   \* edges only the idol's side knows

Edges == Users \X Users

Init == follows = {} /\ doubtful = {}

Follow(e, rv) ==
  \/ /\ rv = "SUCCESS"
     /\ follows' = follows \cup {e}
     /\ doubtful' = doubtful \ {e}
  \/ /\ rv = "ERROR" /\ e \notin follows
     /\ doubtful' \in {doubtful, doubtful \cup {e}}
     /\ UNCHANGED follows

Unfollow(e, rv) ==
  /\ rv = IF e \in follows THEN "SUCCESS" ELSE "NOT_FOUND"
  /\ follows' = follows \ {e}
  /\ doubtful' = doubtful \ {e}

Next == \E e \in Edges, rv \in {"SUCCESS", "ERROR", "NOT_FOUND"} :
           Follow(e, rv) \/ Unfollow(e, rv)

Spec == Init /\ [][Next]_<<follows, doubtful>>
=============================================================================
