------------------------- MODULE FollowerRepository -------------------------
(***************************************************************************)
(* follower_repository.c: who follows whom, kept twice.  idolMap[i] is the *)
(* list of the followers of idol i (posts are pushed along it), and        *)
(* followerMap[f] the list of the idols of follower f (a new feed is dumped*)
(* along it).  Every call writes the two lists one after the other.        *)
(*                                                                         *)
(* A key without a list and a key with an empty list are one state here:   *)
(* every reader answers NOT_FOUND to both.  What an allocation does to one *)
(* half of a follow is an input, alloc:                                    *)
(*   stored  - the id is appended;                                         *)
(*   refused - createList or the malloc of the id fails: ERROR;            *)
(*   lost    - the map entry or the list node cannot be allocated, a status*)
(*             the code does not look at: SUCCESS, and nothing is recorded.*)
(***************************************************************************)
EXTENDS Naturals, Sequences, SequencesExt

CONSTANTS Users,    \* user ids
          Allocs    \* the allocation outcomes that can happen

ASSUME AllocsAssumption == Allocs \subseteq {"stored", "refused", "lost"}

VARIABLES idolMap, followerMap

vars == <<idolMap, followerMap>>

Status == {"SUCCESS", "ERROR", "NOT_FOUND"}

----------------------------------------------------------------------------
\* Every list in both maps; an absent list is the empty one.
initFollowerRepository ==
  /\ idolMap = [u \in Users |-> <<>>]
  /\ followerMap = [u \in Users |-> <<>>]

\* The status and the list a reader gets: SUCCESS only for a non-empty list.
getIdolFollowers(idol) == idolMap[idol]
getFollowerIdols(follower) == followerMap[follower]

\* k is the position at which a scan from the head of list meets id.
FirstAt(list, id, k) ==
  list[k] = id /\ \A j \in 1 .. k - 1 : list[j] # id

\* Mutant: appended without the scan for a copy.
addIdolFollowerNoScan(idol, follower, alloc, rv) ==
  \/ /\ alloc = "stored" /\ rv = "SUCCESS"
     /\ idolMap' = [idolMap EXCEPT ![idol] = Append(@, follower)]
  \/ alloc = "refused" /\ rv = "ERROR" /\ UNCHANGED idolMap

addIdolFollower(idol, follower, alloc, rv) ==
  \/ /\ Contains(idolMap[idol], follower)
     /\ rv = "SUCCESS" /\ UNCHANGED idolMap
  \/ /\ ~ Contains(idolMap[idol], follower)
     /\ \/ /\ alloc = "stored" /\ rv = "SUCCESS"
           /\ idolMap' = [idolMap EXCEPT ![idol] = Append(@, follower)]
        \/ alloc = "refused" /\ rv = "ERROR" /\ UNCHANGED idolMap
        \/ alloc = "lost" /\ rv = "SUCCESS" /\ UNCHANGED idolMap

addFollowerIdol(idol, follower, alloc, rv) ==
  \/ /\ Contains(followerMap[follower], idol)
     /\ rv = "SUCCESS" /\ UNCHANGED followerMap
  \/ /\ ~ Contains(followerMap[follower], idol)
     /\ \/ /\ alloc = "stored" /\ rv = "SUCCESS"
           /\ followerMap' = [followerMap EXCEPT ![follower] = Append(@, idol)]
        \/ alloc = "refused" /\ rv = "ERROR" /\ UNCHANGED followerMap
        \/ alloc = "lost" /\ rv = "SUCCESS" /\ UNCHANGED followerMap

removeIdolFollower(idol, follower, rv) ==
  \/ /\ rv = "SUCCESS"
     /\ \E k \in DOMAIN idolMap[idol] :
          /\ FirstAt(idolMap[idol], follower, k)
          /\ idolMap' = [idolMap EXCEPT ![idol] = RemoveAt(@, k)]
  \/ /\ rv = "NOT_FOUND" /\ ~ Contains(idolMap[idol], follower)
     /\ UNCHANGED idolMap

\* Mutant: the index of the match is not passed on, the head is removed.
removeFollowerIdolHead(idol, follower, rv) ==
  \/ /\ rv = "SUCCESS" /\ Contains(followerMap[follower], idol)
     /\ followerMap' = [followerMap EXCEPT ![follower] = Tail(@)]
  \/ /\ rv = "NOT_FOUND" /\ ~ Contains(followerMap[follower], idol)
     /\ UNCHANGED followerMap

removeFollowerIdol(idol, follower, rv) ==
  \/ /\ rv = "SUCCESS"
     /\ \E k \in DOMAIN followerMap[follower] :
          /\ FirstAt(followerMap[follower], idol, k)
          /\ followerMap' = [followerMap EXCEPT ![follower] = RemoveAt(@, k)]
  \/ /\ rv = "NOT_FOUND" /\ ~ Contains(followerMap[follower], idol)
     /\ UNCHANGED followerMap

\* Mutant: the follower's list is written first.
addFollowerReversed(idol, follower, rv) ==
  \E a, b \in Allocs :
    \/ /\ addFollowerIdol(idol, follower, a, "SUCCESS")
       /\ addIdolFollower(idol, follower, b, rv)
    \/ /\ addFollowerIdol(idol, follower, a, "ERROR")
       /\ rv = "ERROR" /\ UNCHANGED idolMap

\* Mutant: the status of the second half is not returned.
addFollowerIgnoresSecond(idol, follower, rv) ==
  \E a, b \in Allocs :
    \/ /\ addIdolFollower(idol, follower, a, "SUCCESS") /\ rv = "SUCCESS"
       /\ \E rt \in Status : addFollowerIdol(idol, follower, b, rt)
    \/ /\ addIdolFollower(idol, follower, a, "ERROR")
       /\ rv = "ERROR" /\ UNCHANGED followerMap

\* The idol's list first; the follower's only if that did not fail.
addFollower(idol, follower, rv) ==
  \E a, b \in Allocs :
    \/ /\ addIdolFollower(idol, follower, a, "SUCCESS")
       /\ addFollowerIdol(idol, follower, b, rv)
    \/ /\ addIdolFollower(idol, follower, a, "ERROR")
       /\ rv = "ERROR" /\ UNCHANGED followerMap

\* Both lists are tried: the first half fails only if the maps do not exist.
removeFollower(idol, follower, rv) ==
  /\ \E rt \in {"SUCCESS", "NOT_FOUND"} : removeIdolFollower(idol, follower, rt)
  /\ removeFollowerIdol(idol, follower, rv)

Init == initFollowerRepository

Next == \E idol, follower \in Users, rv \in Status :
          addFollower(idol, follower, rv) \/ removeFollower(idol, follower, rv)

Spec == Init /\ [][Next]_vars

----------------------------------------------------------------------------
TypeOK ==
  /\ idolMap \in [Users -> Seq(Users)]
  /\ followerMap \in [Users -> Seq(Users)]

\* The edges each map records.
IdolEdges == {e \in Users \X Users : Contains(idolMap[e[1]], e[2])}
FollowerEdges == {e \in Users \X Users : Contains(followerMap[e[2]], e[1])}

\* No list ever holds the same id twice, whatever allocations do: addFollower
\* scans before it appends.  A push would otherwise go out twice and one
\* unfollow would leave the second copy behind.
NoDuplicates ==
  /\ \A i \in Users : IsInjective(idolMap[i])
  /\ \A f \in Users : IsInjective(followerMap[f])

\* A follow that was refused half way leaves a follower the idol pushes to
\* but never an idol a feed dumps without the pushes that should come after:
\* the follower's list is written last and removed whatever the first list
\* said (addFollower, removeFollower).
DumpImpliesPush == FollowerEdges \subseteq IdolEdges

\* One unfollow undoes any history of follows, refused or lost ones included:
\* afterwards no post is pushed and nothing is dumped for that pair.
UnfollowClears ==
  [][\A i, f \in Users : (\E rv \in Status : removeFollower(i, f, rv))
        => <<i, f>> \notin IdolEdges' /\ <<i, f>> \notin FollowerEdges']_vars

\* The repository implements the graph: an edge is followed when both lists
\* have it, doubtful when only the idol's list does.
Graph == INSTANCE FollowGraph WITH
           follows <- FollowerEdges, doubtful <- IdolEdges \ FollowerEdges
GraphSpec == Graph!Spec

\* Every call is the graph's call of the same name, with the status the code
\* returned: SUCCESS from addFollower means that both lists have the edge.
CallsMatchGraph ==
  [][\A i, f \in Users, rv \in Status :
        /\ addFollower(i, f, rv) => Graph!Follow(<<i, f>>, rv)
        /\ removeFollower(i, f, rv) => Graph!Unfollow(<<i, f>>, rv)]_vars
=============================================================================
