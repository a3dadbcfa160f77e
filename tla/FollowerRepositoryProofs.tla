---------------------- MODULE FollowerRepositoryProofs ----------------------
(***************************************************************************)
(* The follower repository for any set of users: the lists stay free of    *)
(* duplicates, one unfollow clears a pair, and, when no allocation failure *)
(* goes unnoticed, the two maps together implement FollowGraph.            *)
(***************************************************************************)
EXTENDS FollowerRepository, Integers, SequenceTheorems, TLAPS

----------------------------------------------------------------------------
(* The lists of list.c as sequences: what append and remove do to           *)
(* membership, to duplicates and to the other positions.                    *)

\* append: one more element, at the end, the others where they were.
LEMMA AppendList ==
  ASSUME NEW S, NEW s \in Seq(S), NEW e \in S
  PROVE  /\ Append(s, e) \in Seq(S)
         /\ Len(Append(s, e)) = Len(s) + 1
         /\ DOMAIN Append(s, e) = 1 .. Len(s) + 1
         /\ \A i \in 1 .. Len(s) : Append(s, e)[i] = s[i]
         /\ Append(s, e)[Len(s) + 1] = e
  OBVIOUS

\* remove: one element fewer, the ones behind it moved up by one.
LEMMA RemoveAtList ==
  ASSUME NEW S, NEW s \in Seq(S), NEW k \in 1 .. Len(s)
  PROVE  /\ RemoveAt(s, k) \in Seq(S)
         /\ Len(RemoveAt(s, k)) = Len(s) - 1
         /\ DOMAIN RemoveAt(s, k) = 1 .. Len(s) - 1
         /\ \A i \in 1 .. Len(s) - 1 :
              RemoveAt(s, k)[i] = IF i < k THEN s[i] ELSE s[i + 1]
<1> DEFINE a == SubSeq(s, 1, k - 1)
           b == SubSeq(s, k + 1, Len(s))
<1>0. Len(s) \in Nat /\ \A i \in 1 .. Len(s) : s[i] \in S
  BY LenProperties, ElementOfSeq
<1>1. /\ a \in Seq(S) /\ Len(a) = k - 1
      /\ \A i \in 1 .. k - 1 : a[i] = s[i]
  <2>1. /\ \A i \in 1 .. k - 1 : s[i] \in S
        /\ 1 \in Int /\ k - 1 \in Int
    BY <1>0
  <2>2. /\ a \in Seq(S)
        /\ Len(a) = IF 1 <= k - 1 THEN k - 1 - 1 + 1 ELSE 0
        /\ \A i \in 1 .. k - 1 - 1 + 1 : a[i] = s[1 + i - 1]
    BY <2>1, SubSeqProperties, SMTT(20)
  <2> QED
    BY <2>2, <1>0
<1>2. /\ b \in Seq(S) /\ Len(b) = Len(s) - k
      /\ \A i \in 1 .. Len(s) - k : b[i] = s[k + i]
  <2>1. /\ \A i \in k + 1 .. Len(s) : s[i] \in S
        /\ k + 1 \in Int /\ Len(s) \in Int
    BY <1>0
  <2>2. /\ b \in Seq(S)
        /\ Len(b) = IF k + 1 <= Len(s) THEN Len(s) - (k + 1) + 1 ELSE 0
        /\ \A i \in 1 .. Len(s) - (k + 1) + 1 : b[i] = s[k + 1 + i - 1]
    BY <2>1, SubSeqProperties, SMTT(20)
  <2> QED
    BY <2>2, <1>0
<1>3. RemoveAt(s, k) = a \o b
  BY DEF RemoveAt
<1>4. /\ a \o b \in Seq(S)
      /\ Len(a \o b) = Len(a) + Len(b)
      /\ \A i \in 1 .. Len(a) + Len(b) :
           (a \o b)[i] = IF i <= Len(a) THEN a[i] ELSE b[i - Len(a)]
  BY <1>1, <1>2, ConcatProperties
<1> HIDE DEF a, b
<1>5. \A i \in 1 .. Len(s) - 1 : (a \o b)[i] = IF i < k THEN s[i] ELSE s[i + 1]
  <2> TAKE i \in 1 .. Len(s) - 1
  <2>1. CASE i < k
    BY <2>1, <1>0, <1>1, <1>2, <1>4
  <2>2. CASE ~ (i < k)
    <3>1. /\ i - (k - 1) \in 1 .. Len(s) - k /\ k + (i - (k - 1)) = i + 1
          /\ i \in 1 .. (k - 1) + (Len(s) - k) /\ ~ (i <= k - 1)
      BY <2>2, <1>0
    <3>2. (a \o b)[i] = b[i - (k - 1)]
      BY <3>1, <1>1, <1>2, <1>4
    <3>3. b[i - (k - 1)] = s[k + (i - (k - 1))]
      BY <3>1, <1>2
    <3> QED
      BY <3>1, <3>2, <3>3, <2>2
  <2> QED
    BY <2>1, <2>2
<1> QED
  BY <1>0, <1>1, <1>2, <1>3, <1>4, <1>5, LenProperties

\* What append does to membership.
LEMMA ContainsAppend ==
  ASSUME NEW S, NEW s \in Seq(S), NEW e \in S, NEW x
  PROVE  Contains(Append(s, e), x) <=> (Contains(s, x) \/ x = e)
<1>1. Len(s) \in Nat
  BY LenProperties
<1> QED
  BY <1>1, AppendList DEF Contains

\* An append of something new keeps a list free of duplicates.
LEMMA InjectiveAppend ==
  ASSUME NEW S, NEW s \in Seq(S), NEW e \in S, IsInjective(s), ~ Contains(s, e)
  PROVE  IsInjective(Append(s, e))
<1>1. Len(s) \in Nat /\ DOMAIN s = 1 .. Len(s)
  BY LenProperties
<1> QED
  BY <1>1, AppendList DEF Contains, IsInjective

\* A removal loses no element other than the removed one ...
LEMMA ContainsRemoveAt ==
  ASSUME NEW S, NEW s \in Seq(S), NEW k \in 1 .. Len(s), NEW x, x # s[k]
  PROVE  Contains(RemoveAt(s, k), x) <=> Contains(s, x)
<1>1. Len(s) \in Nat
  BY LenProperties
<1>2. ASSUME NEW i \in 1 .. Len(s), s[i] = x
      PROVE  Contains(RemoveAt(s, k), x)
  <2>1. CASE i < k
    <3>1. i \in 1 .. Len(s) - 1
      BY <1>1, <2>1
    <3>2. RemoveAt(s, k)[i] = s[i]
      BY <2>1, <3>1, RemoveAtList
    <3> QED
      BY <1>2, <3>1, <3>2, RemoveAtList DEF Contains
  <2>2. CASE i > k
    <3>1. i - 1 \in 1 .. Len(s) - 1 /\ ~ (i - 1 < k)
      BY <1>1, <2>2
    <3>2. RemoveAt(s, k)[i - 1] = s[i - 1 + 1]
      BY <3>1, RemoveAtList
    <3>3. RemoveAt(s, k)[i - 1] = x /\ i - 1 \in 1 .. Len(RemoveAt(s, k))
      BY <1>1, <1>2, <3>1, <3>2, RemoveAtList
    <3> QED
      BY <3>3, Zenon DEF Contains
  <2> QED
    BY <1>1, <1>2, <2>1, <2>2
<1>3. ASSUME NEW i \in 1 .. Len(s) - 1, RemoveAt(s, k)[i] = x
      PROVE  Contains(s, x)
  <2>1. s[i] = x \/ s[i + 1] = x
    BY <1>3, RemoveAtList
  <2> QED
    BY <1>1, <2>1 DEF Contains
<1> QED
  BY <1>1, <1>2, <1>3, RemoveAtList DEF Contains

\* ... and, from a list without duplicates, every copy of that one.
LEMMA InjectiveRemoveAt ==
  ASSUME NEW S, NEW s \in Seq(S), NEW k \in 1 .. Len(s), IsInjective(s)
  PROVE  /\ IsInjective(RemoveAt(s, k))
         /\ ~ Contains(RemoveAt(s, k), s[k])
<1>1. Len(s) \in Nat /\ DOMAIN s = 1 .. Len(s)
  BY LenProperties
<1>2. \A i, j \in 1 .. Len(s) : s[i] = s[j] => i = j
  BY <1>1 DEF IsInjective
<1> DEFINE up(i) == IF i < k THEN i ELSE i + 1
<1>3. \A i \in 1 .. Len(s) - 1 : RemoveAt(s, k)[i] = s[up(i)]
  BY RemoveAtList
<1>4. \A i \in 1 .. Len(s) - 1 : up(i) \in 1 .. Len(s) /\ up(i) # k
  BY <1>1
<1>5. \A i, j \in 1 .. Len(s) - 1 : up(i) = up(j) => i = j
  BY <1>1
<1>6. /\ DOMAIN RemoveAt(s, k) = 1 .. Len(s) - 1
      /\ Len(RemoveAt(s, k)) = Len(s) - 1
  BY RemoveAtList
<1> HIDE DEF up
<1>7. IsInjective(RemoveAt(s, k))
  BY <1>2, <1>3, <1>4, <1>5, <1>6 DEF IsInjective
<1>8. ~ Contains(RemoveAt(s, k), s[k])
  BY <1>2, <1>3, <1>4, <1>6 DEF Contains
<1> QED
  BY <1>7, <1>8

----------------------------------------------------------------------------
(* The repository. *)

\* No status is ignored: the outcome addFollower cannot report is excluded.
NoLoss == "lost" \notin Allocs

IInv == TypeOK /\ NoDuplicates

----------------------------------------------------------------------------
\* One half of a follow, seen as a set of edges: only the asked edge can
\* appear, it is there after a stored SUCCESS, and nothing disappears.
LEMMA AddIdolHalf ==
  ASSUME IInv, NEW idol \in Users, NEW follower \in Users,
         NEW alloc, NEW rv, addIdolFollower(idol, follower, alloc, rv)
  PROVE  /\ idolMap' \in [Users -> Seq(Users)]
         /\ \A i \in Users : IsInjective(idolMap'[i])
         /\ \/ IdolEdges' = IdolEdges /\ rv = "ERROR"
            \/ IdolEdges' = IdolEdges /\ rv = "SUCCESS" /\ alloc = "lost"
            \/ IdolEdges' = IdolEdges \cup {<<idol, follower>>} /\ rv = "SUCCESS"
<1> USE DEF IInv, TypeOK, NoDuplicates
<1>1. CASE Contains(idolMap[idol], follower) /\ rv = "SUCCESS" /\ UNCHANGED idolMap
  BY <1>1 DEF IdolEdges
<1>2. CASE /\ ~ Contains(idolMap[idol], follower) /\ rv = "SUCCESS"
           /\ idolMap' = [idolMap EXCEPT ![idol] = Append(@, follower)]
  <2>1. idolMap[idol] \in Seq(Users) /\ IsInjective(idolMap[idol])
    OBVIOUS
  <2>2. /\ Append(idolMap[idol], follower) \in Seq(Users)
        /\ IsInjective(Append(idolMap[idol], follower))
    BY <1>2, <2>1, AppendList, InjectiveAppend
  <2>3. \A x : Contains(Append(idolMap[idol], follower), x)
                 <=> (Contains(idolMap[idol], x) \/ x = follower)
    BY <2>1, ContainsAppend
  <2>4. /\ idolMap' \in [Users -> Seq(Users)]
        /\ \A i \in Users : IsInjective(idolMap'[i])
    BY <1>2, <2>2
  <2>5. IdolEdges' = IdolEdges \cup {<<idol, follower>>}
    <3>1. \A i \in Users : \A x :
            Contains(idolMap'[i], x)
              <=> (Contains(idolMap[i], x) \/ (i = idol /\ x = follower))
      BY <1>2, <2>3
    <3> QED
      BY <3>1 DEF IdolEdges
  <2> QED
    BY <1>2, <2>4, <2>5
<1>3. CASE /\ UNCHANGED idolMap
           /\ ((alloc = "refused" /\ rv = "ERROR") \/ (alloc = "lost" /\ rv = "SUCCESS"))
  BY <1>3 DEF IdolEdges
<1>4. \/ Contains(idolMap[idol], follower) /\ rv = "SUCCESS" /\ UNCHANGED idolMap
      \/ /\ ~ Contains(idolMap[idol], follower) /\ rv = "SUCCESS"
         /\ idolMap' = [idolMap EXCEPT ![idol] = Append(@, follower)]
      \/ /\ UNCHANGED idolMap
         /\ ((alloc = "refused" /\ rv = "ERROR") \/ (alloc = "lost" /\ rv = "SUCCESS"))
  BY DEF addIdolFollower
<1> HIDE DEF IInv, TypeOK, NoDuplicates
<1> QED
  BY <1>1, <1>2, <1>3, <1>4

LEMMA AddFollowerHalf ==
  ASSUME IInv, NEW idol \in Users, NEW follower \in Users,
         NEW alloc, NEW rv, addFollowerIdol(idol, follower, alloc, rv)
  PROVE  /\ followerMap' \in [Users -> Seq(Users)]
         /\ \A f \in Users : IsInjective(followerMap'[f])
         /\ \/ FollowerEdges' = FollowerEdges /\ rv = "ERROR"
               /\ <<idol, follower>> \notin FollowerEdges
            \/ FollowerEdges' = FollowerEdges /\ rv = "SUCCESS" /\ alloc = "lost"
            \/ FollowerEdges' = FollowerEdges \cup {<<idol, follower>>} /\ rv = "SUCCESS"
<1> USE DEF IInv, TypeOK, NoDuplicates
<1>1. CASE Contains(followerMap[follower], idol) /\ rv = "SUCCESS" /\ UNCHANGED followerMap
  BY <1>1 DEF FollowerEdges
<1>2. CASE /\ ~ Contains(followerMap[follower], idol) /\ rv = "SUCCESS"
           /\ followerMap' = [followerMap EXCEPT ![follower] = Append(@, idol)]
  <2>1. followerMap[follower] \in Seq(Users) /\ IsInjective(followerMap[follower])
    OBVIOUS
  <2>2. /\ Append(followerMap[follower], idol) \in Seq(Users)
        /\ IsInjective(Append(followerMap[follower], idol))
    BY <1>2, <2>1, AppendList, InjectiveAppend
  <2>3. \A x : Contains(Append(followerMap[follower], idol), x)
                 <=> (Contains(followerMap[follower], x) \/ x = idol)
    BY <2>1, ContainsAppend
  <2>4. /\ followerMap' \in [Users -> Seq(Users)]
        /\ \A f \in Users : IsInjective(followerMap'[f])
    BY <1>2, <2>2
  <2>5. FollowerEdges' = FollowerEdges \cup {<<idol, follower>>}
    <3>1. \A f \in Users : \A x :
            Contains(followerMap'[f], x)
              <=> (Contains(followerMap[f], x) \/ (f = follower /\ x = idol))
      BY <1>2, <2>3
    <3> QED
      BY <3>1 DEF FollowerEdges
  <2> QED
    BY <1>2, <2>4, <2>5
<1>3. CASE /\ UNCHANGED followerMap /\ ~ Contains(followerMap[follower], idol)
           /\ ((alloc = "refused" /\ rv = "ERROR") \/ (alloc = "lost" /\ rv = "SUCCESS"))
  BY <1>3 DEF FollowerEdges
<1>4. \/ Contains(followerMap[follower], idol) /\ rv = "SUCCESS" /\ UNCHANGED followerMap
      \/ /\ ~ Contains(followerMap[follower], idol) /\ rv = "SUCCESS"
         /\ followerMap' = [followerMap EXCEPT ![follower] = Append(@, idol)]
      \/ /\ UNCHANGED followerMap /\ ~ Contains(followerMap[follower], idol)
         /\ ((alloc = "refused" /\ rv = "ERROR") \/ (alloc = "lost" /\ rv = "SUCCESS"))
  BY DEF addFollowerIdol
<1> HIDE DEF IInv, TypeOK, NoDuplicates
<1> QED
  BY <1>1, <1>2, <1>3, <1>4

\* One half of an unfollow: the asked edge is gone, the others stay, and the
\* status tells whether it was there.
LEMMA RemoveIdolHalf ==
  ASSUME IInv, NEW idol \in Users, NEW follower \in Users,
         NEW rv, removeIdolFollower(idol, follower, rv)
  PROVE  /\ idolMap' \in [Users -> Seq(Users)]
         /\ \A i \in Users : IsInjective(idolMap'[i])
         /\ IdolEdges' = IdolEdges \ {<<idol, follower>>}
<1> USE DEF IInv, TypeOK, NoDuplicates
<1>1. ASSUME NEW k \in DOMAIN idolMap[idol], FirstAt(idolMap[idol], follower, k),
             idolMap' = [idolMap EXCEPT ![idol] = RemoveAt(@, k)]
      PROVE  /\ idolMap' \in [Users -> Seq(Users)]
             /\ \A i \in Users : IsInjective(idolMap'[i])
             /\ IdolEdges' = IdolEdges \ {<<idol, follower>>}
  <2>1. /\ idolMap[idol] \in Seq(Users) /\ IsInjective(idolMap[idol])
        /\ k \in 1 .. Len(idolMap[idol]) /\ idolMap[idol][k] = follower
    BY <1>1, LenProperties DEF FirstAt
  <2>2. /\ RemoveAt(idolMap[idol], k) \in Seq(Users)
        /\ IsInjective(RemoveAt(idolMap[idol], k))
        /\ ~ Contains(RemoveAt(idolMap[idol], k), follower)
    BY <2>1, RemoveAtList, InjectiveRemoveAt
  <2>3. \A x : x # follower => (Contains(RemoveAt(idolMap[idol], k), x)
                                  <=> Contains(idolMap[idol], x))
    BY <2>1, ContainsRemoveAt
  <2>4. /\ idolMap' \in [Users -> Seq(Users)]
        /\ \A i \in Users : IsInjective(idolMap'[i])
    BY <1>1, <2>2
  <2>5. \A i \in Users : \A x :
          Contains(idolMap'[i], x)
            <=> (Contains(idolMap[i], x) /\ ~ (i = idol /\ x = follower))
    BY <1>1, <2>2, <2>3
  <2>6. IdolEdges' = IdolEdges \ {<<idol, follower>>}
    <3>1. \A i \in Users, f \in Users :
            <<i, f>> \in IdolEdges' <=> <<i, f>> \in IdolEdges \ {<<idol, follower>>}
      BY <2>5 DEF IdolEdges
    <3>2. \A e \in Users \X Users :
            e \in IdolEdges' <=> e \in IdolEdges \ {<<idol, follower>>}
      BY <3>1
    <3> QED
      BY <3>2 DEF IdolEdges
  <2> QED
    BY <2>4, <2>6
<1>2. CASE ~ Contains(idolMap[idol], follower) /\ UNCHANGED idolMap
  BY <1>2 DEF IdolEdges
<1> HIDE DEF IInv, TypeOK, NoDuplicates
<1> QED
  BY <1>1, <1>2, Zenon DEF removeIdolFollower

LEMMA RemoveFollowerHalf ==
  ASSUME IInv, NEW idol \in Users, NEW follower \in Users,
         NEW rv, removeFollowerIdol(idol, follower, rv)
  PROVE  /\ followerMap' \in [Users -> Seq(Users)]
         /\ \A f \in Users : IsInjective(followerMap'[f])
         /\ FollowerEdges' = FollowerEdges \ {<<idol, follower>>}
         /\ rv = IF <<idol, follower>> \in FollowerEdges THEN "SUCCESS" ELSE "NOT_FOUND"
<1> USE DEF IInv, TypeOK, NoDuplicates
<1>1. ASSUME NEW k \in DOMAIN followerMap[follower], FirstAt(followerMap[follower], idol, k),
             followerMap' = [followerMap EXCEPT ![follower] = RemoveAt(@, k)],
             rv = "SUCCESS"
      PROVE  /\ followerMap' \in [Users -> Seq(Users)]
             /\ \A f \in Users : IsInjective(followerMap'[f])
             /\ FollowerEdges' = FollowerEdges \ {<<idol, follower>>}
             /\ <<idol, follower>> \in FollowerEdges
  <2>1. /\ followerMap[follower] \in Seq(Users) /\ IsInjective(followerMap[follower])
        /\ k \in 1 .. Len(followerMap[follower]) /\ followerMap[follower][k] = idol
    BY <1>1, LenProperties DEF FirstAt
  <2>2. /\ RemoveAt(followerMap[follower], k) \in Seq(Users)
        /\ IsInjective(RemoveAt(followerMap[follower], k))
        /\ ~ Contains(RemoveAt(followerMap[follower], k), idol)
    BY <2>1, RemoveAtList, InjectiveRemoveAt
  <2>3. \A x : x # idol => (Contains(RemoveAt(followerMap[follower], k), x)
                              <=> Contains(followerMap[follower], x))
    BY <2>1, ContainsRemoveAt
  <2>4. /\ followerMap' \in [Users -> Seq(Users)]
        /\ \A f \in Users : IsInjective(followerMap'[f])
    BY <1>1, <2>2
  <2>5. \A f \in Users : \A x :
          Contains(followerMap'[f], x)
            <=> (Contains(followerMap[f], x) /\ ~ (f = follower /\ x = idol))
    BY <1>1, <2>2, <2>3
  <2>6. <<idol, follower>> \in FollowerEdges
    BY <2>1 DEF FollowerEdges, Contains
  <2>7. FollowerEdges' = FollowerEdges \ {<<idol, follower>>}
    <3>1. \A i \in Users, f \in Users :
            <<i, f>> \in FollowerEdges'
              <=> <<i, f>> \in FollowerEdges \ {<<idol, follower>>}
      BY <2>5 DEF FollowerEdges
    <3>2. \A e \in Users \X Users :
            e \in FollowerEdges' <=> e \in FollowerEdges \ {<<idol, follower>>}
      BY <3>1
    <3> QED
      BY <3>2 DEF FollowerEdges
  <2> QED
    BY <2>4, <2>6, <2>7
<1>2. CASE /\ ~ Contains(followerMap[follower], idol) /\ UNCHANGED followerMap
           /\ rv = "NOT_FOUND"
  BY <1>2 DEF FollowerEdges
<1> HIDE DEF IInv, TypeOK, NoDuplicates
<1> QED
  BY <1>1, <1>2, Zenon DEF removeFollowerIdol

----------------------------------------------------------------------------
\* A whole addFollower: the first half may stand although the call is refused.
LEMMA AddFollowerEdges ==
  ASSUME IInv, NEW idol \in Users, NEW follower \in Users,
         NEW rv, addFollower(idol, follower, rv)
  PROVE  /\ IInv'
         /\ NoLoss => \/ /\ rv = "SUCCESS"
                         /\ IdolEdges' = IdolEdges \cup {<<idol, follower>>}
                         /\ FollowerEdges' = FollowerEdges \cup {<<idol, follower>>}
                      \/ /\ rv = "ERROR" /\ FollowerEdges' = FollowerEdges
                         /\ IdolEdges' \in {IdolEdges, IdolEdges \cup {<<idol, follower>>}}
                         /\ \/ <<idol, follower>> \notin FollowerEdges
                            \/ IdolEdges' = IdolEdges
                               /\ <<idol, follower>> \notin IdolEdges
<1>1. ASSUME NEW a \in Allocs, NEW b \in Allocs,
             addIdolFollower(idol, follower, a, "SUCCESS"),
             addFollowerIdol(idol, follower, b, rv)
      PROVE  /\ IInv'
             /\ NoLoss => \/ /\ rv = "SUCCESS"
                             /\ IdolEdges' = IdolEdges \cup {<<idol, follower>>}
                             /\ FollowerEdges' = FollowerEdges \cup {<<idol, follower>>}
                          \/ /\ rv = "ERROR" /\ FollowerEdges' = FollowerEdges
                             /\ IdolEdges' = IdolEdges \cup {<<idol, follower>>}
                             /\ <<idol, follower>> \notin FollowerEdges
  <2>1. IInv'
    BY <1>1, AddIdolHalf, AddFollowerHalf DEF IInv, TypeOK, NoDuplicates
  <2>2. ASSUME NoLoss
        PROVE  IdolEdges' = IdolEdges \cup {<<idol, follower>>}
    BY <1>1, <2>2, AddIdolHalf DEF NoLoss
  <2>3. ASSUME NoLoss
        PROVE  \/ /\ FollowerEdges' = FollowerEdges /\ rv = "ERROR"
                  /\ <<idol, follower>> \notin FollowerEdges
               \/ /\ FollowerEdges' = FollowerEdges \cup {<<idol, follower>>}
                  /\ rv = "SUCCESS"
    BY <1>1, <2>3, AddFollowerHalf DEF NoLoss
  <2> QED
    BY <2>1, <2>2, <2>3
<1>2. ASSUME NEW a \in Allocs, addIdolFollower(idol, follower, a, "ERROR"),
             rv = "ERROR", UNCHANGED followerMap
      PROVE  /\ IInv' /\ rv = "ERROR" /\ FollowerEdges' = FollowerEdges
             /\ IdolEdges' = IdolEdges /\ <<idol, follower>> \notin IdolEdges
  <2>1. IInv'
    BY <1>2, AddIdolHalf DEF IInv, TypeOK, NoDuplicates
  <2>2. UNCHANGED idolMap /\ ~ Contains(idolMap[idol], follower)
    BY <1>2 DEF addIdolFollower
  <2> QED
    BY <1>2, <2>1, <2>2 DEF IdolEdges, FollowerEdges
<1> QED
  BY <1>1, <1>2 DEF addFollower

LEMMA RemoveFollowerEdges ==
  ASSUME IInv, NEW idol \in Users, NEW follower \in Users,
         NEW rv, removeFollower(idol, follower, rv)
  PROVE  /\ IInv'
         /\ IdolEdges' = IdolEdges \ {<<idol, follower>>}
         /\ FollowerEdges' = FollowerEdges \ {<<idol, follower>>}
         /\ rv = IF <<idol, follower>> \in FollowerEdges THEN "SUCCESS" ELSE "NOT_FOUND"
<1>1. PICK rt : removeIdolFollower(idol, follower, rt)
  BY DEF removeFollower
<1>2. removeFollowerIdol(idol, follower, rv)
  BY DEF removeFollower
<1>3. IInv'
  BY <1>1, <1>2, RemoveIdolHalf, RemoveFollowerHalf DEF IInv, TypeOK, NoDuplicates
<1> QED
  BY <1>1, <1>2, <1>3, RemoveIdolHalf, RemoveFollowerHalf

----------------------------------------------------------------------------
\* Whatever allocations do, no list ever holds an id twice.
THEOREM ListsHaveNoDuplicates == Spec => [](TypeOK /\ NoDuplicates)
<1>1. Init => IInv
  BY DEF Init, initFollowerRepository, IInv, TypeOK, NoDuplicates, IsInjective
<1>2. IInv /\ [Next]_vars => IInv'
  <2> SUFFICES ASSUME IInv, [Next]_vars PROVE IInv'
    OBVIOUS
  <2>1. ASSUME NEW i \in Users, NEW f \in Users, NEW rv, addFollower(i, f, rv)
        PROVE  IInv'
    BY <2>1, AddFollowerEdges
  <2>2. ASSUME NEW i \in Users, NEW f \in Users, NEW rv, removeFollower(i, f, rv)
        PROVE  IInv'
    BY <2>2, RemoveFollowerEdges
  <2>3. CASE UNCHANGED vars
    BY <2>3 DEF vars, IInv, TypeOK, NoDuplicates
  <2> QED
    BY <2>1, <2>2, <2>3 DEF Next
<1> QED
  BY <1>1, <1>2, PTL DEF Spec, IInv

\* One unfollow undoes any history of follows about the pair.
THEOREM UnfollowClearsThePair == Spec => UnfollowClears
<1>1. IInv /\ [Next]_vars =>
        [\A i, f \in Users : (\E rv \in Status : removeFollower(i, f, rv))
            => <<i, f>> \notin IdolEdges' /\ <<i, f>> \notin FollowerEdges']_vars
  BY RemoveFollowerEdges
<1>2. Spec => []IInv
  BY ListsHaveNoDuplicates, PTL DEF IInv
<1> QED
  BY <1>1, <1>2, PTL DEF Spec, UnfollowClears

\* When no allocation failure goes unnoticed, a dump is never without pushes.
THEOREM DumpsComeWithPushes == NoLoss => (Spec => []DumpImpliesPush)
<1> SUFFICES ASSUME NoLoss PROVE Spec => []DumpImpliesPush
  OBVIOUS
<1>1. Init => DumpImpliesPush
  BY DEF Init, initFollowerRepository, DumpImpliesPush, FollowerEdges, Contains
<1>2. IInv /\ DumpImpliesPush /\ [Next]_vars => DumpImpliesPush'
  <2> SUFFICES ASSUME IInv, DumpImpliesPush, [Next]_vars PROVE DumpImpliesPush'
    OBVIOUS
  <2> USE DEF DumpImpliesPush
  <2>1. ASSUME NEW i \in Users, NEW f \in Users, NEW rv, addFollower(i, f, rv)
        PROVE  DumpImpliesPush'
    BY <2>1, AddFollowerEdges
  <2>2. ASSUME NEW i \in Users, NEW f \in Users, NEW rv, removeFollower(i, f, rv)
        PROVE  DumpImpliesPush'
    BY <2>2, RemoveFollowerEdges
  <2>3. CASE UNCHANGED vars
    BY <2>3 DEF vars, IdolEdges, FollowerEdges
  <2> QED
    BY <2>1, <2>2, <2>3 DEF Next
<1>3. Spec => []IInv
  BY ListsHaveNoDuplicates, PTL DEF IInv
<1> QED
  BY <1>1, <1>2, <1>3, PTL DEF Spec

\* Every call of the repository is the graph's call with the same status.
LEMMA CallsMatch ==
  ASSUME NoLoss, IInv, DumpImpliesPush,
         NEW i \in Users, NEW f \in Users, NEW rv
  PROVE  /\ addFollower(i, f, rv) => Graph!Follow(<<i, f>>, rv)
         /\ removeFollower(i, f, rv) => Graph!Unfollow(<<i, f>>, rv)
<1> USE DEF DumpImpliesPush
<1>1. addFollower(i, f, rv) => Graph!Follow(<<i, f>>, rv)
  <2> SUFFICES ASSUME addFollower(i, f, rv) PROVE Graph!Follow(<<i, f>>, rv)
    OBVIOUS
  <2>1. CASE /\ rv = "SUCCESS"
             /\ IdolEdges' = IdolEdges \cup {<<i, f>>}
             /\ FollowerEdges' = FollowerEdges \cup {<<i, f>>}
    BY <2>1 DEF Graph!Follow
  <2>2. CASE /\ rv = "ERROR" /\ FollowerEdges' = FollowerEdges
             /\ IdolEdges' \in {IdolEdges, IdolEdges \cup {<<i, f>>}}
             /\ <<i, f>> \notin FollowerEdges
    BY <2>2 DEF Graph!Follow
  <2> QED
    BY <2>1, <2>2, AddFollowerEdges
<1>2. removeFollower(i, f, rv) => Graph!Unfollow(<<i, f>>, rv)
  BY RemoveFollowerEdges DEF Graph!Unfollow
<1> QED
  BY <1>1, <1>2

\* The two maps together implement the follow graph.
THEOREM RepositoryImplementsGraph == NoLoss => (Spec => GraphSpec)
<1> SUFFICES ASSUME NoLoss PROVE Spec => GraphSpec
  OBVIOUS
<1>1. Init => Graph!Init
  BY DEF Init, initFollowerRepository, Graph!Init, IdolEdges, FollowerEdges, Contains
<1>2. IInv /\ DumpImpliesPush /\ [Next]_vars
        => [Graph!Next]_<<FollowerEdges, IdolEdges \ FollowerEdges>>
  <2> SUFFICES ASSUME IInv, DumpImpliesPush, [Next]_vars
               PROVE  [Graph!Next]_<<FollowerEdges, IdolEdges \ FollowerEdges>>
    OBVIOUS
  <2>1. ASSUME NEW i \in Users, NEW f \in Users, NEW rv \in Status,
               addFollower(i, f, rv) \/ removeFollower(i, f, rv)
        PROVE  Graph!Next
    <3>1. <<i, f>> \in Graph!Edges
      BY DEF Graph!Edges
    <3>2. Graph!Follow(<<i, f>>, rv) \/ Graph!Unfollow(<<i, f>>, rv)
      BY <2>1, CallsMatch
    <3> QED
      BY <3>1, <3>2 DEF Graph!Next, Status
  <2>2. CASE UNCHANGED vars
    BY <2>2 DEF vars, IdolEdges, FollowerEdges
  <2> QED
    BY <2>1, <2>2 DEF Next
<1>3. Spec => [](IInv /\ DumpImpliesPush)
  BY ListsHaveNoDuplicates, DumpsComeWithPushes, PTL DEF IInv
<1> QED
  BY <1>1, <1>2, <1>3, PTL DEF Spec, GraphSpec, Graph!Spec

\* And each call returns what the graph's call returns.
THEOREM StatusesMatchGraph == NoLoss => (Spec => CallsMatchGraph)
<1> SUFFICES ASSUME NoLoss PROVE Spec => CallsMatchGraph
  OBVIOUS
<1>1. IInv /\ DumpImpliesPush /\ [Next]_vars =>
        [\A i, f \in Users, rv \in Status :
           /\ addFollower(i, f, rv) => Graph!Follow(<<i, f>>, rv)
           /\ removeFollower(i, f, rv) => Graph!Unfollow(<<i, f>>, rv)]_vars
  BY CallsMatch
<1>2. Spec => [](IInv /\ DumpImpliesPush)
  BY ListsHaveNoDuplicates, DumpsComeWithPushes, PTL DEF IInv
<1> QED
  BY <1>1, <1>2, PTL DEF Spec, CallsMatchGraph
=============================================================================
