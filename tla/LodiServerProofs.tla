-------------------------- MODULE LodiServerProofs --------------------------
(***************************************************************************)
(* The Lodi server for any number of users, hosts, connections and         *)
(* descriptors, any workload and any verdicts of the authentication: the   *)
(* descriptor table, authorisation, posts, sessions and deliveries.  Two   *)
(* theorems on deliveries assume that no failure of an allocation is       *)
(* ignored ("lost" \notin Allocs); nothing else is assumed of the         *)
(* constants but what LodiServer says of them.                             *)
(***************************************************************************)
EXTENDS LodiServer, SequenceTheorems, FiniteSetTheorems, TLAPS

FollowsProofs == INSTANCE FollowerRepositoryProofs

----------------------------------------------------------------------------
(* The lists of the server, as those of the follower repository. *)

LEMMA AppendList ==
  ASSUME NEW S, NEW s \in Seq(S), NEW e \in S
  PROVE  /\ Append(s, e) \in Seq(S)
         /\ Len(Append(s, e)) = Len(s) + 1
         /\ DOMAIN Append(s, e) = 1 .. Len(s) + 1
         /\ \A i \in 1 .. Len(s) : Append(s, e)[i] = s[i]
         /\ Append(s, e)[Len(s) + 1] = e
  BY AllocsAssumption, FollowsProofs!AppendList

LEMMA RemoveAtList ==
  ASSUME NEW S, NEW s \in Seq(S), NEW k \in 1 .. Len(s)
  PROVE  /\ RemoveAt(s, k) \in Seq(S)
         /\ Len(RemoveAt(s, k)) = Len(s) - 1
         /\ DOMAIN RemoveAt(s, k) = 1 .. Len(s) - 1
         /\ \A i \in 1 .. Len(s) - 1 :
              RemoveAt(s, k)[i] = IF i < k THEN s[i] ELSE s[i + 1]
<1>1. RemoveAt(s, k) = FollowsProofs!RemoveAt(s, k)
  BY DEF RemoveAt, FollowsProofs!RemoveAt
<1> DEFINE t == FollowsProofs!RemoveAt(s, k)
<1>2. /\ t \in Seq(S) /\ Len(t) = Len(s) - 1 /\ DOMAIN t = 1 .. Len(s) - 1
      /\ \A i \in 1 .. Len(s) - 1 : t[i] = IF i < k THEN s[i] ELSE s[i + 1]
  BY AllocsAssumption, FollowsProofs!RemoveAtList
<1> HIDE DEF t
<1> QED
  BY <1>1, <1>2 DEF t

LEMMA ContainsAppend ==
  ASSUME NEW S, NEW s \in Seq(S), NEW e \in S, NEW x
  PROVE  Contains(Append(s, e), x) <=> (Contains(s, x) \/ x = e)
  BY AllocsAssumption, FollowsProofs!ContainsAppend DEF Contains, FollowsProofs!Contains

LEMMA InjectiveAppend ==
  ASSUME NEW S, NEW s \in Seq(S), NEW e \in S, IsInjective(s), ~ Contains(s, e)
  PROVE  IsInjective(Append(s, e))
  BY AllocsAssumption, FollowsProofs!InjectiveAppend
     DEF Contains, FollowsProofs!Contains, IsInjective, FollowsProofs!IsInjective

LEMMA ContainsRemoveAt ==
  ASSUME NEW S, NEW s \in Seq(S), NEW k \in 1 .. Len(s), NEW x, x # s[k]
  PROVE  Contains(RemoveAt(s, k), x) <=> Contains(s, x)
<1>1. RemoveAt(s, k) = FollowsProofs!RemoveAt(s, k)
  BY DEF RemoveAt, FollowsProofs!RemoveAt
<1>2. FollowsProofs!Contains(FollowsProofs!RemoveAt(s, k), x) <=> FollowsProofs!Contains(s, x)
  BY AllocsAssumption, FollowsProofs!ContainsRemoveAt
<1> QED
  BY <1>1, <1>2 DEF Contains, FollowsProofs!Contains

LEMMA InjectiveRemoveAt ==
  ASSUME NEW S, NEW s \in Seq(S), NEW k \in 1 .. Len(s), IsInjective(s)
  PROVE  /\ IsInjective(RemoveAt(s, k))
         /\ ~ Contains(RemoveAt(s, k), s[k])
<1>1. RemoveAt(s, k) = FollowsProofs!RemoveAt(s, k)
  BY DEF RemoveAt, FollowsProofs!RemoveAt
<1>2. FollowsProofs!IsInjective(s)
  BY DEF IsInjective, FollowsProofs!IsInjective
<1>3. /\ FollowsProofs!IsInjective(FollowsProofs!RemoveAt(s, k))
      /\ ~ FollowsProofs!Contains(FollowsProofs!RemoveAt(s, k), s[k])
  BY <1>2, AllocsAssumption, FollowsProofs!InjectiveRemoveAt
<1> QED
  BY <1>1, <1>3 DEF Contains, FollowsProofs!Contains, IsInjective, FollowsProofs!IsInjective

----------------------------------------------------------------------------
(* Types. *)

\* Overwriting a position of a list.
LEMMA ReplaceInList ==
  ASSUME NEW S, NEW s \in Seq(S), NEW i \in DOMAIN s, NEW e \in S
  PROVE  /\ [s EXCEPT ![i] = e] \in Seq(S)
         /\ DOMAIN [s EXCEPT ![i] = e] = DOMAIN s
         /\ \A j \in DOMAIN s : [s EXCEPT ![i] = e][j] = IF j = i THEN e ELSE s[j]
  BY ExceptSeq

LEMMA HeadAndTail ==
  ASSUME NEW S, NEW s \in Seq(S), s # <<>>
  PROVE  /\ Head(s) \in S /\ Head(s) = s[1] /\ 1 \in DOMAIN s
         /\ Tail(s) \in Seq(S)
         /\ \A j \in DOMAIN Tail(s) : j + 1 \in DOMAIN s /\ Tail(s)[j] = s[j + 1]
  BY HeadTailProperties, LenProperties

LEMMA FiniteDomain ==
  ASSUME NEW S, NEW s \in Seq(S)
  PROVE  IsFiniteSet(DOMAIN s)
  BY LenProperties, FS_Interval

\* The number of pushes and the number of dumped copies are numbers.
LEMMA CountsOfPushes ==
  ASSUME TypeOK, NEW idol \in Users, NEW s
  PROVE  Pushes(idol, s) \in Nat
<1> DEFINE All == (DOMAIN idolMap[idol]) \X (DOMAIN listeners)
<1>1. IsFiniteSet(DOMAIN idolMap[idol]) /\ IsFiniteSet(DOMAIN listeners)
  BY FiniteDomain DEF TypeOK, Follows!TypeOK
<1>2. IsFiniteSet(All)
  BY <1>1, FS_Product
<1>3. \A T \in SUBSET All : Cardinality(T) \in Nat
  BY <1>2, FS_Subset, FS_CardinalityType
<1> HIDE DEF All
<1>4. {ab \in All : LET l == listeners[ab[2]]
                    IN  /\ l.userID = idolMap[idol][ab[1]]
                        /\ l.clientSock = s
                        /\ isUserLoggedIn(l.userID, l.clientAddr)} \in SUBSET All
  OBVIOUS
<1> QED
  BY <1>3, <1>4 DEF Pushes, All, Follows!getIdolFollowers

LEMMA CountsOfDumps ==
  ASSUME TypeOK, NEW user \in Users, NEW p
  PROVE  Cardinality(DumpOf(user, p)) \in Nat
<1> DEFINE Lists == {DOMAIN userMessages[i] : i \in Users}
           All == (DOMAIN followerMap[user]) \X UNION Lists
           f == [i \in Users |-> DOMAIN userMessages[i]]
<1>1. IsFiniteSet(Lists)
  <2>1. f \in Surjection(Users, Lists)
    BY DEF Surjection
  <2> HIDE DEF f, Lists
  <2> QED
    BY <2>1, FS_Surjection, UsersAssumption
<1>2. \A T \in Lists : IsFiniteSet(T)
  BY FiniteDomain DEF TypeOK
<1>3. IsFiniteSet(UNION Lists)
  BY <1>1, <1>2, FS_UNION
<1>4. IsFiniteSet(DOMAIN followerMap[user])
  BY FiniteDomain DEF TypeOK, Follows!TypeOK
<1>5. IsFiniteSet(All)
  BY <1>3, <1>4, FS_Product
<1>6. DumpOf(user, p) \in SUBSET All
  BY DEF DumpOf, Dump, Places, Follows!getFollowerIdols
<1> QED
  BY <1>5, <1>6, FS_Subset, FS_CardinalityType

\* A follow and an unfollow keep both maps well typed.
LEMMA FollowTypes ==
  ASSUME Follows!TypeOK, NEW i \in Users, NEW f \in Users, NEW rv,
         Follows!addFollower(i, f, rv) \/ Follows!removeFollower(i, f, rv)
  PROVE  Follows!TypeOK'
<1> USE DEF Follows!TypeOK
<1>1. \A l \in Seq(Users), u \in Users : Append(l, u) \in Seq(Users)
  BY AppendList
<1>2. \A l \in Seq(Users) : \A k \in DOMAIN l :
        Follows!RemoveAt(l, k) \in Seq(Users)
  <2> TAKE l \in Seq(Users)
  <2> TAKE k \in DOMAIN l
  <2>1. RemoveAt(l, k) \in Seq(Users)
    BY RemoveAtList, LenProperties
  <2> QED
    BY <2>1 DEF RemoveAt, Follows!RemoveAt
<1>3. ASSUME NEW a, NEW rt, Follows!addIdolFollower(i, f, a, rt)
      PROVE  idolMap' \in [Users -> Seq(Users)]
  BY <1>1, <1>3 DEF Follows!addIdolFollower
<1>4. ASSUME NEW a, NEW rt, Follows!addFollowerIdol(i, f, a, rt)
      PROVE  followerMap' \in [Users -> Seq(Users)]
  BY <1>1, <1>4 DEF Follows!addFollowerIdol
<1>5. ASSUME NEW rt, Follows!removeIdolFollower(i, f, rt)
      PROVE  idolMap' \in [Users -> Seq(Users)]
  <2>1. \/ UNCHANGED idolMap
        \/ \E k \in DOMAIN idolMap[i] :
             idolMap' = [idolMap EXCEPT ![i] = Follows!RemoveAt(idolMap[i], k)]
    BY <1>5 DEF Follows!removeIdolFollower
  <2>2. ASSUME NEW k \in DOMAIN idolMap[i]
        PROVE  Follows!RemoveAt(idolMap[i], k) \in Seq(Users)
    BY <1>2
  <2> QED
    BY <2>1, <2>2
<1>6. ASSUME NEW rt, Follows!removeFollowerIdol(i, f, rt)
      PROVE  followerMap' \in [Users -> Seq(Users)]
  <2>1. \/ UNCHANGED followerMap
        \/ \E k \in DOMAIN followerMap[f] :
             followerMap' = [followerMap EXCEPT ![f] = Follows!RemoveAt(followerMap[f], k)]
    BY <1>6 DEF Follows!removeFollowerIdol
  <2>2. ASSUME NEW k \in DOMAIN followerMap[f]
        PROVE  Follows!RemoveAt(followerMap[f], k) \in Seq(Users)
    BY <1>2
  <2> QED
    BY <2>1, <2>2
<1>7. CASE Follows!addFollower(i, f, rv)
  BY <1>3, <1>4, <1>7 DEF Follows!addFollower
<1>8. CASE Follows!removeFollower(i, f, rv)
  BY <1>5, <1>6, <1>8 DEF Follows!removeFollower
<1> QED
  BY <1>7, <1>8

\* What sends do to the network: they break links, they never open one, and
\* the one reply they leave is that of the connection being served.
Sent(c) ==
  /\ link' \in [Conns -> Links]
  /\ copies' \in [Conns -> [Conns -> Nat]]
  /\ \A d \in Conns : link'[d] = "none" <=> link[d] = "none"
  /\ \/ /\ up' = TRUE
        /\ \E ack \in Replies \cup {"none"} : reply' = [reply EXCEPT ![c] = ack]
     \/ up' = FALSE /\ reply' = reply

LEMMA TransmitSends ==
  ASSUME TypeOK, up, NEW c \in Conns, NEW ack \in Replies \cup {"none"},
         NEW writes, NEW feed \in [Conns -> [Conns -> Nat]],
         Transmit(c, ack, writes, feed)
  PROVE  Sent(c)
<1> USE DEF TypeOK
<1>1. CASE up' = FALSE /\ UNCHANGED <<link, copies, reply>>
  BY <1>1 DEF Sent
<1>2. CASE /\ \E reset \in SUBSET {d \in Conns : link[d] = "fin" /\ writes[d] > 0} :
                link' = [d \in Conns |->
                           IF d \in reset \/ (link[d] = "rst" /\ writes[d] > 0)
                           THEN "broken" ELSE link[d]]
           /\ copies' = [d \in Conns |-> [p \in Conns |->
                           IF link[d] = "open" THEN copies[d][p] + feed[d][p]
                                               ELSE copies[d][p]]]
           /\ reply' = [reply EXCEPT ![c] = ack]
           /\ UNCHANGED up
  <2>1. PICK reset \in SUBSET {d \in Conns : link[d] = "fin" /\ writes[d] > 0} :
          link' = [d \in Conns |->
                     IF d \in reset \/ (link[d] = "rst" /\ writes[d] > 0)
                     THEN "broken" ELSE link[d]]
    BY <1>2
  <2>2. /\ link' \in [Conns -> Links]
        /\ \A d \in Conns : link'[d] = "none" <=> link[d] = "none"
    BY <2>1 DEF Links
  <2>3. copies' \in [Conns -> [Conns -> Nat]]
    <3>1. \A d, p \in Conns : copies[d][p] \in Nat /\ feed[d][p] \in Nat
      OBVIOUS
    <3> HIDE DEF TypeOK
    <3>2. \A d, p \in Conns :
            (IF link[d] = "open" THEN copies[d][p] + feed[d][p]
                                 ELSE copies[d][p]) \in Nat
      BY <3>1
    <3> QED
      BY <1>2, <3>2
  <2>4. up' = TRUE
    BY <1>2
  <2> QED
    BY <1>2, <2>2, <2>3, <2>4 DEF Sent
<1> QED
  BY <1>1, <1>2 DEF Transmit

LEMMA ReplySends ==
  ASSUME TypeOK, up, NEW c \in Conns, NEW ack \in Replies, Reply(c, ack)
  PROVE  Sent(c)
<1>1. NoFeed \in [Conns -> [Conns -> Nat]]
  BY DEF NoFeed
<1> QED
  BY <1>1, TransmitSends DEF Reply

\* The repositories, as far as their types go.
StoresOK ==
  /\ userStore \in [Users -> Seq(Hosts)]
  /\ listeners \in Seq(Handle)
  /\ Follows!TypeOK
  /\ userMessages \in [Users -> Seq(Conns)]

Handled(c) ==
  \/ handleLogin(c)  \/ handleLogout(c)   \/ handlePost(c)
  \/ handleFollow(c) \/ handleUnfollow(c) \/ handleFeed(c)
  \/ handleFailure(c)

LEMMA ReqTypes ==
  ASSUME TypeOK, NEW c \in Conns
  PROVE  req[c].user \in Users /\ req[c].target \in Users /\ req[c].host \in Hosts
  BY DEF TypeOK, Request

LEMMA HandlerTypes ==
  ASSUME TypeOK, up, NEW c \in Conns, fdOf[c] \in Socks, Handled(c)
  PROVE  Sent(c) /\ StoresOK'
<1>a. /\ req[c].user \in Users /\ req[c].target \in Users /\ req[c].host \in Hosts
  BY ReqTypes
<1>b. StoresOK
  BY DEF TypeOK, StoresOK
<1>c. /\ "failure" \in Replies /\ "ackLogin" \in Replies /\ "ackLogout" \in Replies
      /\ "ackPost" \in Replies /\ "ackFollow" \in Replies
      /\ "ackUnfollow" \in Replies
  BY DEF Replies, Acks
<1>1. CASE handleLogin(c)
  <2>1. Sent(c)
    BY <1>1, <1>c, ReplySends DEF handleLogin
  <2>2. userStore' \in [Users -> Seq(Hosts)]
    <3>1. userStore[req[c].user] \in Seq(Hosts)
      BY <1>a, <1>b DEF StoresOK
    <3>2. isUserLoggedIn(req[c].user, req[c].host)
            => Tail(userStore[req[c].user]) \in Seq(Hosts)
      BY <3>1, HeadAndTail DEF isUserLoggedIn
    <3>3. \A l \in Seq(Hosts) : Append(l, req[c].host) \in Seq(Hosts)
      BY <1>a, AppendList
    <3> DEFINE old == IF isUserLoggedIn(req[c].user, req[c].host)
                      THEN userLogout(userStore[req[c].user])
                      ELSE userStore[req[c].user]
    <3>4. userLogin(old, req[c].host) \in Seq(Hosts)
      BY <3>1, <3>2, <3>3 DEF userLogin, userLogout
    <3>5. \/ userStore' = userStore
          \/ userStore' = [userStore EXCEPT ![req[c].user] = userLogin(old, req[c].host)]
      BY <1>1 DEF handleLogin
    <3> HIDE DEF old
    <3> QED
      BY <3>4, <3>5, <1>b DEF StoresOK
  <2> QED
    BY <1>1, <1>b, <2>1, <2>2 DEF handleLogin, StoresOK, Follows!TypeOK
<1>2. CASE handleLogout(c)
  <2>1. Sent(c)
    BY <1>2, <1>c, ReplySends DEF handleLogout
  <2>2. Tail(userStore[req[c].user]) \in Seq(Hosts)
    BY <1>2, <1>a, <1>b, HeadAndTail
      DEF handleLogout, Admitted, isUserLoggedIn, StoresOK
  <2> QED
    BY <1>2, <1>b, <2>1, <2>2 DEF handleLogout, userLogout, StoresOK, Follows!TypeOK
<1>3. CASE handlePost(c)
  <2> DEFINE feed == pushFeedMessage(req[c].user, c)
  <2>1. feed \in [Conns -> [Conns -> Nat]]
    BY <1>a, CountsOfPushes DEF pushFeedMessage
  <2>2. Sent(c)
    <3> HIDE DEF feed
    <3>1. CASE Reply(c, "failure")
      BY <3>1, <1>c, ReplySends
    <3>2. ASSUME NEW writes, Transmit(c, "ackPost", writes, feed)
          PROVE  Sent(c)
      BY <3>2, <2>1, <1>c, TransmitSends
    <3> QED
      BY <1>3, <3>1, <3>2 DEF handlePost, feed
  <2>3. Append(userMessages[req[c].user], c) \in Seq(Conns)
    BY <1>a, <1>b, AppendList DEF StoresOK
  <2>4. userMessages' \in [Users -> Seq(Conns)]
    BY <1>3, <1>b, <2>3 DEF handlePost, StoresOK
  <2> QED
    BY <1>3, <1>b, <2>2, <2>4 DEF handlePost, StoresOK, Follows!TypeOK
<1>4. CASE handleFollow(c)
  <2>1. Sent(c)
    BY <1>4, <1>c, ReplySends DEF handleFollow
  <2>2. Follows!TypeOK'
    BY <1>4, <1>a, <1>b, FollowTypes DEF handleFollow, StoresOK
  <2> QED
    BY <1>4, <1>b, <2>1, <2>2 DEF handleFollow, StoresOK
<1>5. CASE handleUnfollow(c)
  <2>1. Sent(c)
    BY <1>5, <1>c, ReplySends DEF handleUnfollow
  <2>2. Follows!TypeOK'
    BY <1>5, <1>a, <1>b, FollowTypes DEF handleUnfollow, StoresOK
  <2> QED
    BY <1>5, <1>b, <2>1, <2>2 DEF handleUnfollow, StoresOK
<1>6. CASE handleFeed(c)
  <2> DEFINE feed == [d \in Conns |-> [p \in Conns |->
                        IF d = c THEN Cardinality(DumpOf(req[c].user, p)) ELSE 0]]
  <2>1. feed \in [Conns -> [Conns -> Nat]]
    BY <1>a, CountsOfDumps
  <2>2. Sent(c)
    <3> HIDE DEF feed
    <3>1. ASSUME NEW writes, Transmit(c, "none", writes, feed)
          PROVE  Sent(c)
      BY <3>1, <2>1, TransmitSends
    <3> QED
      BY <1>6, <3>1 DEF handleFeed, feed
  <2>3. [userID |-> req[c].user, clientSock |-> fdOf[c], clientAddr |-> req[c].host]
          \in Handle
    BY <1>a DEF Handle
  <2>4. listeners' \in Seq(Handle)
    BY <1>6, <1>b, <2>3, AppendList DEF handleFeed, addListener, StoresOK
  <2> QED
    BY <1>6, <1>b, <2>2, <2>4 DEF handleFeed, StoresOK, Follows!TypeOK
<1>7. CASE handleFailure(c)
  <2>1. Sent(c)
    BY <1>7, <1>c, ReplySends DEF handleFailure
  <2> QED
    BY <1>7, <1>b, <2>1 DEF handleFailure, StoresOK, Follows!TypeOK
<1> QED
  BY <1>1, <1>2, <1>3, <1>4, <1>5, <1>6, <1>7 DEF Handled

\* A request is served only for a connection that select() found: it has a
\* descriptor of its own, and the server lives.
LEMMA ServedIsSelected ==
  ASSUME TypeOK, NEW c \in Conns, Serve(c)
  PROVE  up /\ backlog = <<>> /\ c \in unread /\ fdOf[c] \in Socks /\ Handled(c)
<1>1. PICK i \in DOMAIN clients : Selected(i, c)
  BY DEF Serve, Receive
<1>2. clients[i] \in Handle
  BY <1>1 DEF TypeOK
<1>3. up /\ backlog = <<>> /\ fdOf[c] \in Socks
  BY <1>1, <1>2 DEF Selected, Handle
<1> QED
  BY <1>3 DEF Serve, Receive, Handled

LEMMA TypeInit == Init => TypeOK
<1> SUFFICES ASSUME Init PROVE TypeOK
  OBVIOUS
<1>1. req \in [Conns -> Request]
  BY WorkloadAssumption DEF Init
<1>2. /\ link \in [Conns -> Links]
      /\ reply \in [Conns -> Replies \cup {"none"}]
  BY DEF Init, Links
<1>3. Follows!TypeOK
  BY DEF Init, Follows!initFollowerRepository, Follows!TypeOK
<1>4. remoteHandle \in [userID : Users \cup {NoUser}, clientSock : Socks \cup {NoSock}]
  BY DEF Init, NoHandle
<1> QED
  BY <1>1, <1>2, <1>3, <1>4 DEF Init, TypeOK

LEMMA RemoveListenerTypes ==
  ASSUME listeners \in Seq(Handle), NEW h, removeListener(h)
  PROVE  listeners' \in Seq(Handle)
<1>1. \A k \in DOMAIN listeners : RemoveAt(listeners, k) \in Seq(Handle)
  BY RemoveAtList, LenProperties
<1>2. UNCHANGED listeners \/ \E k \in DOMAIN listeners : listeners' = RemoveAt(listeners, k)
  BY DEF removeListener
<1> QED
  BY <1>1, <1>2

LEMMA TypeStep == TypeOK /\ [Next]_vars => TypeOK'
<1> SUFFICES ASSUME TypeOK, [Next]_vars PROVE TypeOK'
  OBVIOUS
<1> USE DEF net, server, vars
<1>1. ASSUME NEW c \in Conns, Connect(c) PROVE TypeOK'
  <2>1. link' \in [Conns -> Links]
    BY <1>1 DEF TypeOK, Connect, Links
  <2>2. backlog' \in Seq(Conns)
    BY <1>1, AppendList DEF TypeOK, Connect
  <2> QED
    BY <1>1, <2>1, <2>2 DEF TypeOK, Connect, Follows!TypeOK
<1>2. ASSUME NEW c \in Conns, Close(c) PROVE TypeOK'
  <2>1. link' \in [Conns -> Links]
    <3>1. PICK how \in {"fin", "rst"} : link' = [link EXCEPT ![c] = how]
      BY <1>2 DEF Close
    <3> QED
      BY <3>1 DEF TypeOK, Links
  <2> QED
    BY <1>2, <2>1 DEF TypeOK, Close, Follows!TypeOK
<1>3. CASE Accept
  <2>1. Head(backlog) \in Conns /\ Tail(backlog) \in Seq(Conns)
    BY <1>3, HeadAndTail DEF Accept, TypeOK
  <2>2. PICK s \in Socks :
          /\ fdOf' = [fdOf EXCEPT ![Head(backlog)] = s]
          /\ clients' = Append(clients, [userID |-> NoUser, clientSock |-> s,
                                         clientAddr |-> req[Head(backlog)].host])
    BY <1>3 DEF Accept, FreeSocks
  <2>3. [userID |-> NoUser, clientSock |-> s, clientAddr |-> req[Head(backlog)].host]
          \in Handle
    BY <2>1, ReqTypes DEF Handle
  <2>4. clients' \in Seq(Handle)
    BY <2>2, <2>3, AppendList DEF TypeOK
  <2>5. fdOf' \in [Conns -> Socks \cup {NoSock}]
    BY <2>1, <2>2 DEF TypeOK
  <2> QED
    BY <1>3, <2>1, <2>4, <2>5 DEF TypeOK, Accept, Follows!TypeOK
<1>4. ASSUME NEW c \in Conns, Serve(c) PROVE TypeOK'
  <2>1. Sent(c) /\ StoresOK'
    BY <1>4, ServedIsSelected, HandlerTypes
  <2>2. req[c].user \in Users /\ fdOf[c] \in Socks
    BY <1>4, ReqTypes, ServedIsSelected
  <2>3. clients' \in Seq(Handle)
    <3>1. PICK i \in DOMAIN clients : clients' = [clients EXCEPT ![i].userID = req[c].user]
      BY <1>4 DEF Serve, Receive
    <3>2. clients[i] \in Handle /\ clients \in Seq(Handle)
      BY DEF TypeOK
    <3>3. [clients[i] EXCEPT !.userID = req[c].user] \in Handle
      BY <2>2, <3>2 DEF Handle
    <3> QED
      BY <3>1, <3>2, <3>3, ReplaceInList
  <2>4. remoteHandle' \in [userID : Users \cup {NoUser}, clientSock : Socks \cup {NoSock}]
    BY <1>4, <2>2 DEF Serve, Receive
  <2>5. /\ reply' \in [Conns -> Replies \cup {"none"}]
        /\ up' \in BOOLEAN
    <3>1. reply \in [Conns -> Replies \cup {"none"}]
      BY DEF TypeOK
    <3>2. up' \in BOOLEAN
      BY <2>1 DEF Sent
    <3>3. \/ reply' = reply
          \/ \E ack \in Replies \cup {"none"} : reply' = [reply EXCEPT ![c] = ack]
      BY <2>1 DEF Sent
    <3>4. reply' \in [Conns -> Replies \cup {"none"}]
      BY <3>1, <3>3
    <3> QED
      BY <3>2, <3>4
  <2>6. UNCHANGED <<req, backlog, fdOf>> /\ unread' \in SUBSET Conns
    BY <1>4 DEF TypeOK, Serve, Receive
  <2> QED
    BY <2>1, <2>3, <2>4, <2>5, <2>6 DEF TypeOK, Sent, StoresOK
<1>5. ASSUME NEW c \in Conns, ReceiveError(c) PROVE TypeOK'
  BY <1>5 DEF TypeOK, ReceiveError, Links, Follows!TypeOK
<1>6. ASSUME NEW c \in Conns, Terminate(c) PROVE TypeOK'
  <2>1. link' \in [Conns -> Links] /\ fdOf' \in [Conns -> Socks \cup {NoSock}]
    BY <1>6 DEF TypeOK, Terminate, Links
  <2>2. clients' \in Seq(Handle)
    <3>1. PICK i \in DOMAIN clients : clients' = RemoveAt(clients, i)
      BY <1>6 DEF Terminate
    <3> QED
      BY <3>1, RemoveAtList, LenProperties DEF TypeOK
  <2>3. listeners' \in Seq(Handle)
    <3>1. PICK h : removeListener(h)
      BY <1>6 DEF Terminate
    <3> QED
      BY <3>1, RemoveListenerTypes DEF TypeOK
  <2> QED
    BY <1>6, <2>1, <2>2, <2>3 DEF TypeOK, Terminate, Follows!TypeOK
<1>7. CASE UNCHANGED vars
  BY <1>7 DEF TypeOK, Follows!TypeOK
<1> QED
  BY <1>1, <1>2, <1>3, <1>4, <1>5, <1>6, <1>7 DEF Next, ServerStep

\* Every variable keeps its type (TypeOK).
THEOREM TypeCorrect == Spec => []TypeOK
  BY TypeInit, TypeStep, PTL DEF Spec

----------------------------------------------------------------------------
(* Descriptors. *)

\* What FdTableSound needs to be inductive: a connection is in the backlog
\* once, has no descriptor and an unread request while it waits there, and
\* has nothing at all before it connects.
BacklogSound ==
  /\ \A j, k \in DOMAIN backlog : backlog[j] = backlog[k] => j = k
  /\ \A k \in DOMAIN backlog : /\ fdOf[backlog[k]] = NoSock
                                /\ backlog[k] \in unread
  /\ \A c \in Conns : link[c] = "none" => c \notin unread /\ fdOf[c] = NoSock

TableInv == TypeOK /\ FdTableSound /\ BacklogSound

LEMMA NoSockIsNone ==
  ASSUME TypeOK
  PROVE  /\ NoSock \notin Socks
         /\ \A i \in DOMAIN clients : clients[i] \in Handle /\ clients[i].clientSock \in Socks
<1>1. NoSock \notin Socks
  BY SocksAssumption DEF NoSock
<1>2. \A i \in DOMAIN clients : clients[i] \in Handle
  BY DEF TypeOK
<1> QED
  BY <1>1, <1>2 DEF Handle

LEMMA TableInit == Init => TableInv
<1> SUFFICES ASSUME Init PROVE TableInv
  OBVIOUS
<1>1. TypeOK
  BY TypeInit
<1>2. FdTableSound /\ BacklogSound
  BY DEF Init, FdTableSound, BacklogSound
<1> QED
  BY <1>1, <1>2 DEF TableInv

\* A new connection waits in the backlog and is known to nobody.
LEMMA TableConnect ==
  ASSUME TableInv, NEW c \in Conns, Connect(c)
  PROVE  FdTableSound' /\ BacklogSound'
<1> USE DEF TableInv
<1>1. /\ fdOf[c] = NoSock /\ c \notin unread
      /\ \A k \in DOMAIN backlog : backlog[k] # c
  BY DEF Connect, BacklogSound
<1>2. /\ unread' = unread \cup {c} /\ backlog' = Append(backlog, c)
      /\ UNCHANGED <<fdOf, clients, req>>
      /\ link' = [link EXCEPT ![c] = "open"]
  BY DEF Connect, server
<1>3. \A i \in DOMAIN clients : clients[i].clientSock # fdOf[c]
  BY <1>1, NoSockIsNone
<1>4. FdTableSound'
  BY <1>1, <1>2, <1>3 DEF FdTableSound
<1>5. /\ Len(backlog) \in Nat /\ DOMAIN backlog = 1 .. Len(backlog)
      /\ DOMAIN backlog' = 1 .. Len(backlog) + 1
      /\ \A k \in 1 .. Len(backlog) : backlog'[k] = backlog[k]
      /\ backlog'[Len(backlog) + 1] = c
  BY <1>2, AppendList, LenProperties DEF TypeOK
<1>6. /\ \A j, k \in DOMAIN backlog' : backlog'[j] = backlog'[k] => j = k
      /\ \A k \in DOMAIN backlog' : fdOf[backlog'[k]] = NoSock /\ backlog'[k] \in unread'
  BY <1>1, <1>2, <1>5 DEF BacklogSound
<1>7. \A d \in Conns : link'[d] = "none" => d \notin unread' /\ fdOf[d] = NoSock
  BY <1>1, <1>2 DEF BacklogSound, TypeOK
<1> QED
  BY <1>2, <1>4, <1>6, <1>7 DEF BacklogSound

\* accept moves the head of the backlog to a descriptor nobody has.
LEMMA TableAccept ==
  ASSUME TableInv, Accept
  PROVE  FdTableSound' /\ BacklogSound'
<1> USE DEF TableInv
<1> DEFINE c == Head(backlog)
           h(s) == [userID |-> NoUser, clientSock |-> s, clientAddr |-> req[c].host]
<1>1. PICK s \in FreeSocks : /\ fdOf' = [fdOf EXCEPT ![c] = s]
                             /\ clients' = Append(clients, h(s))
  BY DEF Accept
<1>2. /\ s \in Socks /\ s # NoSock
      /\ \A d \in Conns : fdOf[d] # s
  BY <1>1, NoSockIsNone DEF FreeSocks
<1>3. /\ backlog \in Seq(Conns) /\ backlog # <<>>
      /\ backlog' = Tail(backlog) /\ UNCHANGED <<req, link, unread>>
  BY DEF Accept, TypeOK
<1>4. /\ c \in Conns /\ c = backlog[1] /\ 1 \in DOMAIN backlog
      /\ \A j \in DOMAIN backlog' : j + 1 \in DOMAIN backlog /\ backlog'[j] = backlog[j + 1]
      /\ \A j \in DOMAIN backlog' : j \in Nat /\ j + 1 # 1
  <2>1. /\ c \in Conns /\ c = backlog[1] /\ 1 \in DOMAIN backlog
        /\ Tail(backlog) \in Seq(Conns)
        /\ \A j \in DOMAIN Tail(backlog) :
             j + 1 \in DOMAIN backlog /\ Tail(backlog)[j] = backlog[j + 1]
    BY <1>3, HeadAndTail
  <2>2. \A j \in DOMAIN Tail(backlog) : j \in 1 .. Len(Tail(backlog))
    BY <2>1, LenProperties
  <2> QED
    BY <2>1, <2>2, <1>3
<1>5. /\ fdOf[c] = NoSock /\ c \in unread
      /\ link[c] # "none"
      /\ \A d \in Conns : fdOf'[d] = IF d = c THEN s ELSE fdOf[d]
  BY <1>1, <1>4 DEF BacklogSound, TypeOK
<1>6. BacklogSound'
  <2>1. \A j, k \in DOMAIN backlog' : backlog'[j] = backlog'[k] => j = k
    <3>1. \A j, k \in DOMAIN backlog' : backlog[j + 1] = backlog[k + 1] => j + 1 = k + 1
      BY <1>4 DEF BacklogSound
    <3>2. \A j, k \in Nat : j + 1 = k + 1 => j = k
      OBVIOUS
    <3> QED
      BY <1>4, <3>1, <3>2
  <2>2. \A k \in DOMAIN backlog' : /\ fdOf'[backlog'[k]] = NoSock
                                   /\ backlog'[k] \in unread'
    <3> SUFFICES ASSUME NEW k \in DOMAIN backlog'
                 PROVE  fdOf'[backlog'[k]] = NoSock /\ backlog'[k] \in unread'
      OBVIOUS
    <3>1. k + 1 \in DOMAIN backlog /\ backlog'[k] = backlog[k + 1] /\ k + 1 # 1
      BY <1>4
    <3>2. backlog'[k] # c /\ fdOf[backlog'[k]] = NoSock /\ backlog'[k] \in unread
      BY <1>4, <3>1 DEF BacklogSound
    <3>3. backlog'[k] \in Conns
      BY <3>1, <1>3
    <3> QED
      BY <3>2, <3>3, <1>3, <1>5
  <2>3. \A d \in Conns : link'[d] = "none" => d \notin unread' /\ fdOf'[d] = NoSock
    BY <1>3, <1>5 DEF BacklogSound
  <2> QED
    BY <2>1, <2>2, <2>3 DEF BacklogSound
<1>7. /\ Len(clients) \in Nat /\ DOMAIN clients = 1 .. Len(clients)
      /\ DOMAIN clients' = 1 .. Len(clients) + 1
      /\ \A k \in 1 .. Len(clients) : clients'[k] = clients[k]
      /\ clients'[Len(clients) + 1] = h(s)
  <2>1. h(s) \in Handle /\ clients \in Seq(Handle)
    BY <1>2, <1>4, ReqTypes DEF TypeOK, Handle
  <2> HIDE DEF h
  <2> QED
    BY <1>1, <2>1, AppendList, LenProperties
<1>8. \A i \in DOMAIN clients : clients[i].clientSock # s
  BY <1>2 DEF FdTableSound
<1>9. \A i, j \in DOMAIN clients' :
        clients'[i].clientSock = clients'[j].clientSock => i = j
  BY <1>7, <1>8 DEF FdTableSound
<1>10. \A d, e \in Conns : fdOf'[d] = fdOf'[e] /\ fdOf'[d] # NoSock => d = e
  BY <1>2, <1>5 DEF FdTableSound
<1>11. \A d \in Conns : fdOf'[d] # NoSock =>
         \E i \in DOMAIN clients' : clients'[i].clientSock = fdOf'[d]
  BY <1>5, <1>7 DEF FdTableSound
<1>12. \A i \in DOMAIN clients' : \E d \in Conns :
         /\ clients'[i].clientSock = fdOf'[d]
         /\ clients'[i].clientAddr = req'[d].host
         /\ clients'[i].userID = IF d \in unread' THEN NoUser ELSE req'[d].user
  <2> TAKE i \in DOMAIN clients'
  <2>1. CASE i = Len(clients) + 1
    <3>1. /\ clients'[i].clientSock = fdOf'[c]
          /\ clients'[i].clientAddr = req'[c].host
          /\ clients'[i].userID = NoUser /\ c \in unread'
      BY <2>1, <1>3, <1>5, <1>7, <1>4
    <3> QED
      BY <3>1, <1>4
  <2>2. CASE i \in DOMAIN clients
    <3>1. PICK d \in Conns :
            /\ clients[i].clientSock = fdOf[d]
            /\ clients[i].clientAddr = req[d].host
            /\ clients[i].userID = IF d \in unread THEN NoUser ELSE req[d].user
      BY <2>2 DEF FdTableSound
    <3>2. d # c
      BY <3>1, <2>2, <1>5, NoSockIsNone
    <3> QED
      BY <2>2, <3>1, <3>2, <1>3, <1>5, <1>7
  <2> QED
    BY <2>1, <2>2, <1>7
<1> QED
  BY <1>6, <1>9, <1>10, <1>11, <1>12 DEF FdTableSound

\* A served request writes the user's id into the handle it came from.
LEMMA TableServe ==
  ASSUME TableInv, NEW c \in Conns, Serve(c)
  PROVE  FdTableSound' /\ BacklogSound'
<1> USE DEF TableInv
<1>1. /\ c \in unread /\ unread' = unread \ {c} /\ fdOf[c] \in Socks
      /\ backlog = <<>> /\ UNCHANGED <<req, backlog, fdOf>>
      /\ Sent(c)
  BY ServedIsSelected, HandlerTypes DEF Serve, Receive
<1>2. PICK i \in DOMAIN clients :
        /\ fdOf[c] = clients[i].clientSock
        /\ clients' = [clients EXCEPT ![i].userID = req[c].user]
  BY DEF Serve, Receive, Selected
<1>3. /\ DOMAIN clients' = DOMAIN clients
      /\ \A j \in DOMAIN clients :
           /\ clients'[j].clientSock = clients[j].clientSock
           /\ clients'[j].clientAddr = clients[j].clientAddr
           /\ clients'[j].userID = IF j = i THEN req[c].user ELSE clients[j].userID
  <2>1. /\ clients \in Seq(Handle)
        /\ req[c].user \in Users
    BY ReqTypes DEF TypeOK
  <2>2. \A j \in DOMAIN clients : clients[j] \in Handle
    BY <2>1
  <2>3. [clients[i] EXCEPT !.userID = req[c].user] \in Handle
    BY <2>1, <2>2 DEF Handle
  <2>4. /\ DOMAIN clients' = DOMAIN clients
        /\ \A j \in DOMAIN clients :
             clients'[j] = IF j = i THEN [clients[i] EXCEPT !.userID = req[c].user]
                                    ELSE clients[j]
    BY <1>2, <2>1, <2>3, ReplaceInList
  <2> QED
    BY <2>2, <2>4 DEF Handle
<1>4. \A j, k \in DOMAIN clients' :
        clients'[j].clientSock = clients'[k].clientSock => j = k
  BY <1>3 DEF FdTableSound
<1>5. \A d, e \in Conns : fdOf'[d] = fdOf'[e] /\ fdOf'[d] # NoSock => d = e
  BY <1>1 DEF FdTableSound
<1>6. \A d \in Conns : fdOf'[d] # NoSock =>
        \E j \in DOMAIN clients' : clients'[j].clientSock = fdOf'[d]
  BY <1>1, <1>3 DEF FdTableSound
<1>7. \A j \in DOMAIN clients' : \E d \in Conns :
        /\ clients'[j].clientSock = fdOf'[d]
        /\ clients'[j].clientAddr = req'[d].host
        /\ clients'[j].userID = IF d \in unread' THEN NoUser ELSE req'[d].user
  <2> TAKE j \in DOMAIN clients'
  <2>1. PICK d \in Conns :
          /\ clients[j].clientSock = fdOf[d]
          /\ clients[j].clientAddr = req[d].host
          /\ clients[j].userID = IF d \in unread THEN NoUser ELSE req[d].user
    BY <1>3 DEF FdTableSound
  <2>2. d = c <=> j = i
    <3>1. fdOf[c] # NoSock
      BY <1>1, NoSockIsNone
    <3> QED
      BY <2>1, <1>2, <1>3, <3>1 DEF FdTableSound
  <2> QED
    BY <2>1, <2>2, <1>1, <1>3
<1>8. FdTableSound'
  BY <1>4, <1>5, <1>6, <1>7 DEF FdTableSound
<1>9. BacklogSound'
  BY <1>1 DEF BacklogSound, Sent
<1> QED
  BY <1>8, <1>9

\* The end of a connection takes the handle and the descriptor together.
LEMMA TableTerminate ==
  ASSUME TableInv, NEW c \in Conns, Terminate(c)
  PROVE  FdTableSound' /\ BacklogSound'
<1> USE DEF TableInv
<1>1. /\ backlog = <<>> /\ UNCHANGED <<req, backlog, unread>>
      /\ c \notin unread
      /\ fdOf' = [fdOf EXCEPT ![c] = NoSock] /\ link' = [link EXCEPT ![c] = "dead"]
  BY DEF Terminate, Selected
<1>2. PICK i \in DOMAIN clients : /\ fdOf[c] = clients[i].clientSock
                                  /\ clients' = RemoveAt(clients, i)
  BY DEF Terminate, Selected
<1>3. /\ fdOf[c] # NoSock
      /\ \A d \in Conns : fdOf'[d] = IF d = c THEN NoSock ELSE fdOf[d]
  BY <1>1, <1>2, NoSockIsNone DEF TypeOK
<1> DEFINE at(j) == IF j < i THEN j ELSE j + 1
<1>4. /\ \A j \in DOMAIN clients' : /\ at(j) \in DOMAIN clients /\ at(j) # i
                                     /\ clients'[j] = clients[at(j)]
      /\ \A j, k \in DOMAIN clients' : at(j) = at(k) => j = k
      /\ \A k \in DOMAIN clients : k # i => \E j \in DOMAIN clients' : at(j) = k
  <2>0. /\ clients \in Seq(Handle)
        /\ DOMAIN clients = 1 .. Len(clients) /\ Len(clients) \in Nat
        /\ i \in 1 .. Len(clients)
    BY LenProperties DEF TypeOK
  <2>1. /\ DOMAIN clients = 1 .. Len(clients) /\ Len(clients) \in Nat
        /\ i \in 1 .. Len(clients)
        /\ DOMAIN clients' = 1 .. Len(clients) - 1
        /\ \A j \in 1 .. Len(clients) - 1 :
             clients'[j] = IF j < i THEN clients[j] ELSE clients[j + 1]
    BY <1>2, <2>0, RemoveAtList
  <2>2. ASSUME NEW k \in DOMAIN clients, k # i
        PROVE  \E j \in DOMAIN clients' : at(j) = k
    <3>1. CASE k < i
      <4>1. k \in DOMAIN clients' /\ at(k) = k
        BY <2>1, <3>1
      <4> QED BY <4>1
    <3>2. CASE k > i
      <4>1. k - 1 \in DOMAIN clients' /\ at(k - 1) = k
        BY <2>1, <2>2, <3>2
      <4> QED BY <4>1
    <3> QED
      BY <2>1, <2>2, <3>1, <3>2
  <2>3. \A j \in DOMAIN clients' : at(j) \in DOMAIN clients /\ at(j) # i
    BY <2>1
  <2>4. \A j \in DOMAIN clients' : clients'[j] = clients[at(j)]
    BY <2>1
  <2>5. \A j, k \in DOMAIN clients' : at(j) = at(k) => j = k
    BY <2>1
  <2> QED
    BY <2>2, <2>3, <2>4, <2>5
<1> HIDE DEF at
<1>5. \A j, k \in DOMAIN clients' :
        clients'[j].clientSock = clients'[k].clientSock => j = k
  BY <1>4 DEF FdTableSound
<1>6. \A d, e \in Conns : fdOf'[d] = fdOf'[e] /\ fdOf'[d] # NoSock => d = e
  BY <1>3 DEF FdTableSound
<1>7. \A d \in Conns : fdOf'[d] # NoSock =>
        \E j \in DOMAIN clients' : clients'[j].clientSock = fdOf'[d]
  <2> SUFFICES ASSUME NEW d \in Conns, fdOf'[d] # NoSock
               PROVE  \E j \in DOMAIN clients' : clients'[j].clientSock = fdOf'[d]
    OBVIOUS
  <2>1. d # c /\ fdOf'[d] = fdOf[d]
    BY <1>3
  <2>2. PICK k \in DOMAIN clients : clients[k].clientSock = fdOf[d]
    BY <2>1 DEF FdTableSound
  <2>3. k # i
    BY <1>2, <1>3, <2>1, <2>2 DEF FdTableSound
  <2> QED
    BY <1>4, <2>1, <2>2, <2>3
<1>8. \A j \in DOMAIN clients' : \E d \in Conns :
        /\ clients'[j].clientSock = fdOf'[d]
        /\ clients'[j].clientAddr = req'[d].host
        /\ clients'[j].userID = IF d \in unread' THEN NoUser ELSE req'[d].user
  <2> TAKE j \in DOMAIN clients'
  <2>1. PICK d \in Conns :
          /\ clients[at(j)].clientSock = fdOf[d]
          /\ clients[at(j)].clientAddr = req[d].host
          /\ clients[at(j)].userID = IF d \in unread THEN NoUser ELSE req[d].user
    BY <1>4 DEF FdTableSound
  <2>2. d # c
    BY <1>2, <1>4, <2>1 DEF FdTableSound
  <2> QED
    BY <1>1, <1>3, <1>4, <2>1, <2>2
<1>9. FdTableSound'
  BY <1>5, <1>6, <1>7, <1>8 DEF FdTableSound
<1>10. BacklogSound'
  BY <1>1, <1>3 DEF BacklogSound, TypeOK
<1> QED
  BY <1>9, <1>10

\* What a peer does to a link that is there changes neither table.
LEMMA TableUntouched ==
  ASSUME TableInv, UNCHANGED <<req, backlog, unread, fdOf, clients>>,
         \A d \in Conns : link'[d] = "none" => link[d] = "none"
  PROVE  FdTableSound' /\ BacklogSound'
<1>1. FdTableSound'
  BY DEF TableInv, FdTableSound
<1>2. BacklogSound'
  BY DEF TableInv, BacklogSound
<1> QED
  BY <1>1, <1>2

LEMMA TableStep == TableInv /\ [Next]_vars => TableInv'
<1> SUFFICES ASSUME TableInv, [Next]_vars PROVE TableInv'
  OBVIOUS
<1>1. TypeOK'
  BY TypeStep DEF TableInv
<1>2. ASSUME NEW c \in Conns, Connect(c) PROVE FdTableSound' /\ BacklogSound'
  BY <1>2, TableConnect
<1>3. ASSUME NEW c \in Conns, Close(c) PROVE FdTableSound' /\ BacklogSound'
  <2>1. PICK how : link' = [link EXCEPT ![c] = how]
    BY <1>3 DEF Close
  <2>2. \A d \in Conns : link'[d] = "none" => link[d] = "none"
    BY <1>3, <2>1 DEF Close, TableInv, TypeOK
  <2> QED
    BY <1>3, <2>2, TableUntouched DEF Close, server
<1>4. ASSUME Accept PROVE FdTableSound' /\ BacklogSound'
  BY <1>4, TableAccept
<1>5. ASSUME NEW c \in Conns, Serve(c) PROVE FdTableSound' /\ BacklogSound'
  BY <1>5, TableServe
<1>6. ASSUME NEW c \in Conns, ReceiveError(c) PROVE FdTableSound' /\ BacklogSound'
  <2>1. \A d \in Conns : link'[d] = "none" => link[d] = "none"
    BY <1>6 DEF ReceiveError, TableInv, TypeOK
  <2> QED
    BY <1>6, <2>1, TableUntouched DEF ReceiveError, server
<1>7. ASSUME NEW c \in Conns, Terminate(c) PROVE FdTableSound' /\ BacklogSound'
  BY <1>7, TableTerminate
<1>8. ASSUME UNCHANGED vars PROVE FdTableSound' /\ BacklogSound'
  BY <1>8, TableUntouched DEF vars, net, server
<1> QED
  BY <1>1, <1>2, <1>3, <1>4, <1>5, <1>6, <1>7, <1>8 DEF Next, ServerStep, TableInv

\* The client list and the descriptor table agree in every state, whatever
\* connections open, close and reuse (streamServerReceive).
THEOREM TableStaysSound == Spec => []FdTableSound
<1>1. Spec => []TableInv
  BY TableInit, TableStep, PTL DEF Spec
<1> QED
  BY <1>1, PTL DEF TableInv

----------------------------------------------------------------------------
(* Authorisation. *)

\* What AuthorisedOnly needs to be inductive: a request that has not been
\* read is not answered, so that an acknowledged login stays acknowledged.
UnreadUnanswered ==
  \A c \in Conns : c \in unread \/ link[c] = "none" => reply[c] = "none"

AuthInv == TypeOK /\ UnreadUnanswered /\ AuthorisedOnly

LEMMA AuthInit == Init => AuthInv
<1> SUFFICES ASSUME Init PROVE AuthInv
  OBVIOUS
<1>1. TypeOK /\ UnreadUnanswered
  BY TypeInit DEF Init, UnreadUnanswered
<1>2. AuthorisedOnly
  BY DEF Init, AuthorisedOnly, Acks
<1> QED
  BY <1>1, <1>2 DEF AuthInv

\* LoggedInFrom as it is once the replies are r.
Told(r, u, h) ==
  \E d \in Conns : /\ req[d].type = "login" /\ r[d] = "ackLogin"
                   /\ req[d].user = u /\ req[d].host = h

\* The reply of one connection does not undo the login of another.
LEMMA LoginsStay ==
  ASSUME TypeOK, NEW c \in Conns, reply[c] = "none", NEW ack,
         reply' = [reply EXCEPT ![c] = ack], NEW u, NEW h, LoggedInFrom(u, h)
  PROVE  Told(reply', u, h)
<1>1. PICK d \in Conns : /\ req[d].type = "login" /\ reply[d] = "ackLogin"
                         /\ req[d].user = u /\ req[d].host = h
  BY DEF LoggedInFrom
<1>2. d # c /\ reply'[d] = "ackLogin"
  BY <1>1 DEF TypeOK
<1> QED
  BY <1>1, <1>2 DEF Told

\* A session proves a login, and main admits requests with a session only.
LEMMA AdmittedIsLoggedIn ==
  ASSUME AuthInv, up, NEW c \in Conns, Admitted(c)
  PROVE  LoggedInFrom(req[c].user, req[c].host)
<1>1. /\ userStore[req[c].user] # <<>> /\ req[c].user \in Users
      /\ Head(userStore[req[c].user]) = req[c].host
      /\ userStore[req[c].user] \in Seq(Hosts)
  BY ReqTypes DEF AuthInv, TypeOK, Admitted, isUserLoggedIn
<1>2. /\ 1 \in DOMAIN userStore[req[c].user]
      /\ userStore[req[c].user][1] = req[c].host
  BY <1>1, HeadAndTail
<1> QED
  BY <1>1, <1>2 DEF AuthInv, AuthorisedOnly

\* AuthorisedOnly survives a step that answers c and adds to the stores only
\* what a login stands behind.
LEMMA AuthKept ==
  ASSUME AuthInv, up, NEW c \in Conns, reply[c] = "none", NEW ack,
         UNCHANGED req, reply' = [reply EXCEPT ![c] = ack],
         ack \in Acks => Told(reply', req[c].user, req[c].host),
         \A u \in Users : \A k \in DOMAIN userMessages'[u] :
           \/ \E j \in DOMAIN userMessages[u] : userMessages'[u][k] = userMessages[u][j]
           \/ Told(reply', u, req[userMessages'[u][k]].host),
         \A u \in Users : \A k \in DOMAIN userStore'[u] :
           \/ \E j \in DOMAIN userStore[u] : userStore'[u][k] = userStore[u][j]
           \/ Told(reply', u, userStore'[u][k]),
         \A k \in DOMAIN listeners' :
           \/ \E j \in DOMAIN listeners : listeners'[k] = listeners[j]
           \/ Told(reply', listeners'[k].userID, listeners'[k].clientAddr)
  PROVE  AuthorisedOnly'
<1>0. TypeOK
  BY DEF AuthInv
<1>1. \A u, h : LoggedInFrom(u, h) => Told(reply', u, h)
  BY <1>0, LoginsStay
<1>2. \A d \in Conns : reply'[d] \in Acks => Told(reply', req[d].user, req[d].host)
  <2> TAKE d \in Conns
  <2>1. CASE d = c
    BY <2>1, <1>0 DEF TypeOK
  <2>2. CASE d # c
    BY <2>2, <1>0, <1>1 DEF TypeOK, AuthInv, AuthorisedOnly
  <2> QED
    BY <2>1, <2>2
<1>3. \A u \in Users : \A k \in DOMAIN userMessages'[u] :
        Told(reply', u, req[userMessages'[u][k]].host)
  <2>1. \A u \in Users : \A j \in DOMAIN userMessages[u] :
          Told(reply', u, req[userMessages[u][j]].host)
    BY <1>1 DEF AuthInv, AuthorisedOnly
  <2> QED
    BY <2>1
<1>4. \A u \in Users : \A k \in DOMAIN userStore'[u] :
        Told(reply', u, userStore'[u][k])
  <2>1. \A u \in Users : \A j \in DOMAIN userStore[u] : Told(reply', u, userStore[u][j])
    BY <1>1 DEF AuthInv, AuthorisedOnly
  <2> QED
    BY <2>1
<1>5. \A k \in DOMAIN listeners' :
        Told(reply', listeners'[k].userID, listeners'[k].clientAddr)
  <2>1. \A j \in DOMAIN listeners :
          Told(reply', listeners[j].userID, listeners[j].clientAddr)
    BY <1>1 DEF AuthInv, AuthorisedOnly
  <2> QED
    BY <2>1
<1>6. \A u, h : LoggedInFrom(u, h)' <=> Told(reply', u, h)
  BY DEF LoggedInFrom, Told
<1> QED
  BY <1>2, <1>3, <1>4, <1>5, <1>6 DEF AuthorisedOnly

\* The outcome of a handler's sends, if the server survives them.
LEMMA Answered ==
  ASSUME NEW c \in Conns, NEW ack, NEW writes, NEW feed,
         Transmit(c, ack, writes, feed), up' = TRUE
  PROVE  reply' = [reply EXCEPT ![c] = ack]
  BY DEF Transmit

LEMMA HandlerAuth ==
  ASSUME AuthInv, up, NEW c \in Conns, c \in unread, fdOf[c] \in Socks,
         UNCHANGED req, Handled(c)
  PROVE  AuthorisedOnly'
<1>1. TypeOK /\ reply[c] = "none"
  BY DEF AuthInv, UnreadUnanswered
<1>2. CASE up' = FALSE
  BY <1>2 DEF AuthorisedOnly
<1>3. CASE up' = TRUE
  <2>a. /\ req[c].user \in Users /\ req[c].host \in Hosts
        /\ userStore \in [Users -> Seq(Hosts)]
        /\ userMessages \in [Users -> Seq(Conns)]
        /\ listeners \in Seq(Handle)
    BY <1>1, ReqTypes DEF TypeOK
  <2>b. ASSUME NEW ack, Reply(c, ack)
        PROVE  reply' = [reply EXCEPT ![c] = ack]
    BY <2>b, <1>3, Answered DEF Reply
  <2>c. ASSUME NEW ack, Admitted(c), reply' = [reply EXCEPT ![c] = ack]
        PROVE  Told(reply', req[c].user, req[c].host)
    BY <2>c, <1>1, AdmittedIsLoggedIn, LoginsStay
  <2>d. "failure" \notin Acks /\ "none" \notin Acks
    BY DEF Acks
  <2>1. CASE handleLogin(c)
    <3>1. PICK valid \in Verdicts :
            /\ userStore' =
                 IF ~ valid THEN userStore
                 ELSE [userStore EXCEPT ![req[c].user] =
                         userLogin(IF isUserLoggedIn(req[c].user, req[c].host)
                                   THEN userLogout(userStore[req[c].user])
                                   ELSE userStore[req[c].user], req[c].host)]
            /\ Reply(c, IF valid THEN "ackLogin" ELSE "failure")
      BY <2>1 DEF handleLogin
    <3>2. /\ reply' = [reply EXCEPT ![c] = IF valid THEN "ackLogin" ELSE "failure"]
          /\ UNCHANGED <<listeners, userMessages>>
      BY <2>1, <2>b, <3>1 DEF handleLogin
    <3>3. valid => Told(reply', req[c].user, req[c].host)
      BY <2>1, <1>1, <3>2 DEF handleLogin, Told, TypeOK
    <3>4. \A u \in Users : \A k \in DOMAIN userStore'[u] :
            \/ \E j \in DOMAIN userStore[u] : userStore'[u][k] = userStore[u][j]
            \/ Told(reply', u, userStore'[u][k])
      <4> DEFINE l == userStore[req[c].user]
                 old == IF isUserLoggedIn(req[c].user, req[c].host)
                        THEN userLogout(l) ELSE l
      <4>1. l \in Seq(Hosts)
        BY <2>a
      <4>2. /\ old \in Seq(Hosts)
            /\ \A k \in DOMAIN old : \E j \in DOMAIN l : old[k] = l[j]
        <5>1. CASE isUserLoggedIn(req[c].user, req[c].host)
          <6>1. l # <<>>
            BY <5>1 DEF isUserLoggedIn
          <6> HIDE DEF l
          <6> QED
            BY <4>1, <5>1, <6>1, HeadAndTail DEF userLogout
        <5>2. CASE ~ isUserLoggedIn(req[c].user, req[c].host)
          BY <4>1, <5>2
        <5> QED
          BY <5>1, <5>2
      <4>3. /\ DOMAIN userLogin(old, req[c].host) = 1 .. Len(old) + 1
            /\ DOMAIN old = 1 .. Len(old) /\ Len(old) \in Nat
            /\ \A k \in 1 .. Len(old) : userLogin(old, req[c].host)[k] = old[k]
            /\ userLogin(old, req[c].host)[Len(old) + 1] = req[c].host
        <5> HIDE DEF old
        <5> QED
          BY <4>2, <2>a, AppendList, LenProperties DEF userLogin
      <4>4. CASE valid
        <5>1. userStore' = [userStore EXCEPT ![req[c].user] = userLogin(old, req[c].host)]
          BY <3>1, <4>4
        <5> SUFFICES ASSUME NEW u \in Users, NEW k \in DOMAIN userStore'[u]
                     PROVE  \/ \E j \in DOMAIN userStore[u] : userStore'[u][k] = userStore[u][j]
                            \/ Told(reply', u, userStore'[u][k])
          OBVIOUS
        <5> HIDE DEF old
        <5>2. CASE u = req[c].user
          <6>1. userStore'[u] = userLogin(old, req[c].host)
            BY <5>1, <5>2, <2>a
          <6>2. CASE k = Len(old) + 1
            BY <6>1, <6>2, <4>3, <4>4, <3>3, <5>2
          <6>3. CASE k \in DOMAIN old
            BY <6>1, <6>3, <4>2, <4>3, <5>2
          <6> QED
            BY <6>1, <6>2, <6>3, <4>3
        <5>3. CASE u # req[c].user
          BY <5>1, <5>3, <2>a
        <5> QED
          BY <5>2, <5>3
      <4>5. CASE ~ valid
        BY <3>1, <4>5
      <4> QED
        BY <4>4, <4>5
    <3> QED
      BY <1>1, <2>d, <3>2, <3>3, <3>4, AuthKept
  <2>2. CASE handleLogout(c)
    <3>1. PICK ack \in {"ackLogout", "failure"} : reply' = [reply EXCEPT ![c] = ack]
      BY <2>2, <2>b DEF handleLogout
    <3>2. Told(reply', req[c].user, req[c].host)
      BY <2>2, <2>c, <3>1 DEF handleLogout
    <3>3. \A u \in Users : \A k \in DOMAIN userStore'[u] :
            \E j \in DOMAIN userStore[u] : userStore'[u][k] = userStore[u][j]
      <4>1. userStore' = [userStore EXCEPT ![req[c].user] = Tail(userStore[req[c].user])]
        BY <2>2 DEF handleLogout, userLogout
      <4>2. /\ userStore[req[c].user] \in Seq(Hosts)
            /\ userStore[req[c].user] # <<>>
        BY <2>2, <2>a DEF handleLogout, Admitted, isUserLoggedIn
      <4>3. \A k \in DOMAIN Tail(userStore[req[c].user]) :
              \E j \in DOMAIN userStore[req[c].user] :
                Tail(userStore[req[c].user])[k] = userStore[req[c].user][j]
        BY <4>2, HeadAndTail
      <4> QED
        BY <4>1, <4>3, <2>a
    <3>4. UNCHANGED <<listeners, userMessages>>
      BY <2>2 DEF handleLogout
    <3> QED
      BY <1>1, <3>1, <3>2, <3>3, <3>4, AuthKept
  <2>3. CASE handlePost(c)
    <3>1. /\ Admitted(c) /\ UNCHANGED <<userStore, listeners>>
          /\ \/ /\ userMessages' = [userMessages EXCEPT ![req[c].user] = Append(@, c)]
                /\ reply' = [reply EXCEPT ![c] = "ackPost"]
             \/ UNCHANGED userMessages /\ reply' = [reply EXCEPT ![c] = "failure"]
      BY <2>3, <2>b, <1>3, Answered DEF handlePost
    <3>2. Told(reply', req[c].user, req[c].host)
      BY <3>1, <2>c
    <3>3. \A u \in Users : \A k \in DOMAIN userMessages'[u] :
            \/ \E j \in DOMAIN userMessages[u] : userMessages'[u][k] = userMessages[u][j]
            \/ Told(reply', u, req[userMessages'[u][k]].host)
      <4>1. CASE UNCHANGED userMessages
        BY <4>1
      <4>2. CASE userMessages' = [userMessages EXCEPT ![req[c].user] = Append(@, c)]
        <5> DEFINE l == userMessages[req[c].user]
        <5>1. /\ DOMAIN Append(l, c) = 1 .. Len(l) + 1
              /\ DOMAIN l = 1 .. Len(l) /\ Len(l) \in Nat
              /\ \A k \in 1 .. Len(l) : Append(l, c)[k] = l[k]
              /\ Append(l, c)[Len(l) + 1] = c
          BY <2>a, AppendList, LenProperties
        <5>2. \A u \in Users :
                userMessages'[u] = IF u = req[c].user THEN Append(l, c) ELSE userMessages[u]
          BY <4>2, <2>a
        <5>3. \A k \in DOMAIN Append(l, c) :
                (\E j \in DOMAIN l : Append(l, c)[k] = l[j]) \/ Append(l, c)[k] = c
          BY <5>1
        <5> HIDE DEF l
        <5> QED
          BY <5>2, <5>3, <3>2 DEF l
      <4> QED
        BY <3>1, <4>1, <4>2
    <3> QED
      BY <1>1, <3>1, <3>2, <3>3, AuthKept
  <2>4. CASE handleFollow(c) \/ handleUnfollow(c)
    <3>1. /\ Admitted(c) /\ UNCHANGED <<userStore, listeners, userMessages>>
          /\ \E ack : reply' = [reply EXCEPT ![c] = ack]
      BY <2>4, <2>b DEF handleFollow, handleUnfollow
    <3>2. PICK ack : reply' = [reply EXCEPT ![c] = ack]
      BY <3>1
    <3>3. Told(reply', req[c].user, req[c].host)
      BY <3>1, <3>2, <2>c
    <3> QED
      BY <1>1, <3>1, <3>2, <3>3, AuthKept
  <2>5. CASE handleFeed(c)
    <3> DEFINE l == [userID |-> req[c].user, clientSock |-> fdOf[c],
                     clientAddr |-> req[c].host]
    <3>1. /\ Admitted(c) /\ UNCHANGED <<userStore, userMessages>>
          /\ listeners' = Append(listeners, l)
          /\ reply' = [reply EXCEPT ![c] = "none"]
      BY <2>5, <1>3, Answered DEF handleFeed, addListener
    <3>2. Told(reply', req[c].user, req[c].host)
      BY <3>1, <2>c
    <3>3. l \in Handle /\ l.userID = req[c].user /\ l.clientAddr = req[c].host
      BY <2>a DEF Handle
    <3> HIDE DEF l
    <3>4. /\ DOMAIN listeners' = 1 .. Len(listeners) + 1
          /\ DOMAIN listeners = 1 .. Len(listeners) /\ Len(listeners) \in Nat
          /\ \A k \in 1 .. Len(listeners) : listeners'[k] = listeners[k]
          /\ listeners'[Len(listeners) + 1] = l
      BY <2>a, <3>1, <3>3, AppendList, LenProperties
    <3>5. \A k \in DOMAIN listeners' :
            \/ \E j \in DOMAIN listeners : listeners'[k] = listeners[j]
            \/ Told(reply', listeners'[k].userID, listeners'[k].clientAddr)
      <4> TAKE k \in DOMAIN listeners'
      <4>1. CASE k \in DOMAIN listeners
        BY <4>1, <3>4
      <4>2. CASE k = Len(listeners) + 1
        BY <4>2, <3>2, <3>3, <3>4
      <4> QED
        BY <4>1, <4>2, <3>4
    <3> QED
      BY <1>1, <2>d, <3>1, <3>5, AuthKept
  <2>6. CASE handleFailure(c)
    <3>1. /\ reply' = [reply EXCEPT ![c] = "failure"]
          /\ UNCHANGED <<userStore, listeners, userMessages>>
      BY <2>6, <2>b DEF handleFailure
    <3> QED
      BY <1>1, <2>d, <3>1, AuthKept
  <2> QED
    BY <2>1, <2>2, <2>3, <2>4, <2>5, <2>6 DEF Handled
<1>4. up' = TRUE \/ up' = FALSE
  BY <1>1, HandlerTypes DEF Sent
<1> QED
  BY <1>2, <1>3, <1>4

\* TableInv says that what is unread has been connected.
LEMMA AuthStep == TableInv /\ AuthInv /\ [Next]_vars => AuthInv'
<1> SUFFICES ASSUME TableInv, AuthInv, [Next]_vars PROVE AuthInv'
  OBVIOUS
<1>0. TypeOK /\ TypeOK'
  BY TypeStep DEF AuthInv
<1>1. ASSUME NEW c \in Conns, Connect(c) \/ Close(c) \/ ReceiveError(c)
      PROVE  UnreadUnanswered' /\ AuthorisedOnly'
  <2>1. UNCHANGED <<req, reply, up, userStore, listeners, userMessages>>
    BY <1>1 DEF Connect, Close, ReceiveError, server
  <2>2. \A d \in Conns : d \in unread' \/ link'[d] = "none" => d \in unread \/ link[d] = "none"
    <3>1. CASE Connect(c)
      BY <3>1, <1>0 DEF Connect, TypeOK
    <3>2. CASE Close(c)
      <4>1. PICK how \in {"fin", "rst"} : link' = [link EXCEPT ![c] = how]
        BY <3>2 DEF Close
      <4> QED
        BY <3>2, <4>1, <1>0 DEF Close, TypeOK
    <3>3. CASE ReceiveError(c)
      BY <3>3, <1>0 DEF ReceiveError, TypeOK
    <3> QED
      BY <1>1, <3>1, <3>2, <3>3
  <2>3. UnreadUnanswered'
    BY <2>1, <2>2 DEF AuthInv, UnreadUnanswered
  <2>4. AuthorisedOnly'
    BY <2>1 DEF AuthInv, AuthorisedOnly, LoggedInFrom
  <2> QED
    BY <2>3, <2>4
<1>2. ASSUME Accept \/ UNCHANGED vars
      PROVE  UnreadUnanswered' /\ AuthorisedOnly'
  <2>1. UNCHANGED <<req, link, unread, reply, up, userStore, listeners, userMessages>>
    BY <1>2 DEF Accept, vars, net, server
  <2> QED
    BY <2>1 DEF AuthInv, UnreadUnanswered, AuthorisedOnly, LoggedInFrom
<1>3. ASSUME NEW c \in Conns, Serve(c)
      PROVE  UnreadUnanswered' /\ AuthorisedOnly'
  <2>1. /\ up /\ c \in unread /\ fdOf[c] \in Socks /\ Handled(c) /\ UNCHANGED req
        /\ unread' = unread \ {c}
    BY <1>0, <1>3, ServedIsSelected DEF Serve, Receive
  <2>2. AuthorisedOnly'
    BY <2>1, HandlerAuth
  <2>3. Sent(c)
    BY <2>1, <1>0, HandlerTypes
  <2>4. ASSUME NEW d \in Conns, d \in unread' \/ link'[d] = "none" PROVE reply'[d] = "none"
    <3>1. d \in unread \/ link[d] = "none"
      BY <2>1, <2>3, <2>4 DEF Sent
    <3>2. reply[d] = "none"
      BY <3>1 DEF AuthInv, UnreadUnanswered
    <3>3. CASE d = c
      BY <2>1, <2>4, <3>3, <2>3 DEF Sent, TableInv, BacklogSound
    <3>4. CASE d # c
      <4>1. reply'[d] = reply[d]
        BY <3>4, <2>3, <1>0 DEF Sent, TypeOK
      <4> QED
        BY <4>1, <3>2
    <3> QED
      BY <3>3, <3>4
  <2> QED
    BY <2>2, <2>4 DEF UnreadUnanswered
<1>4. ASSUME NEW c \in Conns, Terminate(c)
      PROVE  UnreadUnanswered' /\ AuthorisedOnly'
  <2>1. /\ UNCHANGED <<req, unread, reply, up, userStore, userMessages>>
        /\ link' = [link EXCEPT ![c] = "dead"]
    BY <1>4 DEF Terminate
  <2>2. UnreadUnanswered'
    BY <2>1, <1>0 DEF AuthInv, UnreadUnanswered, TypeOK
  <2>3. \A k \in DOMAIN listeners' : \E j \in DOMAIN listeners : listeners'[k] = listeners[j]
    <3>1. PICK h : removeListener(h)
      BY <1>4 DEF Terminate
    <3>2. CASE UNCHANGED listeners
      BY <3>2
    <3>3. ASSUME NEW i \in DOMAIN listeners, listeners' = RemoveAt(listeners, i)
          PROVE  \A k \in DOMAIN listeners' :
                   \E j \in DOMAIN listeners : listeners'[k] = listeners[j]
      <4>1. listeners \in Seq(Handle) /\ DOMAIN listeners = 1 .. Len(listeners)
            /\ Len(listeners) \in Nat
        BY <1>0, LenProperties DEF TypeOK
      <4>2. /\ DOMAIN listeners' = 1 .. Len(listeners) - 1
            /\ \A k \in 1 .. Len(listeners) - 1 :
                 listeners'[k] = IF k < i THEN listeners[k] ELSE listeners[k + 1]
        BY <3>3, <4>1, RemoveAtList
      <4> QED
        BY <4>1, <4>2
    <3> QED
      BY <3>1, <3>2, <3>3 DEF removeListener
  <2>4. AuthorisedOnly'
    <3>1. ASSUME up
          PROVE  \A k \in DOMAIN listeners' :
                   LoggedInFrom(listeners'[k].userID, listeners'[k].clientAddr)
      BY <2>3, <3>1 DEF AuthInv, AuthorisedOnly
    <3> QED
      BY <2>1, <3>1 DEF AuthInv, AuthorisedOnly, LoggedInFrom
  <2> QED
    BY <2>2, <2>4
<1> QED
  BY <1>0, <1>1, <1>2, <1>3, <1>4 DEF Next, ServerStep, AuthInv

\* Nothing is acknowledged, stored, kept as a session or registered as a
\* listener unless that user has logged in from that host before (main).
THEOREM OnlyTheAuthorised == Spec => []AuthorisedOnly
<1>1. Spec => []TableInv
  BY TableInit, TableStep, PTL DEF Spec
<1>2. Spec => []AuthInv
  BY <1>1, AuthInit, AuthStep, PTL DEF Spec
<1> QED
  BY <1>2, PTL DEF AuthInv

----------------------------------------------------------------------------
(* Posts. *)

\* What PostsStoredOnce needs to be inductive: a post in a list has been
\* acknowledged, so that a connection whose request has not been read is in
\* no list and can be appended.
StoredSound == up =>
  \A u \in Users :
    /\ IsInjective(userMessages[u])
    /\ \A c \in Conns :
         Contains(userMessages[u], c) <=> reply[c] = "ackPost" /\ req[c].user = u

\* A handler stores the post of its own connection and acknowledges it, or
\* does neither.
LEMMA HandlerPosts ==
  ASSUME NEW c \in Conns, Handled(c), up' = TRUE
  PROVE  \/ /\ UNCHANGED userMessages
            /\ \E ack : ack # "ackPost" /\ reply' = [reply EXCEPT ![c] = ack]
         \/ /\ userMessages' = [userMessages EXCEPT ![req[c].user] = Append(@, c)]
            /\ reply' = [reply EXCEPT ![c] = "ackPost"]
            /\ \E writes : Transmit(c, "ackPost", writes, pushFeedMessage(req[c].user, c))
<1>1. ASSUME NEW ack, Reply(c, ack)
      PROVE  reply' = [reply EXCEPT ![c] = ack]
  BY <1>1, Answered DEF Reply
<1>2. CASE handleLogin(c)
  <2>1. PICK valid \in Verdicts : Reply(c, IF valid THEN "ackLogin" ELSE "failure")
    BY <1>2 DEF handleLogin
  <2> QED
    BY <1>1, <1>2, <2>1 DEF handleLogin
<1>3. CASE handleLogout(c)
  <2>1. PICK valid \in Verdicts : Reply(c, IF valid THEN "ackLogout" ELSE "failure")
    BY <1>3 DEF handleLogout
  <2> QED
    BY <1>1, <1>3, <2>1 DEF handleLogout
<1>4. CASE handlePost(c)
  <2>1. CASE UNCHANGED userMessages /\ Reply(c, "failure")
    BY <1>1, <2>1
  <2>2. CASE /\ userMessages' = [userMessages EXCEPT ![req[c].user] = Append(@, c)]
             /\ \E w : Transmit(c, "ackPost", w, pushFeedMessage(req[c].user, c))
    BY <2>2, Answered
  <2> QED
    BY <1>4, <2>1, <2>2 DEF handlePost
<1>5. CASE handleFollow(c)
  <2>1. PICK rv \in Follows!Status : Reply(c, IF rv = "ERROR" THEN "failure" ELSE "ackFollow")
    BY <1>5 DEF handleFollow
  <2> QED
    BY <1>1, <1>5, <2>1 DEF handleFollow
<1>6. CASE handleUnfollow(c)
  <2>1. PICK rv \in Follows!Status : Reply(c, IF rv = "ERROR" THEN "failure" ELSE "ackUnfollow")
    BY <1>6 DEF handleUnfollow
  <2> QED
    BY <1>1, <1>6, <2>1 DEF handleUnfollow
<1>7. CASE handleFeed(c)
  BY <1>7, Answered DEF handleFeed
<1>8. CASE handleFailure(c)
  BY <1>1, <1>8 DEF handleFailure
<1> QED
  BY <1>2, <1>3, <1>4, <1>5, <1>6, <1>7, <1>8 DEF Handled

\* Serving a connection that has no reply yet.
LEMMA StoredServe ==
  ASSUME TypeOK, StoredSound, up, NEW c \in Conns, reply[c] = "none",
         UNCHANGED req, Handled(c), up' = TRUE
  PROVE  StoredSound'
<1>1. /\ req[c].user \in Users /\ userMessages \in [Users -> Seq(Conns)]
      /\ reply \in [Conns -> Replies \cup {"none"}]
  BY ReqTypes DEF TypeOK
<1>2. \A u \in Users : IsInjective(userMessages[u]) /\ ~ Contains(userMessages[u], c)
  BY DEF StoredSound
<1>3. CASE /\ UNCHANGED userMessages
           /\ \E ack : ack # "ackPost" /\ reply' = [reply EXCEPT ![c] = ack]
  <2>1. PICK ack : ack # "ackPost" /\ reply' = [reply EXCEPT ![c] = ack]
    BY <1>3
  <2>2. \A d \in Conns : reply'[d] = IF d = c THEN ack ELSE reply[d]
    BY <1>1, <2>1
  <2> QED
    BY <1>2, <1>3, <2>1, <2>2 DEF StoredSound
<1>4. CASE /\ userMessages' = [userMessages EXCEPT ![req[c].user] = Append(@, c)]
           /\ reply' = [reply EXCEPT ![c] = "ackPost"]
  <2>1. \A d \in Conns : reply'[d] = IF d = c THEN "ackPost" ELSE reply[d]
    BY <1>1, <1>4
  <2> SUFFICES ASSUME NEW u \in Users
               PROVE  /\ IsInjective(userMessages'[u])
                      /\ \A d \in Conns :
                           Contains(userMessages'[u], d)
                             <=> reply'[d] = "ackPost" /\ req[d].user = u
    BY DEF StoredSound
  <2>2. CASE u = req[c].user
    <3>1. userMessages'[u] = Append(userMessages[u], c)
      BY <1>1, <1>4, <2>2
    <3>2. IsInjective(userMessages'[u])
      BY <1>1, <1>2, <3>1, InjectiveAppend
    <3>3. \A d \in Conns : Contains(userMessages'[u], d) <=> Contains(userMessages[u], d) \/ d = c
      BY <1>1, <3>1, ContainsAppend
    <3> QED
      BY <2>1, <2>2, <3>2, <3>3 DEF StoredSound
  <2>3. CASE u # req[c].user
    <3>1. userMessages'[u] = userMessages[u]
      BY <1>1, <1>4, <2>3
    <3> QED
      BY <1>2, <2>1, <2>3, <3>1 DEF StoredSound
  <2> QED
    BY <2>2, <2>3
<1> QED
  BY <1>3, <1>4, HandlerPosts

LEMMA StoredStep ==
  TableInv /\ AuthInv /\ StoredSound /\ [Next]_vars => StoredSound'
<1> SUFFICES ASSUME AuthInv, StoredSound, [Next]_vars PROVE StoredSound'
  OBVIOUS
<1>1. CASE UNCHANGED <<req, reply, up, userMessages>>
  BY <1>1 DEF StoredSound
<1>2. ASSUME NEW c \in Conns, Serve(c) PROVE StoredSound'
  <2>1. TypeOK
    BY DEF AuthInv
  <2>2. /\ up /\ c \in unread /\ fdOf[c] \in Socks /\ Handled(c) /\ UNCHANGED req
    BY <1>2, <2>1, ServedIsSelected DEF Serve, Receive
  <2>3. reply[c] = "none"
    BY <2>2 DEF AuthInv, UnreadUnanswered
  <2>4. up' = TRUE \/ up' = FALSE
    BY <2>1, <2>2, HandlerTypes DEF Sent
  <2>5. CASE up' = TRUE
    BY <2>1, <2>2, <2>3, <2>5, StoredServe
  <2>6. CASE up' = FALSE
    BY <2>6 DEF StoredSound
  <2> QED
    BY <2>4, <2>5, <2>6
<1>3. ASSUME NEW c \in Conns, Connect(c) \/ Close(c) \/ ReceiveError(c) \/ Terminate(c)
      PROVE  UNCHANGED <<req, reply, up, userMessages>>
  BY <1>3 DEF Connect, Close, ReceiveError, Terminate, server
<1>4. ASSUME Accept \/ UNCHANGED vars
      PROVE  UNCHANGED <<req, reply, up, userMessages>>
  BY <1>4 DEF Accept, vars, net, server
<1> QED
  BY <1>1, <1>2, <1>3, <1>4 DEF Next, ServerStep

LEMMA StoredInit == Init => StoredSound
<1> SUFFICES ASSUME Init PROVE StoredSound
  OBVIOUS
<1>1. /\ \A u \in Users : userMessages[u] = <<>>
      /\ \A c \in Conns : reply[c] = "none"
  BY DEF Init
<1>2. IsInjective(<<>>) /\ \A c : ~ Contains(<<>>, c)
  BY DEF IsInjective, Contains
<1> QED
  BY <1>1, <1>2 DEF StoredSound

\* In a list without duplicates a member has one place.
LEMMA PlacesOf ==
  ASSUME NEW S, NEW s \in Seq(S), IsInjective(s), NEW e
  PROVE  Cardinality({k \in DOMAIN s : s[k] = e}) = IF Contains(s, e) THEN 1 ELSE 0
<1> DEFINE P == {k \in DOMAIN s : s[k] = e}
<1>1. DOMAIN s = 1 .. Len(s)
  BY LenProperties
<1>2. CASE Contains(s, e)
  <2>1. PICK k \in DOMAIN s : s[k] = e
    BY <1>1, <1>2 DEF Contains
  <2>2. P = {k}
    BY <2>1 DEF IsInjective
  <2> QED
    BY <1>2, <2>2, FS_Singleton
<1>3. CASE ~ Contains(s, e)
  <2>1. P = {}
    BY <1>1, <1>3 DEF Contains
  <2> QED
    BY <1>3, <2>1, FS_EmptySet
<1> QED
  BY <1>2, <1>3

\* An acknowledged post is in its author's list once, and nothing else is
\* (handlePost, addMessage).
THEOREM PostsAreStoredOnce == Spec => []PostsStoredOnce
<1>1. Spec => []TableInv
  BY TableInit, TableStep, PTL DEF Spec
<1>2. Spec => []AuthInv
  BY <1>1, AuthInit, AuthStep, PTL DEF Spec
<1>3. Spec => []StoredSound
  BY <1>1, <1>2, StoredInit, StoredStep, PTL DEF Spec
<1>4. AuthInv /\ StoredSound => PostsStoredOnce
  <2> SUFFICES ASSUME AuthInv, StoredSound, up, NEW c \in Conns, NEW u \in Users
               PROVE  Cardinality({k \in DOMAIN userMessages[u] : userMessages[u][k] = c})
                        = IF reply[c] = "ackPost" /\ req[c].user = u THEN 1 ELSE 0
    BY DEF PostsStoredOnce
  <2>1. userMessages[u] \in Seq(Conns)
    BY DEF AuthInv, TypeOK
  <2>2. IsInjective(userMessages[u])
    BY DEF StoredSound
  <2>3. Contains(userMessages[u], c) <=> reply[c] = "ackPost" /\ req[c].user = u
    BY DEF StoredSound
  <2> QED
    BY <2>1, <2>2, <2>3, PlacesOf
<1> QED
  BY <1>2, <1>3, <1>4, PTL

----------------------------------------------------------------------------
(* Sessions. *)

\* Copies and replies are made by handlers only.
LEMMA OnlyServeDelivers ==
  ASSUME [Next]_vars
  PROVE  \/ UNCHANGED <<copies, reply>>
         \/ \E c \in Conns : Serve(c)
<1>1. ASSUME NEW c \in Conns, Connect(c) \/ Close(c) \/ ReceiveError(c) \/ Terminate(c)
      PROVE  UNCHANGED <<copies, reply>>
  BY <1>1 DEF Connect, Close, ReceiveError, Terminate
<1>2. ASSUME Accept \/ UNCHANGED vars PROVE UNCHANGED <<copies, reply>>
  BY <1>2 DEF Accept, vars, net
<1> QED
  BY <1>1, <1>2 DEF Next, ServerStep

\* So are the sessions, and the server lives until a handler costs it its life.
LEMMA OnlyServeWrites ==
  ASSUME [Next]_vars
  PROVE  \/ UNCHANGED <<reply, userStore, up>>
         \/ \E c \in Conns : Serve(c)
<1>1. ASSUME NEW c \in Conns, Connect(c) \/ Close(c) \/ ReceiveError(c) \/ Terminate(c)
      PROVE  UNCHANGED <<reply, userStore, up>>
  BY <1>1 DEF Connect, Close, ReceiveError, Terminate, server
<1>2. ASSUME Accept \/ UNCHANGED vars PROVE UNCHANGED <<reply, userStore, up>>
  BY <1>2 DEF Accept, vars, net, server
<1> QED
  BY <1>1, <1>2 DEF Next, ServerStep

LEMMA RequestsStay == ASSUME [Next]_vars PROVE UNCHANGED req
<1>1. ASSUME NEW c \in Conns, Connect(c) \/ Close(c) \/ ReceiveError(c) \/ Terminate(c)
      PROVE  UNCHANGED req
  BY <1>1 DEF Connect, Close, ReceiveError, Terminate
<1>2. ASSUME NEW c \in Conns, Serve(c) PROVE UNCHANGED req
  BY <1>2 DEF Serve, Receive
<1>3. ASSUME Accept \/ UNCHANGED vars PROVE UNCHANGED req
  BY <1>3 DEF Accept, vars, net
<1> QED
  BY <1>1, <1>2, <1>3 DEF Next, ServerStep

\* Everything a step that serves c does to the replies.
LEMMA ServedReplies ==
  ASSUME AuthInv, NEW c \in Conns, Serve(c)
  PROVE  /\ up /\ c \in unread /\ fdOf[c] \in Socks /\ Handled(c) /\ UNCHANGED req
         /\ reply[c] = "none" /\ Sent(c)
         /\ up' = TRUE \/ (up' = FALSE /\ reply' = reply)
<1>1. TypeOK
  BY DEF AuthInv
<1>2. up /\ c \in unread /\ fdOf[c] \in Socks /\ Handled(c) /\ UNCHANGED req
  BY <1>1, ServedIsSelected DEF Serve, Receive
<1>3. Sent(c)
  BY <1>1, <1>2, HandlerTypes
<1> QED
  BY <1>2, <1>3 DEF Sent, AuthInv, UnreadUnanswered

\* Replies are never taken back.
LEMMA RepliesStay ==
  ASSUME AuthInv, [Next]_vars, NEW d \in Conns, reply[d] # "none"
  PROVE  reply'[d] = reply[d]
<1>1. CASE UNCHANGED reply
  BY <1>1
<1>2. ASSUME NEW c \in Conns, Serve(c) PROVE reply'[d] = reply[d]
  <2>1. reply[c] = "none" /\ Sent(c) /\ reply \in [Conns -> Replies \cup {"none"}]
    BY <1>2, ServedReplies DEF AuthInv, TypeOK
  <2> QED
    BY <2>1 DEF Sent
<1> QED
  BY <1>1, <1>2, OnlyServeDelivers

\* A user who has come from one host has done so before.
LEMMA OneHostBefore ==
  ASSUME AuthInv, [Next]_vars, NEW u, OneHostSoFar(u)'
  PROVE  OneHostSoFar(u)
<1>1. UNCHANGED req
  BY RequestsStay
<1>2. \A d \in Conns : reply[d] = "ackLogin" => reply'[d] = "ackLogin"
  BY RepliesStay
<1>3. \A h : LoggedInFrom(u, h) => LoggedInFrom(u, h)'
  BY <1>1, <1>2 DEF LoggedInFrom
<1> QED
  BY <1>3 DEF OneHostSoFar

\* A list of at most one entry, taken apart.
LEMMA ShortLists ==
  ASSUME NEW S, NEW s \in Seq(S), Len(s) <= 1, s # <<>>
  PROVE  s = <<Head(s)>> /\ Tail(s) = <<>>
<1>1. Len(s) \in Nat /\ Len(s) # 0
  BY EmptySeq, LenProperties
<1>2. Len(s) = 1
  BY <1>1
<1>3. Len(Tail(s)) = 0 /\ Tail(s) \in Seq(S)
  BY <1>2, HeadTailProperties
<1>4. Tail(s) = <<>>
  BY <1>3, EmptySeq
<1>5. s = <<s[1]>>
  BY <1>2
<1>6. Head(s) = s[1]
  BY HeadTailProperties
<1> QED
  BY <1>4, <1>5, <1>6

\* A login of a user of one host so far.  The hosts in the store have all
\* logged in (AuthorisedOnly), so that the one entry is the user's host and
\* handleLogin finds it and takes it away.
LEMMA LoginSession ==
  ASSUME AuthInv, SingleSession, NEW c \in Conns, Serve(c), handleLogin(c),
         OneHostSoFar(req[c].user), OneHostSoFar(req[c].user)', up' = TRUE
  PROVE  \/ UNCHANGED userStore
         \/ /\ userStore' = [userStore EXCEPT ![req[c].user] = <<req[c].host>>]
            /\ userStore[req[c].user] # <<>> => Head(userStore[req[c].user]) = req[c].host
<1> DEFINE u == req[c].user
           h == req[c].host
<1>0. /\ up /\ Handled(c) /\ UNCHANGED req /\ reply[c] = "none" /\ TypeOK
      /\ reply \in [Conns -> Replies \cup {"none"}]
  BY ServedReplies DEF AuthInv, TypeOK
<1>1. /\ u \in Users /\ h \in Hosts /\ userStore[u] \in Seq(Hosts)
      /\ Len(userStore[u]) <= 1
  BY <1>0, ReqTypes DEF TypeOK, SingleSession
<1>2. userStore[u] = <<>> \/ (userStore[u] = <<Head(userStore[u])>> /\ Tail(userStore[u]) = <<>>)
  BY <1>1, ShortLists
<1>3. PICK valid \in Verdicts :
        /\ userStore' =
             IF ~ valid THEN userStore
             ELSE [userStore EXCEPT ![u] =
                     userLogin(IF isUserLoggedIn(u, h) THEN userLogout(userStore[u])
                                                       ELSE userStore[u], h)]
        /\ Reply(c, IF valid THEN "ackLogin" ELSE "failure")
  BY DEF handleLogin
<1>4. CASE ~ valid
  BY <1>3, <1>4
<1>5. CASE valid
  <2>1. reply' = [reply EXCEPT ![c] = "ackLogin"]
    BY <1>3, <1>5, Answered DEF Reply
  <2>2. LoggedInFrom(u, h)'
    BY <1>0, <2>1 DEF LoggedInFrom, handleLogin
  <2>3. userStore[u] # <<>> => Head(userStore[u]) = h
    <3> SUFFICES ASSUME userStore[u] # <<>> PROVE Head(userStore[u]) = h
      OBVIOUS
    <3>1. PICK g \in Hosts : g = Head(userStore[u])
      BY <1>1, HeadAndTail
    <3>2. 1 \in DOMAIN userStore[u] /\ g = userStore[u][1]
      BY <1>1, <3>1, HeadAndTail
    <3>3. LoggedInFrom(u, g)
      BY <1>0, <1>1, <3>2 DEF AuthInv, AuthorisedOnly
    <3>4. Told(reply', u, g)
      BY <1>0, <2>1, <3>3, LoginsStay
    <3>5. LoggedInFrom(u, g)'
      BY <1>0, <3>4 DEF Told, LoggedInFrom
    <3>6. g = h
      BY <1>0, <1>1, <2>2, <3>5 DEF OneHostSoFar
    <3> QED
      BY <3>1, <3>6
  <2>4. userLogin(IF isUserLoggedIn(u, h) THEN userLogout(userStore[u])
                                          ELSE userStore[u], h) = <<h>>
    <3>1. Append(<<>>, h) = <<h>>
      OBVIOUS
    <3> QED
      BY <1>2, <2>3, <3>1 DEF userLogin, userLogout, isUserLoggedIn
  <2> QED
    BY <1>3, <1>5, <2>3, <2>4
<1> QED
  BY <1>4, <1>5

\* The handlers that write the sessions, for a user of one host so far.
LEMMA HandlerSessions ==
  ASSUME AuthInv, SingleSession, NEW c \in Conns, Serve(c), up' = TRUE,
         OneHostSoFar(req[c].user), OneHostSoFar(req[c].user)'
  PROVE  \/ UNCHANGED userStore
         \/ userStore' = [userStore EXCEPT ![req[c].user] = <<>>]
         \/ userStore' = [userStore EXCEPT ![req[c].user] = <<req[c].host>>]
<1> DEFINE u == req[c].user
<1>0. up /\ Handled(c) /\ TypeOK
  BY ServedReplies DEF AuthInv
<1>1. u \in Users /\ userStore[u] \in Seq(Hosts) /\ Len(userStore[u]) <= 1
  BY <1>0, ReqTypes DEF TypeOK, SingleSession
<1>2. userStore[u] = <<>> \/ (userStore[u] = <<Head(userStore[u])>> /\ Tail(userStore[u]) = <<>>)
  BY <1>1, ShortLists
<1>3. CASE handleLogin(c)
  BY <1>3, LoginSession
<1>4. CASE handleLogout(c)
  <2>1. userStore' = [userStore EXCEPT ![u] = Tail(userStore[u])] /\ userStore[u] # <<>>
    BY <1>4 DEF handleLogout, userLogout, Admitted, isUserLoggedIn
  <2> QED
    BY <1>2, <2>1
<1>5. CASE ~ handleLogin(c) /\ ~ handleLogout(c)
  BY <1>0, <1>5 DEF Handled, handlePost, handleFollow, handleUnfollow, handleFeed, handleFailure
<1> QED
  BY <1>3, <1>4, <1>5

\* The handlers touch the sessions of their own user only.
LEMMA SessionsOfOthers ==
  ASSUME TypeOK, NEW c \in Conns, Handled(c), NEW u \in Users, u # req[c].user
  PROVE  userStore'[u] = userStore[u]
<1>1. userStore' = userStore \/ \E s : userStore' = [userStore EXCEPT ![req[c].user] = s]
  BY DEF Handled, handleLogin, handleLogout, handlePost, handleFollow, handleUnfollow,
         handleFeed, handleFailure
<1> QED
  BY <1>1 DEF TypeOK

LEMMA SessionStep == AuthInv /\ SingleSession /\ [Next]_vars => SingleSession'
<1> SUFFICES ASSUME AuthInv, SingleSession, [Next]_vars, up', NEW u \in Users,
                    OneHostSoFar(u)'
             PROVE  Len(userStore'[u]) <= 1
  BY DEF SingleSession
<1>1. OneHostSoFar(u)
  BY OneHostBefore
<1>2. CASE UNCHANGED <<reply, userStore, up>>
  BY <1>1, <1>2 DEF SingleSession
<1>3. ASSUME NEW c \in Conns, Serve(c) PROVE Len(userStore'[u]) <= 1
  <2>0. /\ up /\ Handled(c) /\ UNCHANGED req /\ TypeOK /\ up' = TRUE
        /\ userStore \in [Users -> Seq(Hosts)]
    BY <1>3, ServedReplies DEF AuthInv, TypeOK
  <2>1. CASE u # req[c].user
    <3>1. userStore'[u] = userStore[u]
      BY <2>0, <2>1, SessionsOfOthers
    <3> QED
      BY <1>1, <2>0, <3>1 DEF SingleSession
  <2>2. CASE u = req[c].user
    <3>1. OneHostSoFar(req[c].user) /\ OneHostSoFar(req[c].user)'
      BY <1>1, <2>0, <2>2
    <3>2. \/ UNCHANGED userStore
          \/ userStore' = [userStore EXCEPT ![u] = <<>>]
          \/ userStore' = [userStore EXCEPT ![u] = <<req[c].host>>]
      BY <1>3, <2>0, <2>2, <3>1, HandlerSessions
    <3>3. userStore'[u] \in {userStore[u], <<>>, <<req[c].host>>}
      BY <2>0, <3>2
    <3>4. Len(userStore[u]) <= 1
      BY <1>1, <2>0 DEF SingleSession
    <3>5. Len(<<>>) <= 1 /\ Len(<<req[c].host>>) <= 1
      OBVIOUS
    <3> QED
      BY <3>3, <3>4, <3>5
  <2> QED
    BY <2>1, <2>2
<1> QED
  BY <1>2, <1>3, OnlyServeWrites

LEMMA SessionInit == Init => SingleSession
  BY DEF Init, SingleSession

LEMMA SessionInvariant == Spec => [](AuthInv /\ SingleSession)
<1>1. Spec => []TableInv
  BY TableInit, TableStep, PTL DEF Spec
<1> QED
  BY <1>1, AuthInit, AuthStep, SessionInit, SessionStep, PTL DEF Spec

\* Nobody has two sessions before the second host, whatever the workload: a
\* login replaces the older one (handleLogin, userStore).
THEOREM OneSessionAtATime == Spec => []SingleSession
  BY SessionInvariant, PTL

\* What a logout leaves behind.
LogoutEnds ==
  \A c \in Conns :
    c \in unread /\ c \notin unread' /\ handleLogout(c) /\ up' /\
    OneHostSoFar(req[c].user) => ~ isUserLoggedIn(req[c].user, req[c].host)'

LEMMA LogoutStep ==
  ASSUME AuthInv, SingleSession, [Next]_vars
  PROVE  LogoutEnds
<1> SUFFICES ASSUME NEW c \in Conns, c \in unread, c \notin unread', handleLogout(c),
                    OneHostSoFar(req[c].user)
             PROVE  ~ isUserLoggedIn(req[c].user, req[c].host)'
  BY DEF LogoutEnds
<1>1. Serve(c)
  <2>1. ASSUME NEW d \in Conns, Serve(d) PROVE d = c
    BY <2>1 DEF Serve, Receive
  <2>2. ASSUME NEW d \in Conns, Connect(d) \/ Close(d) \/ ReceiveError(d) \/ Terminate(d)
        PROVE  FALSE
    BY <2>2 DEF Connect, Close, ReceiveError, Terminate, server
  <2>3. ASSUME Accept \/ UNCHANGED vars PROVE FALSE
    BY <2>3 DEF Accept, vars, net, server
  <2> QED
    BY <2>1, <2>2, <2>3 DEF Next, ServerStep
<1>2. up /\ UNCHANGED req /\ TypeOK
  BY <1>1, ServedReplies DEF AuthInv
<1>3. /\ req[c].user \in Users /\ userStore \in [Users -> Seq(Hosts)]
      /\ userStore[req[c].user] # <<>>
      /\ userStore' = [userStore EXCEPT ![req[c].user] = Tail(userStore[req[c].user])]
  BY <1>2, ReqTypes DEF TypeOK, handleLogout, userLogout, Admitted, isUserLoggedIn
<1>4. Tail(userStore[req[c].user]) = <<>>
  BY <1>2, <1>3, ShortLists DEF SingleSession
<1>5. userStore'[req[c].user] = <<>>
  BY <1>3, <1>4
<1> QED
  BY <1>2, <1>5 DEF isUserLoggedIn

\* A logout that is handled ends the session of its host, also when the second
\* authentication of handleLogout fails and the client is told so.
THEOREM LogoutsEndSessions == Spec => LogoutEndsSession
<1>1. AuthInv /\ SingleSession /\ [Next]_vars => [LogoutEnds]_vars
  BY LogoutStep
<1>2. Spec => [][LogoutEnds]_vars
  BY <1>1, SessionInvariant, PTL DEF Spec
<1> QED
  BY <1>2 DEF LogoutEndsSession, LogoutEnds

----------------------------------------------------------------------------
(* Logins and logouts, counted. *)

\* The places of host h in a list of sessions.
PlacesIn(s, h) == {k \in DOMAIN s : s[k] = h}

LEMMA PlacesFinite ==
  ASSUME NEW S, NEW s \in Seq(S), NEW h
  PROVE  IsFiniteSet(PlacesIn(s, h)) /\ Cardinality(PlacesIn(s, h)) \in Nat
<1>1. IsFiniteSet(DOMAIN s) /\ PlacesIn(s, h) \in SUBSET DOMAIN s
  BY FiniteDomain DEF PlacesIn
<1> QED
  BY <1>1, FS_Subset, FS_CardinalityType

\* A login adds one place to its host and none to another.
LEMMA PlacesAppend ==
  ASSUME NEW S, NEW s \in Seq(S), NEW e \in S, NEW h
  PROVE  Cardinality(PlacesIn(Append(s, e), h))
           = Cardinality(PlacesIn(s, h)) + (IF h = e THEN 1 ELSE 0)
<1>1. /\ DOMAIN Append(s, e) = 1 .. Len(s) + 1 /\ DOMAIN s = 1 .. Len(s) /\ Len(s) \in Nat
      /\ \A i \in 1 .. Len(s) : Append(s, e)[i] = s[i]
      /\ Append(s, e)[Len(s) + 1] = e
  BY AppendList, LenProperties
<1>2. IsFiniteSet(PlacesIn(s, h)) /\ Cardinality(PlacesIn(s, h)) \in Nat
  BY PlacesFinite
<1>3. CASE h = e
  <2>1. PlacesIn(Append(s, e), h) = PlacesIn(s, h) \cup {Len(s) + 1}
    BY <1>1, <1>3 DEF PlacesIn
  <2>2. Len(s) + 1 \notin PlacesIn(s, h)
    BY <1>1 DEF PlacesIn
  <2> QED
    BY <1>2, <1>3, <2>1, <2>2, FS_AddElement
<1>4. CASE h # e
  <2>1. PlacesIn(Append(s, e), h) = PlacesIn(s, h)
    BY <1>1, <1>4 DEF PlacesIn
  <2> QED
    BY <1>2, <1>4, <2>1
<1> QED
  BY <1>3, <1>4

\* A logout takes the place at the head away.
LEMMA PlacesTail ==
  ASSUME NEW S, NEW s \in Seq(S), s # <<>>, NEW h
  PROVE  Cardinality(PlacesIn(Tail(s), h)) + (IF h = Head(s) THEN 1 ELSE 0)
           <= Cardinality(PlacesIn(s, h))
<1> DEFINE T == PlacesIn(Tail(s), h)
           U == PlacesIn(s, h) \ {1}
           f == [k \in T |-> k + 1]
<1>1. /\ Tail(s) \in Seq(S) /\ Head(s) = s[1] /\ 1 \in DOMAIN s
      /\ \A j \in DOMAIN Tail(s) : j + 1 \in DOMAIN s /\ Tail(s)[j] = s[j + 1]
  BY HeadAndTail
<1>2. \A j \in DOMAIN Tail(s) : j \in Nat /\ j # 0
  BY <1>1, LenProperties
<1>3. IsFiniteSet(PlacesIn(s, h)) /\ Cardinality(PlacesIn(s, h)) \in Nat
  BY PlacesFinite
<1>4. IsFiniteSet(U) /\ Cardinality(U) = IF 1 \in PlacesIn(s, h)
                                         THEN Cardinality(PlacesIn(s, h)) - 1
                                         ELSE Cardinality(PlacesIn(s, h))
  BY <1>3, FS_RemoveElement
<1>5. f \in Injection(T, U)
  <2>1. \A k \in T : k \in Nat /\ k + 1 \in U
    BY <1>1, <1>2 DEF PlacesIn
  <2> HIDE DEF T, U
  <2>2. f \in [T -> U] /\ \A a, b \in T : f[a] = f[b] => a = b
    BY <2>1
  <2> QED
    BY <2>2 DEF Injection, IsInjective
<1>6. Cardinality(T) <= Cardinality(U)
  <2> HIDE DEF T, U, f
  <2> QED
    BY <1>4, <1>5, FS_Injection
<1>7. 1 \in PlacesIn(s, h) <=> h = Head(s)
  BY <1>1 DEF PlacesIn
<1>8. Cardinality(T) \in Nat
  BY <1>1, PlacesFinite
<1> HIDE DEF T, U, f
<1> QED
  BY <1>3, <1>4, <1>6, <1>7, <1>8 DEF T

\* The acknowledgements of one kind, from one user and host, for the requests q
\* and the replies r; a handler adds its own connection to them or nothing.
AcksIn(q, r, ack, u, h) == {d \in Conns : r[d] = ack /\ q[d].user = u /\ q[d].host = h}

LEMMA CountsOfAcks ==
  ASSUME NEW q, NEW r, NEW ack, NEW u, NEW h
  PROVE  IsFiniteSet(AcksIn(q, r, ack, u, h)) /\ Cardinality(AcksIn(q, r, ack, u, h)) \in Nat
<1>1. AcksIn(q, r, ack, u, h) \in SUBSET Conns
  BY DEF AcksIn
<1> QED
  BY <1>1, ConnsAssumption, FS_Subset, FS_CardinalityType

\* What OnlyInSession rests on: a host has no more sessions than logins that
\* no logout has answered yet.
Balanced == up =>
  \A u \in Users, h \in Hosts :
    Cardinality(PlacesIn(userStore[u], h)) + Cardinality(AcksIn(req, reply, "ackLogout", u, h))
      <= Cardinality(AcksIn(req, reply, "ackLogin", u, h))

LEMMA BalancedServe ==
  ASSUME AuthInv, Balanced, NEW c \in Conns, Serve(c), up' = TRUE
  PROVE  Balanced'
<1>0. /\ up /\ Handled(c) /\ UNCHANGED req /\ reply[c] = "none" /\ TypeOK
      /\ reply \in [Conns -> Replies \cup {"none"}]
      /\ userStore \in [Users -> Seq(Hosts)]
      /\ req[c].user \in Users /\ req[c].host \in Hosts
  BY ServedReplies, ReqTypes DEF AuthInv, TypeOK
<1> SUFFICES ASSUME NEW u \in Users, NEW h \in Hosts
             PROVE  Cardinality(PlacesIn(userStore'[u], h))
                      + Cardinality(AcksIn(req, reply', "ackLogout", u, h))
                        <= Cardinality(AcksIn(req, reply', "ackLogin", u, h))
  BY <1>0 DEF Balanced, AcksIn
<1> DEFINE n == Cardinality(PlacesIn(userStore[u], h))
           out == Cardinality(AcksIn(req, reply, "ackLogout", u, h))
           in == Cardinality(AcksIn(req, reply, "ackLogin", u, h))
           mine == IF req[c].user = u /\ req[c].host = h THEN 1 ELSE 0
<1>1. n \in Nat /\ out \in Nat /\ in \in Nat /\ n + out <= in
  BY <1>0, PlacesFinite, CountsOfAcks DEF Balanced
<1>2. ASSUME NEW ack, reply' = [reply EXCEPT ![c] = ack]
      PROVE  /\ Cardinality(AcksIn(req, reply', "ackLogout", u, h))
                  = out + (IF ack = "ackLogout" THEN mine ELSE 0)
             /\ Cardinality(AcksIn(req, reply', "ackLogin", u, h))
                  = in + (IF ack = "ackLogin" THEN mine ELSE 0)
  <2>1. ASSUME NEW a, a # "none"
        PROVE  Cardinality(AcksIn(req, reply', a, u, h))
                 = Cardinality(AcksIn(req, reply, a, u, h))
                   + (IF ack = a /\ req[c].user = u /\ req[c].host = h THEN 1 ELSE 0)
    <3>1. /\ IsFiniteSet(AcksIn(req, reply, a, u, h))
          /\ Cardinality(AcksIn(req, reply, a, u, h)) \in Nat
      BY CountsOfAcks
    <3>2. c \notin AcksIn(req, reply, a, u, h)
      BY <1>0, <2>1 DEF AcksIn
    <3>3. CASE ack = a /\ req[c].user = u /\ req[c].host = h
      <4>1. AcksIn(req, reply', a, u, h) = AcksIn(req, reply, a, u, h) \cup {c}
        BY <1>0, <1>2, <3>3 DEF AcksIn
      <4>2. Cardinality(AcksIn(req, reply, a, u, h) \cup {c})
              = Cardinality(AcksIn(req, reply, a, u, h)) + 1
        BY <3>1, <3>2, FS_AddElement
      <4> QED
        BY <3>3, <4>1, <4>2
    <3>4. CASE ~ (ack = a /\ req[c].user = u /\ req[c].host = h)
      <4>1. AcksIn(req, reply', a, u, h) = AcksIn(req, reply, a, u, h)
        BY <1>0, <1>2, <2>1, <3>4 DEF AcksIn
      <4> QED
        BY <3>1, <3>4, <4>1
    <3> QED
      BY <3>3, <3>4
  <2>2. Cardinality(AcksIn(req, reply', "ackLogout", u, h))
          = out + (IF ack = "ackLogout" /\ req[c].user = u /\ req[c].host = h THEN 1 ELSE 0)
    BY <2>1
  <2>3. Cardinality(AcksIn(req, reply', "ackLogin", u, h))
          = in + (IF ack = "ackLogin" /\ req[c].user = u /\ req[c].host = h THEN 1 ELSE 0)
    BY <2>1
  <2> HIDE DEF out, in
  <2> QED
    BY <2>2, <2>3
<1> HIDE DEF n, out, in, mine
<1>3. ASSUME NEW ack, Reply(c, ack) PROVE reply' = [reply EXCEPT ![c] = ack]
  BY <1>3, Answered DEF Reply
<1>4. CASE u # req[c].user
  <2>1. userStore'[u] = userStore[u] /\ mine = 0
    BY <1>0, <1>4, SessionsOfOthers DEF mine
  <2>2. PICK ack : reply' = [reply EXCEPT ![c] = ack]
    BY ServedReplies DEF Sent
  <2>3. /\ Cardinality(AcksIn(req, reply', "ackLogout", u, h)) = out
        /\ Cardinality(AcksIn(req, reply', "ackLogin", u, h)) = in
    <3>1. /\ Cardinality(AcksIn(req, reply', "ackLogout", u, h))
               = out + (IF ack = "ackLogout" THEN mine ELSE 0)
          /\ Cardinality(AcksIn(req, reply', "ackLogin", u, h))
               = in + (IF ack = "ackLogin" THEN mine ELSE 0)
      BY <1>2, <2>2
    <3> QED
      BY <1>1, <2>1, <3>1
  <2> QED
    BY <1>1, <2>1, <2>3 DEF n
<1>5. CASE u = req[c].user /\ handleLogin(c)
  <2>1. PICK valid \in Verdicts :
          /\ userStore' =
               IF ~ valid THEN userStore
               ELSE [userStore EXCEPT ![u] =
                       userLogin(IF isUserLoggedIn(u, req[c].host)
                                 THEN userLogout(userStore[u]) ELSE userStore[u], req[c].host)]
          /\ Reply(c, IF valid THEN "ackLogin" ELSE "failure")
    BY <1>5 DEF handleLogin
  <2>2. CASE ~ valid
    <3>1. userStore'[u] = userStore[u] /\ reply' = [reply EXCEPT ![c] = "failure"]
      BY <1>3, <2>1, <2>2
    <3>2. /\ Cardinality(AcksIn(req, reply', "ackLogout", u, h)) = out
          /\ Cardinality(AcksIn(req, reply', "ackLogin", u, h)) = in
      <4>1. /\ Cardinality(AcksIn(req, reply', "ackLogout", u, h))
                 = out + (IF "failure" = "ackLogout" THEN mine ELSE 0)
            /\ Cardinality(AcksIn(req, reply', "ackLogin", u, h))
                 = in + (IF "failure" = "ackLogin" THEN mine ELSE 0)
        BY <1>2, <3>1
      <4> QED
        BY <1>1, <4>1
    <3> QED
      BY <1>1, <3>1, <3>2 DEF n
  <2>3. CASE valid
    <3> DEFINE old == IF isUserLoggedIn(u, req[c].host) THEN userLogout(userStore[u])
                                                        ELSE userStore[u]
    <3>1. /\ userStore'[u] = Append(old, req[c].host)
          /\ reply' = [reply EXCEPT ![c] = "ackLogin"]
      BY <1>0, <1>3, <2>1, <2>3 DEF userLogin
    <3>2. /\ old \in Seq(Hosts) /\ Cardinality(PlacesIn(old, h)) \in Nat
          /\ Cardinality(PlacesIn(old, h)) <= n
      <4>1. CASE isUserLoggedIn(u, req[c].host)
        <5>1. userStore[u] # <<>> /\ userStore[u] \in Seq(Hosts) /\ old = Tail(userStore[u])
          BY <1>0, <4>1 DEF isUserLoggedIn, userLogout
        <5> HIDE DEF old
        <5>2. /\ old \in Seq(Hosts)
              /\ Cardinality(PlacesIn(old, h)) + (IF h = Head(userStore[u]) THEN 1 ELSE 0) <= n
          BY <5>1, HeadAndTail, PlacesTail DEF n
        <5>3. Cardinality(PlacesIn(old, h)) \in Nat
          BY <5>2, PlacesFinite
        <5> QED
          BY <1>1, <5>2, <5>3
      <4>2. CASE ~ isUserLoggedIn(u, req[c].host)
        BY <1>0, <1>1, <4>2 DEF n
      <4> QED
        BY <4>1, <4>2
    <3> HIDE DEF old
    <3>3. Cardinality(PlacesIn(userStore'[u], h))
            = Cardinality(PlacesIn(old, h)) + (IF h = req[c].host THEN 1 ELSE 0)
      BY <1>0, <3>1, <3>2, PlacesAppend
    <3>4. mine = IF h = req[c].host THEN 1 ELSE 0
      BY <1>5 DEF mine
    <3>5. /\ Cardinality(AcksIn(req, reply', "ackLogout", u, h)) = out
          /\ Cardinality(AcksIn(req, reply', "ackLogin", u, h)) = in + mine
      <4>1. /\ Cardinality(AcksIn(req, reply', "ackLogout", u, h))
                 = out + (IF "ackLogin" = "ackLogout" THEN mine ELSE 0)
            /\ Cardinality(AcksIn(req, reply', "ackLogin", u, h))
                 = in + (IF "ackLogin" = "ackLogin" THEN mine ELSE 0)
        BY <1>2, <3>1
      <4> QED
        BY <1>1, <4>1
    <3> QED
      BY <1>1, <3>2, <3>3, <3>4, <3>5
  <2> QED
    BY <2>2, <2>3
<1>6. CASE u = req[c].user /\ handleLogout(c)
  <2>1. /\ userStore[u] # <<>> /\ Head(userStore[u]) = req[c].host
        /\ userStore'[u] = Tail(userStore[u])
    BY <1>0, <1>6 DEF handleLogout, Admitted, isUserLoggedIn, userLogout
  <2>2. PICK ack : reply' = [reply EXCEPT ![c] = ack] /\ ack # "ackLogin"
    <3>1. PICK valid \in Verdicts : Reply(c, IF valid THEN "ackLogout" ELSE "failure")
      BY <1>6 DEF handleLogout
    <3> QED
      BY <1>3, <3>1
  <2>3. /\ Cardinality(PlacesIn(userStore'[u], h)) + (IF h = req[c].host THEN 1 ELSE 0) <= n
        /\ Cardinality(PlacesIn(userStore'[u], h)) \in Nat
    <3>1. userStore[u] \in Seq(Hosts) /\ Tail(userStore[u]) \in Seq(Hosts)
      BY <1>0, <2>1, HeadAndTail
    <3> QED
      BY <2>1, <3>1, PlacesTail, PlacesFinite DEF n
  <2>4. mine = IF h = req[c].host THEN 1 ELSE 0
    BY <1>6 DEF mine
  <2>5. /\ Cardinality(AcksIn(req, reply', "ackLogout", u, h))
             = out + (IF ack = "ackLogout" THEN mine ELSE 0)
        /\ Cardinality(AcksIn(req, reply', "ackLogin", u, h))
             = in + (IF ack = "ackLogin" THEN mine ELSE 0)
    BY <1>2, <2>2
  <2> QED
    BY <1>1, <2>2, <2>3, <2>4, <2>5
<1>7. CASE ~ handleLogin(c) /\ ~ handleLogout(c)
  <2>1. UNCHANGED userStore
    BY <1>0, <1>7 DEF Handled, handlePost, handleFollow, handleUnfollow, handleFeed,
                      handleFailure
  <2>2. PICK ack : reply' = [reply EXCEPT ![c] = ack] /\ ack \notin {"ackLogin", "ackLogout"}
    <3>1. CASE handlePost(c)
      <4>1. \/ Reply(c, "failure")
            \/ \E w, f : Transmit(c, "ackPost", w, f)
        BY <3>1 DEF handlePost
      <4> QED
        BY <1>3, <4>1, Answered
    <3>2. CASE handleFollow(c) \/ handleUnfollow(c)
      BY <1>3, <3>2 DEF handleFollow, handleUnfollow
    <3>3. CASE handleFeed(c)
      <4>1. \E w, f : Transmit(c, "none", w, f)
        BY <3>3 DEF handleFeed
      <4> QED
        BY <4>1, Answered
    <3>4. CASE handleFailure(c)
      BY <1>3, <3>4 DEF handleFailure
    <3> QED
      BY <1>0, <1>7, <3>1, <3>2, <3>3, <3>4 DEF Handled
  <2>3. /\ Cardinality(AcksIn(req, reply', "ackLogout", u, h))
             = out + (IF ack = "ackLogout" THEN mine ELSE 0)
        /\ Cardinality(AcksIn(req, reply', "ackLogin", u, h))
             = in + (IF ack = "ackLogin" THEN mine ELSE 0)
    BY <1>2, <2>2
  <2> QED
    BY <1>1, <2>1, <2>2, <2>3 DEF n
<1> QED
  BY <1>4, <1>5, <1>6, <1>7

LEMMA BalancedStep == AuthInv /\ Balanced /\ [Next]_vars => Balanced'
<1> SUFFICES ASSUME AuthInv, Balanced, [Next]_vars PROVE Balanced'
  OBVIOUS
<1>0. UNCHANGED req
  BY RequestsStay
<1>1. CASE UNCHANGED <<reply, userStore, up>>
  BY <1>0, <1>1 DEF Balanced, AcksIn
<1>2. ASSUME NEW c \in Conns, Serve(c) PROVE Balanced'
  <2>1. CASE up' = TRUE
    BY <1>2, <2>1, BalancedServe
  <2>2. CASE up' = FALSE
    BY <2>2 DEF Balanced
  <2> QED
    BY <1>2, <2>1, <2>2, ServedReplies
<1> QED
  BY <1>1, <1>2, OnlyServeWrites

LEMMA BalancedInit == Init => Balanced
<1> SUFFICES ASSUME Init, NEW u \in Users, NEW h \in Hosts
             PROVE  Cardinality(PlacesIn(userStore[u], h))
                      + Cardinality(AcksIn(req, reply, "ackLogout", u, h))
                        <= Cardinality(AcksIn(req, reply, "ackLogin", u, h))
  BY DEF Balanced
<1>1. PlacesIn(userStore[u], h) = {}
  BY DEF Init, PlacesIn
<1>2. AcksIn(req, reply, "ackLogout", u, h) = {} /\ AcksIn(req, reply, "ackLogin", u, h) = {}
  BY DEF Init, AcksIn
<1> QED
  BY <1>1, <1>2, FS_EmptySet

InSession ==
  \A c \in Conns :
    c \in unread /\ c \notin unread' /\ req[c].type # "login" /\
    (reply'[c] \in Acks \/ listeners' # listeners) =>
      Cardinality(Acknowledged("ackLogout", req[c].user, req[c].host))
        < Cardinality(Acknowledged("ackLogin", req[c].user, req[c].host))

LEMMA InSessionStep ==
  ASSUME AuthInv, Balanced, [Next]_vars
  PROVE  InSession
<1> SUFFICES ASSUME NEW c \in Conns, c \in unread, c \notin unread', req[c].type # "login",
                    reply'[c] \in Acks \/ listeners' # listeners
             PROVE  Cardinality(Acknowledged("ackLogout", req[c].user, req[c].host))
                      < Cardinality(Acknowledged("ackLogin", req[c].user, req[c].host))
  BY DEF InSession
<1>1. Serve(c)
  <2>1. ASSUME NEW d \in Conns, Serve(d) PROVE d = c
    BY <2>1 DEF Serve, Receive
  <2>2. ASSUME NEW d \in Conns, Connect(d) \/ Close(d) \/ ReceiveError(d) \/ Terminate(d)
        PROVE  FALSE
    BY <2>2 DEF Connect, Close, ReceiveError, Terminate, server
  <2>3. ASSUME Accept \/ UNCHANGED vars PROVE FALSE
    BY <2>3 DEF Accept, vars, net, server
  <2> QED
    BY <2>1, <2>2, <2>3 DEF Next, ServerStep
<1>2. /\ up /\ Handled(c) /\ TypeOK /\ reply[c] = "none"
      /\ reply \in [Conns -> Replies \cup {"none"}]
      /\ up' = TRUE \/ reply' = reply
  BY <1>1, ServedReplies DEF AuthInv, TypeOK
<1>3. ~ handleFailure(c)
  <2>1. ASSUME handleFailure(c) PROVE listeners' = listeners /\ reply'[c] \in {"none", "failure"}
    <3>1. listeners' = listeners /\ Reply(c, "failure")
      BY <2>1 DEF handleFailure
    <3>2. up' = TRUE => reply' = [reply EXCEPT ![c] = "failure"]
      BY <3>1, Answered DEF Reply
    <3> QED
      BY <1>2, <3>1, <3>2
  <2> QED
    BY <2>1 DEF Acks
<1>4. Admitted(c)
  BY <1>2, <1>3 DEF Handled, handleLogin, handleLogout, handlePost, handleFollow,
                    handleUnfollow, handleFeed
<1>5. /\ req[c].user \in Users /\ req[c].host \in Hosts
      /\ userStore[req[c].user] \in Seq(Hosts)
      /\ userStore[req[c].user] # <<>> /\ Head(userStore[req[c].user]) = req[c].host
  BY <1>2, <1>4, ReqTypes DEF TypeOK, Admitted, isUserLoggedIn
<1>6. 1 \in PlacesIn(userStore[req[c].user], req[c].host)
  BY <1>5, HeadAndTail DEF PlacesIn
<1>7. Cardinality(PlacesIn(userStore[req[c].user], req[c].host)) \in Nat \ {0}
  BY <1>5, <1>6, PlacesFinite, FS_EmptySet
<1>8. /\ Cardinality(AcksIn(req, reply, "ackLogout", req[c].user, req[c].host)) \in Nat
      /\ Cardinality(AcksIn(req, reply, "ackLogin", req[c].user, req[c].host)) \in Nat
  BY CountsOfAcks
<1> QED
  BY <1>2, <1>5, <1>7, <1>8 DEF Balanced, Acknowledged, AcksIn

\* Nothing is acknowledged and no feed registered for a host that has logged
\* out as often as it has logged in, with any number of hosts (main's test
\* and the sessions it reads).
THEOREM RequestsAreInSession == Spec => OnlyInSession
<1>1. Spec => []AuthInv
  BY SessionInvariant, PTL
<1>2. Spec => []Balanced
  BY <1>1, BalancedInit, BalancedStep, PTL DEF Spec
<1>3. AuthInv /\ Balanced /\ [Next]_vars => [InSession]_vars
  BY InSessionStep
<1>4. Spec => [][InSession]_vars
  BY <1>1, <1>2, <1>3, PTL DEF Spec
<1> QED
  BY <1>4 DEF OnlyInSession, InSession

----------------------------------------------------------------------------
(* Deliveries. *)

\* A call of the follower repository keeps its lists free of duplicates and,
\* when no failure is ignored, the idols' lists at least as full as the
\* followers'.
LEMMA FollowCalls ==
  ASSUME Follows!TypeOK, Follows!NoDuplicates, NEW i \in Users, NEW f \in Users, NEW rv,
         Follows!addFollower(i, f, rv) \/ Follows!removeFollower(i, f, rv)
  PROVE  /\ Follows!NoDuplicates'
         /\ "lost" \notin Allocs =>
              /\ Follows!DumpImpliesPush => Follows!DumpImpliesPush'
              /\ Follows!addFollower(i, f, rv) => Follows!IdolEdges \subseteq Follows!IdolEdges'
<1>1. FollowsProofs!IInv
  BY DEF FollowsProofs!IInv, FollowsProofs!TypeOK, Follows!TypeOK,
         FollowsProofs!NoDuplicates, Follows!NoDuplicates,
         FollowsProofs!IsInjective, Follows!IsInjective
<1>2. /\ Follows!addFollower(i, f, rv) => FollowsProofs!addFollower(i, f, rv)
      /\ Follows!removeFollower(i, f, rv) => FollowsProofs!removeFollower(i, f, rv)
  BY DEF FollowsProofs!addFollower, Follows!addFollower,
         FollowsProofs!addIdolFollower, Follows!addIdolFollower,
         FollowsProofs!addFollowerIdol, Follows!addFollowerIdol,
         FollowsProofs!removeFollower, Follows!removeFollower,
         FollowsProofs!removeIdolFollower, Follows!removeIdolFollower,
         FollowsProofs!removeFollowerIdol, Follows!removeFollowerIdol,
         FollowsProofs!FirstAt, Follows!FirstAt, FollowsProofs!Contains, Follows!Contains,
         FollowsProofs!RemoveAt, Follows!RemoveAt
<1>3. /\ Follows!IdolEdges = FollowsProofs!IdolEdges
      /\ Follows!FollowerEdges = FollowsProofs!FollowerEdges
  BY DEF Follows!IdolEdges, FollowsProofs!IdolEdges, Follows!FollowerEdges,
         FollowsProofs!FollowerEdges, FollowsProofs!Contains, Follows!Contains
<1>4. /\ Follows!IdolEdges' = FollowsProofs!IdolEdges'
      /\ Follows!FollowerEdges' = FollowsProofs!FollowerEdges'
  BY DEF Follows!IdolEdges, FollowsProofs!IdolEdges, Follows!FollowerEdges,
         FollowsProofs!FollowerEdges, FollowsProofs!Contains, Follows!Contains
<1>5. CASE Follows!addFollower(i, f, rv)
  <2>1. FollowsProofs!IInv'
    BY <1>1, <1>2, <1>5, FollowsProofs!AddFollowerEdges, AllocsAssumption
  <2>2. ASSUME "lost" \notin Allocs
        PROVE  /\ FollowsProofs!IdolEdges \subseteq FollowsProofs!IdolEdges'
               /\ \/ FollowsProofs!FollowerEdges' = FollowsProofs!FollowerEdges
                  \/ /\ FollowsProofs!FollowerEdges' = FollowsProofs!FollowerEdges \cup {<<i, f>>}
                     /\ FollowsProofs!IdolEdges' = FollowsProofs!IdolEdges \cup {<<i, f>>}
    <3>1. FollowsProofs!NoLoss
      BY <2>2 DEF FollowsProofs!NoLoss
    <3> QED
      BY <1>1, <1>2, <1>5, <3>1, FollowsProofs!AddFollowerEdges, AllocsAssumption
  <2>3. ASSUME "lost" \notin Allocs
        PROVE  /\ Follows!IdolEdges \subseteq Follows!IdolEdges'
               /\ Follows!DumpImpliesPush => Follows!DumpImpliesPush'
    BY <1>3, <1>4, <2>2, <2>3 DEF Follows!DumpImpliesPush
  <2> QED
    BY <2>1, <2>3 DEF FollowsProofs!IInv, FollowsProofs!NoDuplicates, Follows!NoDuplicates,
                      FollowsProofs!IsInjective, Follows!IsInjective
<1>6. CASE Follows!removeFollower(i, f, rv)
  <2>1. /\ FollowsProofs!IInv'
        /\ FollowsProofs!IdolEdges' = FollowsProofs!IdolEdges \ {<<i, f>>}
        /\ FollowsProofs!FollowerEdges' = FollowsProofs!FollowerEdges \ {<<i, f>>}
    BY <1>1, <1>2, <1>6, FollowsProofs!RemoveFollowerEdges, AllocsAssumption
  <2>2. Follows!DumpImpliesPush => Follows!DumpImpliesPush'
    BY <1>3, <1>4, <2>1 DEF Follows!DumpImpliesPush
  <2>3. ASSUME Follows!addFollower(i, f, rv), "lost" \notin Allocs
        PROVE  Follows!IdolEdges \subseteq Follows!IdolEdges'
    <3>1. FollowsProofs!NoLoss
      BY <2>3 DEF FollowsProofs!NoLoss
    <3>2. FollowsProofs!IdolEdges \subseteq FollowsProofs!IdolEdges'
      BY <1>1, <1>2, <2>3, <3>1, FollowsProofs!AddFollowerEdges, AllocsAssumption
    <3> QED
      BY <1>3, <1>4, <3>2
  <2> QED
    BY <2>1, <2>2, <2>3 DEF FollowsProofs!IInv, FollowsProofs!NoDuplicates, Follows!NoDuplicates,
                      FollowsProofs!IsInjective, Follows!IsInjective
<1> QED
  BY <1>5, <1>6

\* The maps change in a follow and an unfollow and nowhere else.
LEMMA MapsOfStep ==
  ASSUME TypeOK, [Next]_vars
  PROVE  \/ UNCHANGED <<idolMap, followerMap>>
         \/ \E c \in Conns : \E rv :
              /\ req[c].target \in Users /\ req[c].user \in Users
              /\ \/ Follows!addFollower(req[c].target, req[c].user, rv)
                 \/ Follows!removeFollower(req[c].target, req[c].user, rv)
<1>1. ASSUME NEW c \in Conns, Serve(c)
      PROVE  \/ UNCHANGED <<idolMap, followerMap>>
             \/ \E rv : \/ Follows!addFollower(req[c].target, req[c].user, rv)
                        \/ Follows!removeFollower(req[c].target, req[c].user, rv)
  BY <1>1 DEF Serve, handleLogin, handleLogout, handlePost, handleFollow,
              handleUnfollow, handleFeed, handleFailure
<1>2. ASSUME NEW c \in Conns, Connect(c) \/ Close(c) \/ ReceiveError(c) \/ Terminate(c)
      PROVE  UNCHANGED <<idolMap, followerMap>>
  BY <1>2 DEF Connect, Close, ReceiveError, Terminate, server
<1>3. ASSUME Accept \/ UNCHANGED vars PROVE UNCHANGED <<idolMap, followerMap>>
  BY <1>3 DEF Accept, vars, net, server
<1> QED
  BY <1>1, <1>2, <1>3, ReqTypes DEF Next, ServerStep

LEMMA MapsStep ==
  ASSUME TypeOK, Follows!NoDuplicates, [Next]_vars
  PROVE  /\ Follows!NoDuplicates'
         /\ "lost" \notin Allocs /\ Follows!DumpImpliesPush => Follows!DumpImpliesPush'
<1>1. CASE UNCHANGED <<idolMap, followerMap>>
  BY <1>1 DEF Follows!NoDuplicates, Follows!DumpImpliesPush,
              Follows!IdolEdges, Follows!FollowerEdges
<1>2. ASSUME NEW i \in Users, NEW f \in Users, NEW rv,
             Follows!addFollower(i, f, rv) \/ Follows!removeFollower(i, f, rv)
      PROVE  /\ Follows!NoDuplicates'
             /\ "lost" \notin Allocs /\ Follows!DumpImpliesPush => Follows!DumpImpliesPush'
  <2>1. Follows!TypeOK
    BY DEF TypeOK
  <2> QED
    BY <1>2, <2>1, FollowCalls
<1> QED
  BY <1>1, <1>2, MapsOfStep

LEMMA MapsInit == Init => Follows!NoDuplicates /\ Follows!DumpImpliesPush
  BY DEF Follows!DumpImpliesPush, Init, Follows!initFollowerRepository, Follows!NoDuplicates,
         Follows!IsInjective, Follows!IdolEdges, Follows!FollowerEdges, Follows!Contains

\* What the sends of a handler do to links and copies.
LEMMA TransmitLinks ==
  ASSUME TypeOK, NEW c, NEW ack, NEW writes, NEW feed, Transmit(c, ack, writes, feed),
         NEW d \in Conns
  PROVE  /\ link[d] \in {"none", "open"} => link'[d] = link[d]
         /\ \A p \in Conns :
              \/ copies'[d][p] = copies[d][p]
              \/ /\ link[d] = "open" /\ reply' = [reply EXCEPT ![c] = ack]
                 /\ copies'[d][p] = copies[d][p] + feed[d][p]
<1>1. CASE UNCHANGED <<link, copies, reply>> /\ up' = FALSE
  BY <1>1
<1>2. CASE /\ \E reset \in SUBSET {e \in Conns : link[e] = "fin" /\ writes[e] > 0} :
                link' = [e \in Conns |->
                           IF e \in reset \/ (link[e] = "rst" /\ writes[e] > 0)
                           THEN "broken" ELSE link[e]]
           /\ copies' = [e \in Conns |-> [p \in Conns |->
                           IF link[e] = "open" THEN copies[e][p] + feed[e][p]
                                               ELSE copies[e][p]]]
           /\ reply' = [reply EXCEPT ![c] = ack]
  <2>1. PICK reset \in SUBSET {e \in Conns : link[e] = "fin" /\ writes[e] > 0} :
          link' = [e \in Conns |->
                     IF e \in reset \/ (link[e] = "rst" /\ writes[e] > 0)
                     THEN "broken" ELSE link[e]]
    BY <1>2
  <2>2. link[d] \in {"none", "open"} => link'[d] = link[d]
    BY <2>1
  <2>3. \A p \in Conns : copies'[d][p] = IF link[d] = "open" THEN copies[d][p] + feed[d][p]
                                                            ELSE copies[d][p]
    BY <1>2
  <2> QED
    BY <1>2, <2>2, <2>3
<1> QED
  BY <1>1, <1>2 DEF Transmit

\* A handler that survives its sends delivers to an open peer all it sends.
LEMMA OpenPeersTakeAll ==
  ASSUME NEW c, NEW ack, NEW writes, NEW feed, Transmit(c, ack, writes, feed),
         up' = TRUE, NEW d \in Conns, link[d] = "open", NEW p \in Conns
  PROVE  copies'[d][p] = copies[d][p] + feed[d][p]
<1>1. copies' = [e \in Conns |-> [q \in Conns |->
                   IF link[e] = "open" THEN copies[e][q] + feed[e][q]
                                       ELSE copies[e][q]]]
  BY DEF Transmit
<1> QED
  BY <1>1

DumpFeed(c) ==
  [d \in Conns |-> [p \in Conns |->
     IF d = c THEN Cardinality(DumpOf(req[c].user, p)) ELSE 0]]

\* The three kinds of sends.
LEMMA HandlerSends ==
  ASSUME NEW c \in Conns, Handled(c)
  PROVE  \/ UNCHANGED listeners /\ \E ack : Reply(c, ack)
         \/ /\ handlePost(c) /\ UNCHANGED listeners
            /\ \E writes : Transmit(c, "ackPost", writes, pushFeedMessage(req[c].user, c))
         \/ /\ handleFeed(c)
            /\ \E writes : Transmit(c, "none", writes, DumpFeed(c))
<1>1. CASE handlePost(c)
  BY <1>1 DEF handlePost
<1>2. CASE handleFeed(c)
  BY <1>2 DEF handleFeed, DumpFeed
<1>3. CASE ~ handlePost(c) /\ ~ handleFeed(c)
  BY <1>3 DEF Handled, handleLogin, handleLogout, handleFollow, handleUnfollow, handleFailure
<1> QED
  BY <1>1, <1>2, <1>3

\* A handler changes no link but that of a peer that has closed.
LEMMA LinksSettle ==
  ASSUME TypeOK, NEW e \in Conns, Handled(e), NEW d \in Conns, link'[d] # link[d]
  PROVE  link[d] \in {"fin", "rst"} /\ link'[d] = "broken"
<1>1. PICK ack, writes, feed : Transmit(e, ack, writes, feed)
  BY HandlerSends DEF Reply
<1>2. PICK reset \in SUBSET {f \in Conns : link[f] = "fin" /\ writes[f] > 0} :
        link' = [f \in Conns |->
                   IF f \in reset \/ (link[f] = "rst" /\ writes[f] > 0)
                   THEN "broken" ELSE link[f]]
  BY <1>1 DEF Transmit
<1> QED
  BY <1>2

\* A step brings no connection back.
LEMMA LinksStep ==
  ASSUME TableInv, [Next]_vars, NEW d \in Conns
  PROVE  /\ link[d] = "dead" => link'[d] = "dead"
         /\ link'[d] = "none" => link[d] = "none"
         /\ link'[d] \in {"none", "open"} => link[d] \in {"none", "open"}
         /\ link'[d] = "open" /\ fdOf[d] # NoSock => link[d] = "open"
<1>0. TypeOK /\ link \in [Conns -> Links]
  BY DEF TableInv, TypeOK
<1>1. ASSUME NEW c \in Conns, Connect(c)
      PROVE  \/ link'[d] = link[d]
             \/ link[d] = "none" /\ fdOf[d] = NoSock /\ link'[d] = "open"
  BY <1>0, <1>1 DEF Connect, TableInv, BacklogSound
<1>2. ASSUME NEW c \in Conns, Close(c)
      PROVE  \/ link'[d] = link[d]
             \/ link[d] = "open" /\ link'[d] \in {"fin", "rst"}
  BY <1>0, <1>2 DEF Close
<1>3. ASSUME NEW c \in Conns, ReceiveError(c) \/ Terminate(c)
      PROVE  \/ link'[d] = link[d]
             \/ link[d] \in {"fin", "rst", "broken"} /\ link'[d] \in {"broken", "dead"}
  BY <1>0, <1>3 DEF ReceiveError, Terminate
<1>4. ASSUME NEW c \in Conns, Serve(c)
      PROVE  link'[d] = link[d] \/ (link[d] \in {"fin", "rst"} /\ link'[d] = "broken")
  BY <1>0, <1>4, ServedIsSelected, LinksSettle
<1>5. ASSUME Accept \/ UNCHANGED vars PROVE link'[d] = link[d]
  BY <1>5 DEF Accept, vars, net
<1> QED
  BY <1>1, <1>2, <1>3, <1>4, <1>5 DEF Next, ServerStep

LEMMA FeedsLivedBefore ==
  ASSUME TableInv, [Next]_vars, FeedsLive'
  PROVE  FeedsLive
  BY LinksStep, RequestsStay DEF FeedsLive

\* d is the feed the listener l was made for.
Owner(d, l) ==
  /\ req[d].type = "feed" /\ d \notin unread
  /\ req[d].user = l.userID /\ req[d].host = l.clientAddr
  /\ fdOf[d] = l.clientSock \/ link[d] = "dead"

Owned == \A k \in DOMAIN listeners : \E d \in Conns : Owner(d, listeners[k])

\* No descriptor has two listeners.
OneEach ==
  \A j, k \in DOMAIN listeners :
    listeners[j].clientSock = listeners[k].clientSock => j = k

\* c is the feed behind the listener l.
FeedOf(c, l) ==
  /\ req[c].type = "feed" /\ c \notin unread
  /\ fdOf[c] = l.clientSock /\ req[c].user = l.userID /\ req[c].host = l.clientAddr

\* Behind every listener there is a feed of its own.
ListenersSound ==
  /\ \A k \in DOMAIN listeners : \E c \in Conns : FeedOf(c, listeners[k])
  /\ OneEach

LEMMA OwnersListen == Owned /\ OneEach /\ FeedsLive => ListenersSound
  BY DEF Owned, Owner, FeedsLive, ListenersSound, FeedOf

\* A step that leaves the owners of the listeners alone and adds no listener.
LEMMA ListenersKept ==
  ASSUME TypeOK, Owned, UNCHANGED req,
         \A d \in Conns, s \in Socks :
           /\ req[d].type = "feed" /\ d \notin unread
           /\ fdOf[d] = s \/ link[d] = "dead"
           => d \notin unread' /\ (fdOf'[d] = s \/ link'[d] = "dead"),
         \/ UNCHANGED listeners
         \/ \E k \in DOMAIN listeners : listeners' = RemoveAt(listeners, k)
  PROVE  Owned' /\ (OneEach => OneEach')
<1>1. /\ listeners \in Seq(Handle) /\ DOMAIN listeners = 1 .. Len(listeners)
      /\ Len(listeners) \in Nat
      /\ \A k \in DOMAIN listeners : listeners[k].clientSock \in Socks
  <2>1. listeners \in Seq(Handle)
    BY DEF TypeOK
  <2>2. /\ DOMAIN listeners = 1 .. Len(listeners) /\ Len(listeners) \in Nat
        /\ \A k \in 1 .. Len(listeners) : listeners[k] \in Handle
    BY <2>1, LenProperties, ElementOfSeq
  <2> QED
    BY <2>1, <2>2 DEF Handle
<1>2. ASSUME NEW k \in DOMAIN listeners
      PROVE  \E d \in Conns :
               /\ req[d].type = "feed" /\ d \notin unread'
               /\ req[d].user = listeners[k].userID /\ req[d].host = listeners[k].clientAddr
               /\ fdOf'[d] = listeners[k].clientSock \/ link'[d] = "dead"
  <2>1. PICK d \in Conns : Owner(d, listeners[k])
    BY DEF Owned
  <2>2. d \notin unread' /\ (fdOf'[d] = listeners[k].clientSock \/ link'[d] = "dead")
    BY <1>1, <2>1 DEF Owner
  <2> QED
    BY <2>1, <2>2 DEF Owner
<1>3. /\ \A k \in DOMAIN listeners' : \E j \in DOMAIN listeners : listeners'[k] = listeners[j]
      /\ OneEach => OneEach'
  <2>1. CASE UNCHANGED listeners
    BY <2>1 DEF OneEach
  <2>2. ASSUME NEW i \in DOMAIN listeners, listeners' = RemoveAt(listeners, i)
        PROVE  /\ \A k \in DOMAIN listeners' :
                    \E j \in DOMAIN listeners : listeners'[k] = listeners[j]
               /\ OneEach => OneEach'
    <3> DEFINE was(k) == IF k < i THEN k ELSE k + 1
    <3>1. /\ DOMAIN listeners' = 1 .. Len(listeners) - 1
          /\ \A k \in 1 .. Len(listeners) - 1 : listeners'[k] = listeners[was(k)]
      BY <1>1, <2>2, RemoveAtList
    <3>2. /\ \A k \in 1 .. Len(listeners) - 1 : was(k) \in DOMAIN listeners
          /\ \A j, k \in 1 .. Len(listeners) - 1 : was(j) = was(k) => j = k
      BY <1>1
    <3> HIDE DEF was
    <3>3. ASSUME OneEach, NEW j \in DOMAIN listeners', NEW k \in DOMAIN listeners',
                 listeners'[j].clientSock = listeners'[k].clientSock
          PROVE  j = k
      <4>1. listeners[was(j)].clientSock = listeners[was(k)].clientSock
        BY <3>1, <3>3
      <4>2. was(j) = was(k)
        BY <3>1, <3>2, <3>3, <4>1 DEF OneEach
      <4> QED
        BY <3>1, <3>2, <4>2
    <3>4. OneEach => OneEach'
      BY <3>3 DEF OneEach
    <3> QED
      BY <3>1, <3>2, <3>4
  <2> QED
    BY <2>1, <2>2
<1>4. Owned'
  BY <1>2, <1>3 DEF Owned, Owner
<1> QED
  BY <1>3, <1>4

\* handleFeed registers a connection that has no listener yet.
LEMMA ListenersFeed ==
  ASSUME TableInv, Owned, NEW c \in Conns, Serve(c), handleFeed(c)
  PROVE  Owned' /\ (OneEach /\ FeedsLive => OneEach')
<1>0. /\ TypeOK /\ up /\ c \in unread /\ fdOf[c] \in Socks /\ Handled(c)
      /\ UNCHANGED <<req, fdOf>> /\ unread' = unread \ {c}
  BY ServedIsSelected DEF TableInv, Serve, Receive
<1> DEFINE l == [userID |-> req[c].user, clientSock |-> fdOf[c], clientAddr |-> req[c].host]
<1>1. req[c].type = "feed" /\ listeners' = Append(listeners, l)
  BY DEF handleFeed, addListener
<1>2. \A d \in Conns : link[d] = "dead" => link'[d] = "dead"
  BY <1>0, LinksSettle
<1>3. /\ listeners \in Seq(Handle) /\ l \in Handle
      /\ DOMAIN listeners = 1 .. Len(listeners) /\ Len(listeners) \in Nat
  <2>1. listeners \in Seq(Handle)
    BY <1>0 DEF TypeOK
  <2>2. l \in Handle
    BY <1>0, ReqTypes DEF Handle
  <2> QED
    BY <2>1, <2>2, LenProperties
<1>4. l.userID = req[c].user /\ l.clientSock = fdOf[c] /\ l.clientAddr = req[c].host
  OBVIOUS
<1> HIDE DEF l
<1>5. /\ DOMAIN listeners' = 1 .. Len(listeners) + 1
      /\ \A k \in 1 .. Len(listeners) : listeners'[k] = listeners[k]
      /\ listeners'[Len(listeners) + 1] = l
  BY <1>1, <1>3, AppendList
<1>6. Owned'
  <2>0. PICK n \in Nat : n = Len(listeners) + 1
    BY <1>3
  <2>1. ASSUME NEW k \in DOMAIN listeners PROVE \E d \in Conns : Owner(d, listeners[k])'
    <3>1. PICK d \in Conns : Owner(d, listeners[k])
      BY DEF Owned
    <3> QED
      BY <1>0, <1>2, <1>3, <1>5, <2>1, <3>1 DEF Owner
  <2>2. Owner(c, listeners[n])'
    BY <1>0, <1>1, <1>4, <1>5, <2>0 DEF Owner
  <2>3. \A k \in DOMAIN listeners' : k \in DOMAIN listeners \/ k = n
    BY <1>3, <1>5, <2>0
  <2> QED
    BY <2>1, <2>2, <2>3 DEF Owned
<1>7. ASSUME OneEach, FeedsLive PROVE OneEach'
  <2>1. ASSUME NEW k \in DOMAIN listeners PROVE listeners[k].clientSock # fdOf[c]
    <3>1. PICK d \in Conns : Owner(d, listeners[k])
      BY DEF Owned
    <3>2. fdOf[d] = listeners[k].clientSock /\ d # c
      BY <1>0, <1>7, <3>1 DEF Owner, FeedsLive
    <3>3. fdOf[c] # NoSock
      BY <1>0, NoSockIsNone
    <3> QED
      BY <3>2, <3>3 DEF TableInv, FdTableSound
  <2> SUFFICES ASSUME NEW j \in DOMAIN listeners', NEW k \in DOMAIN listeners',
                      listeners'[j].clientSock = listeners'[k].clientSock
               PROVE  j = k
    BY DEF OneEach
  <2>2. CASE j \in DOMAIN listeners /\ k \in DOMAIN listeners
    BY <1>3, <1>5, <1>7, <2>2 DEF OneEach
  <2>3. ASSUME NEW a \in DOMAIN listeners PROVE listeners'[a].clientSock # fdOf[c]
    BY <1>3, <1>5, <2>1
  <2>4. listeners'[Len(listeners) + 1].clientSock = fdOf[c]
    BY <1>4, <1>5
  <2> QED
    BY <1>3, <1>5, <2>2, <2>3, <2>4
<1> QED
  BY <1>6, <1>7

\* Every listener keeps its owner, and a descriptor has one listener only until
\* the first feed has ended.
LEMMA ListenersStep ==
  ASSUME TableInv, Owned, [Next]_vars
  PROVE  Owned' /\ (OneEach /\ FeedsLive => OneEach')
<1>0. /\ TypeOK /\ fdOf \in [Conns -> Socks \cup {NoSock}] /\ NoSock \notin Socks
      /\ UNCHANGED req /\ \A d \in Conns : link[d] = "dead" => link'[d] = "dead"
  BY LinksStep, RequestsStay, NoSockIsNone DEF TableInv, TypeOK
<1>1. ASSUME NEW c \in Conns, Connect(c) PROVE Owned' /\ (OneEach => OneEach')
  <2>1. /\ link[c] = "none" /\ fdOf[c] = NoSock
        /\ unread' = unread \cup {c} /\ UNCHANGED <<fdOf, listeners>>
    BY <1>1 DEF Connect, server, TableInv, BacklogSound
  <2> QED
    BY <1>0, <2>1, ListenersKept
<1>2. ASSUME NEW c \in Conns, Close(c) \/ ReceiveError(c)
      PROVE  Owned' /\ (OneEach => OneEach')
  <2>1. UNCHANGED <<fdOf, unread, listeners>>
    BY <1>2 DEF Close, ReceiveError, server
  <2> QED
    BY <1>0, <2>1, ListenersKept
<1>3. ASSUME Accept PROVE Owned' /\ (OneEach => OneEach')
  <2>1. /\ backlog # <<>> /\ UNCHANGED <<unread, listeners>>
        /\ \E s : fdOf' = [fdOf EXCEPT ![Head(backlog)] = s]
    BY <1>3 DEF Accept
  <2>2. fdOf[Head(backlog)] = NoSock
    <3>1. backlog \in Seq(Conns)
      BY <1>0 DEF TypeOK
    <3>2. 1 \in DOMAIN backlog /\ Head(backlog) = backlog[1]
      BY <2>1, <3>1, HeadAndTail
    <3> QED
      BY <3>2 DEF TableInv, BacklogSound
  <2>3. \A d \in Conns : fdOf[d] # NoSock => fdOf'[d] = fdOf[d]
    BY <1>0, <2>1, <2>2
  <2> QED
    BY <1>0, <2>1, <2>3, ListenersKept
<1>4. ASSUME NEW c \in Conns, Terminate(c) PROVE Owned' /\ (OneEach => OneEach')
  <2>1. /\ link' = [link EXCEPT ![c] = "dead"] /\ fdOf' = [fdOf EXCEPT ![c] = NoSock]
        /\ UNCHANGED unread
    BY <1>4 DEF Terminate
  <2>2. link'[c] = "dead" /\ \A d \in Conns : d # c => fdOf'[d] = fdOf[d]
    BY <1>0, <2>1 DEF TypeOK
  <2>3. PICK h : removeListener(h)
    BY <1>4 DEF Terminate
  <2>4. \/ UNCHANGED listeners
        \/ \E k \in DOMAIN listeners : listeners' = RemoveAt(listeners, k)
    BY <2>3 DEF removeListener
  <2> QED
    BY <1>0, <2>1, <2>2, <2>4, ListenersKept
<1>5. ASSUME NEW c \in Conns, Serve(c) PROVE Owned' /\ (OneEach /\ FeedsLive => OneEach')
  <2>1. /\ Handled(c) /\ UNCHANGED fdOf /\ unread' = unread \ {c}
    BY <1>0, <1>5, ServedIsSelected DEF Serve, Receive
  <2>2. CASE handleFeed(c)
    BY <1>5, <2>2, ListenersFeed
  <2>3. CASE ~ handleFeed(c)
    <3>1. UNCHANGED listeners
      BY <2>1, <2>3, HandlerSends
    <3> QED
      BY <1>0, <2>1, <3>1, ListenersKept
  <2> QED
    BY <2>2, <2>3
<1>6. CASE UNCHANGED vars
  <2>1. UNCHANGED <<unread, fdOf, listeners>>
    BY <1>6 DEF vars, net, server
  <2> QED
    BY <1>0, <2>1, ListenersKept
<1> QED
  BY <1>1, <1>2, <1>3, <1>4, <1>5, <1>6 DEF Next, ServerStep

LEMMA ListenersInit == Init => Owned /\ OneEach
  BY DEF Init, Owned, OneEach

LEMMA AtMostOne ==
  ASSUME NEW S, \A x, y \in S : x = y
  PROVE  Cardinality(S) \in {0, 1} /\ (Cardinality(S) = 1 <=> S # {})
<1>1. CASE S = {}
  BY <1>1, FS_EmptySet
<1>2. ASSUME NEW x \in S PROVE Cardinality(S) = 1
  <2>1. S = {x}
    BY <1>2
  <2> QED
    BY <2>1, FS_Singleton
<1> QED
  BY <1>1, <1>2

\* A descriptor gets one push of a post at most, and only as the feed of a
\* follower that is logged in.
LEMMA PushesOnce ==
  ASSUME TableInv, Follows!NoDuplicates, ListenersSound,
         NEW idol \in Users, NEW d \in Conns, fdOf[d] # NoSock
  PROVE  /\ Pushes(idol, fdOf[d]) \in {0, 1}
         /\ Pushes(idol, fdOf[d]) = 1 =>
              /\ req[d].type = "feed" /\ d \notin unread
              /\ isUserLoggedIn(req[d].user, req[d].host)
              /\ <<idol, req[d].user>> \in Follows!IdolEdges
<1> DEFINE fs == idolMap[idol]
           Meant(ab) == /\ listeners[ab[2]].userID = fs[ab[1]]
                        /\ listeners[ab[2]].clientSock = fdOf[d]
                        /\ isUserLoggedIn(listeners[ab[2]].userID, listeners[ab[2]].clientAddr)
           S == {ab \in (DOMAIN fs) \X (DOMAIN listeners) : Meant(ab)}
<1>0. /\ fs \in Seq(Users) /\ DOMAIN fs = 1 .. Len(fs)
      /\ \A a, b \in DOMAIN fs : fs[a] = fs[b] => a = b
      /\ \A a \in DOMAIN fs : fs[a] \in Users
  <2>1. fs \in Seq(Users)
    BY DEF TableInv, TypeOK, Follows!TypeOK
  <2>2. \A a, b \in DOMAIN fs : fs[a] = fs[b] => a = b
    BY DEF Follows!NoDuplicates, Follows!IsInjective
  <2> QED
    BY <2>1, <2>2, LenProperties, ElementOfSeq
<1>1. Pushes(idol, fdOf[d]) = Cardinality(S)
  BY DEF Pushes, Follows!getIdolFollowers
<1>2. \A x, y \in S : x = y
  <2> SUFFICES ASSUME NEW x \in S, NEW y \in S PROVE x = y
    OBVIOUS
  <2>1. /\ x = <<x[1], x[2]>> /\ y = <<y[1], y[2]>>
        /\ x[1] \in DOMAIN fs /\ y[1] \in DOMAIN fs
        /\ x[2] \in DOMAIN listeners /\ y[2] \in DOMAIN listeners
    OBVIOUS
  <2>2. Meant(x) /\ Meant(y)
    OBVIOUS
  <2> HIDE DEF S, fs
  <2>3. x[2] = y[2]
    BY <2>1, <2>2 DEF ListenersSound, OneEach
  <2>4. x[1] = y[1]
    BY <1>0, <2>1, <2>2, <2>3
  <2> QED
    BY <2>1, <2>3, <2>4
<1>3. ASSUME NEW ab \in S
      PROVE  /\ req[d].type = "feed" /\ d \notin unread
             /\ isUserLoggedIn(req[d].user, req[d].host)
             /\ <<idol, req[d].user>> \in Follows!IdolEdges
  <2>1. ab[1] \in DOMAIN fs /\ ab[2] \in DOMAIN listeners /\ Meant(ab)
    OBVIOUS
  <2> HIDE DEF S, fs
  <2>2. PICK e \in Conns : FeedOf(e, listeners[ab[2]])
    BY <2>1 DEF ListenersSound
  <2>3. e = d
    BY <2>1, <2>2 DEF FeedOf, TableInv, FdTableSound
  <2>4. fs[ab[1]] = req[d].user /\ isUserLoggedIn(req[d].user, req[d].host)
    BY <2>1, <2>2, <2>3 DEF FeedOf
  <2>5. Follows!Contains(fs, req[d].user)
    BY <1>0, <2>1, <2>4 DEF Follows!Contains
  <2>6. <<idol, req[d].user>> \in Follows!IdolEdges
    BY <1>0, <2>1, <2>4, <2>5 DEF Follows!IdolEdges, fs
  <2> QED
    BY <2>2, <2>3, <2>4, <2>6 DEF FeedOf
<1>4. Cardinality(S) \in {0, 1} /\ (Cardinality(S) = 1 => S # {})
  <2> HIDE DEF S
  <2> QED
    BY <1>2, AtMostOne
<1> HIDE DEF S
<1> QED
  BY <1>1, <1>3, <1>4

\* A dump holds a post once at most, an acknowledged one of an idol.
LEMMA DumpsOnce ==
  ASSUME TypeOK, up, Follows!NoDuplicates, StoredSound, NEW user \in Users, NEW p \in Conns
  PROVE  /\ Cardinality(DumpOf(user, p)) \in {0, 1}
         /\ DumpOf(user, p) # {} => Cardinality(DumpOf(user, p)) = 1
         /\ Cardinality(DumpOf(user, p)) = 1 =>
              reply[p] = "ackPost" /\ Contains(followerMap[user], req[p].user)
<1> DEFINE is == followerMap[user]
           S == DumpOf(user, p)
<1>0. /\ is \in Seq(Users) /\ DOMAIN is = 1 .. Len(is)
      /\ \A a, b \in DOMAIN is : is[a] = is[b] => a = b
      /\ \A a \in DOMAIN is : is[a] \in Users
  <2>1. is \in Seq(Users)
    BY DEF TypeOK, Follows!TypeOK
  <2>2. \A a, b \in DOMAIN is : is[a] = is[b] => a = b
    BY DEF Follows!NoDuplicates, Follows!IsInjective
  <2> QED
    BY <2>1, <2>2, LenProperties, ElementOfSeq
<1>1. ASSUME NEW ab \in S
      PROVE  /\ ab = <<ab[1], ab[2]>> /\ ab[1] \in DOMAIN is
             /\ ab[2] \in DOMAIN userMessages[is[ab[1]]]
             /\ userMessages[is[ab[1]]][ab[2]] = p
  BY DEF DumpOf, Dump, Follows!getFollowerIdols
<1> HIDE DEF S, is
<1>2. ASSUME NEW ab \in S
      PROVE  is[ab[1]] = req[p].user /\ reply[p] = "ackPost"
  <2>1. is[ab[1]] \in Users
    BY <1>0, <1>1
  <2>2. Contains(userMessages[is[ab[1]]], p)
    <3>1. userMessages[is[ab[1]]] \in Seq(Conns)
      BY <2>1 DEF TypeOK
    <3> QED
      BY <1>1, <3>1, LenProperties DEF Contains
  <2> QED
    BY <2>1, <2>2 DEF StoredSound
<1>3. \A x, y \in S : x = y
  <2> SUFFICES ASSUME NEW x \in S, NEW y \in S PROVE x = y
    OBVIOUS
  <2>1. x[1] = y[1]
    BY <1>0, <1>1, <1>2
  <2>2. is[x[1]] \in Users
    BY <1>0, <1>1
  <2>3. x[2] = y[2]
    BY <1>1, <2>1, <2>2 DEF StoredSound, IsInjective
  <2> QED
    BY <1>1, <2>1, <2>3
<1>4. Cardinality(S) \in {0, 1} /\ (Cardinality(S) = 1 <=> S # {})
  BY <1>3, AtMostOne
<1>5. ASSUME NEW ab \in S PROVE Contains(is, req[p].user)
  BY <1>0, <1>1, <1>2 DEF Contains
<1> QED
  BY <1>2, <1>4, <1>5 DEF S, is

\* Nothing has been delivered on a connection before its request was read, and
\* only posts that were acknowledged have been delivered.
CopiesSound ==
  \A c, p \in Conns : copies[c][p] > 0 =>
    c \notin unread /\ link[c] # "none" /\ reply[p] = "ackPost"

OnceEach == \A c, p \in Conns : copies[c][p] <= 1

DeliveryInv ==
  /\ TableInv /\ UnreadUnanswered /\ StoredSound
  /\ Follows!NoDuplicates /\ ListenersSound /\ CopiesSound

\* Everything that is to be said of a delivery.
LEMMA Delivered ==
  ASSUME DeliveryInv, NEW c \in Conns, Serve(c), NEW d \in Conns, NEW p \in Conns,
         copies'[d][p] # copies[d][p]
  PROVE  /\ copies[d][p] = 0 /\ copies'[d][p] = 1
         /\ d \notin unread' /\ link'[d] # "none" /\ reply'[p] = "ackPost"
         /\ req[d].type = "feed" /\ isUserLoggedIn(req[d].user, req[d].host)
         /\ \/ <<req[p].user, req[d].user>> \in Follows!IdolEdges
            \/ Contains(followerMap[req[d].user], req[p].user)
<1>0. /\ TypeOK /\ up /\ c \in unread /\ fdOf[c] \in Socks /\ Handled(c)
      /\ unread' = unread \ {c}
  BY ServedIsSelected DEF DeliveryInv, TableInv, Serve, Receive
<1>1. /\ reply[c] = "none" /\ reply \in [Conns -> Replies \cup {"none"}]
      /\ copies[d][p] \in Nat
  BY <1>0 DEF DeliveryInv, UnreadUnanswered, TypeOK
<1>a. /\ req[c].user \in Users /\ req[d].user \in Users
  BY <1>0, ReqTypes
<1>2. ASSUME NEW ack, NEW writes, NEW feed, Transmit(c, ack, writes, feed)
      PROVE  /\ link[d] = "open" /\ link'[d] = "open"
             /\ reply' = [reply EXCEPT ![c] = ack]
             /\ copies'[d][p] = copies[d][p] + feed[d][p]
  <2>1. /\ link[d] \in {"none", "open"} => link'[d] = link[d]
        /\ \/ copies'[d][p] = copies[d][p]
           \/ /\ link[d] = "open" /\ reply' = [reply EXCEPT ![c] = ack]
              /\ copies'[d][p] = copies[d][p] + feed[d][p]
    BY <1>0, <1>2, TransmitLinks
  <2> QED
    BY <2>1
<1>3. ASSUME NEW ack, Reply(c, ack) PROVE FALSE
  <2>1. copies'[d][p] = copies[d][p] + NoFeed[d][p]
    BY <1>2, <1>3 DEF Reply
  <2> QED
    BY <1>1, <2>1 DEF NoFeed
<1>4. CASE /\ handlePost(c)
           /\ \E writes : Transmit(c, "ackPost", writes, pushFeedMessage(req[c].user, c))
  <2> DEFINE feed == pushFeedMessage(req[c].user, c)
  <2>1. /\ link'[d] = "open" /\ reply' = [reply EXCEPT ![c] = "ackPost"]
        /\ copies'[d][p] = copies[d][p] + feed[d][p]
    BY <1>2, <1>4
  <2>2. feed[d][p] = IF p = c /\ fdOf[d] # NoSock THEN Pushes(req[c].user, fdOf[d]) ELSE 0
    BY DEF pushFeedMessage
  <2> HIDE DEF feed
  <2>3. p = c /\ fdOf[d] # NoSock
    BY <1>1, <2>1, <2>2
  <2>4. copies[d][p] = 0
    BY <1>1, <2>3 DEF DeliveryInv, CopiesSound
  <2>5. /\ Pushes(req[c].user, fdOf[d]) \in {0, 1}
        /\ Pushes(req[c].user, fdOf[d]) = 1 =>
             /\ req[d].type = "feed" /\ d \notin unread
             /\ isUserLoggedIn(req[d].user, req[d].host)
             /\ <<req[c].user, req[d].user>> \in Follows!IdolEdges
    BY <1>a, <2>3, PushesOnce DEF DeliveryInv
  <2>6. Pushes(req[c].user, fdOf[d]) = 1 /\ copies'[d][p] = 1
    BY <2>1, <2>2, <2>3, <2>4, <2>5
  <2>7. reply'[p] = "ackPost"
    BY <1>1, <2>1, <2>3
  <2> QED
    BY <1>0, <2>1, <2>3, <2>4, <2>5, <2>6, <2>7
<1>5. CASE handleFeed(c) /\ \E writes : Transmit(c, "none", writes, DumpFeed(c))
  <2> DEFINE feed == DumpFeed(c)
  <2>1. /\ link'[d] = "open" /\ reply' = [reply EXCEPT ![c] = "none"]
        /\ copies'[d][p] = copies[d][p] + feed[d][p]
    BY <1>2, <1>5
  <2>2. feed[d][p] = IF d = c THEN Cardinality(DumpOf(req[c].user, p)) ELSE 0
    BY DEF DumpFeed
  <2> HIDE DEF feed
  <2>3. d = c
    BY <1>1, <2>1, <2>2
  <2>4. copies[d][p] = 0
    BY <1>0, <1>1, <2>3 DEF DeliveryInv, CopiesSound
  <2>5. /\ Cardinality(DumpOf(req[c].user, p)) \in {0, 1}
        /\ Cardinality(DumpOf(req[c].user, p)) = 1 =>
             reply[p] = "ackPost" /\ Contains(followerMap[req[c].user], req[p].user)
    BY <1>0, <1>a, DumpsOnce DEF DeliveryInv
  <2>6. Cardinality(DumpOf(req[c].user, p)) = 1 /\ copies'[d][p] = 1
    BY <2>1, <2>2, <2>3, <2>4, <2>5
  <2>7. reply'[p] = "ackPost"
    BY <1>1, <2>1, <2>5, <2>6
  <2>8. req[c].type = "feed" /\ isUserLoggedIn(req[c].user, req[c].host)
    BY <1>5 DEF handleFeed, Admitted
  <2> QED
    BY <1>0, <2>1, <2>3, <2>4, <2>5, <2>6, <2>7, <2>8
<1> QED
  BY <1>0, <1>3, <1>4, <1>5, HandlerSends

LEMMA CopiesStep ==
  ASSUME DeliveryInv, OnceEach, [Next]_vars
  PROVE  CopiesSound' /\ OnceEach'
<1>0. TypeOK
  BY DEF DeliveryInv, TableInv
<1>1. ASSUME NEW c \in Conns, Serve(c) PROVE CopiesSound' /\ OnceEach'
  <2>0. /\ up /\ c \in unread /\ fdOf[c] \in Socks /\ Handled(c) /\ unread' = unread \ {c}
    BY <1>0, <1>1, ServedIsSelected DEF Serve, Receive
  <2>1. Sent(c)
    BY <1>0, <2>0, HandlerTypes
  <2> SUFFICES ASSUME NEW d \in Conns, NEW p \in Conns
               PROVE  /\ copies'[d][p] <= 1
                      /\ copies'[d][p] > 0 =>
                           d \notin unread' /\ link'[d] # "none" /\ reply'[p] = "ackPost"
    BY DEF CopiesSound, OnceEach
  <2>2. CASE copies'[d][p] # copies[d][p]
    <3>1. /\ copies'[d][p] = 1 /\ d \notin unread' /\ link'[d] # "none"
          /\ reply'[p] = "ackPost"
      BY <1>1, <2>2, Delivered
    <3> QED
      BY <3>1
  <2>3. CASE copies'[d][p] = copies[d][p]
    <3>1. reply[c] = "none"
      BY <2>0 DEF DeliveryInv, UnreadUnanswered
    <3>2. reply[p] = "ackPost" => reply'[p] = "ackPost"
      <4>1. reply \in [Conns -> Replies \cup {"none"}]
        BY <1>0 DEF TypeOK
      <4>2. reply' = reply \/ \E ack : reply' = [reply EXCEPT ![c] = ack]
        BY <2>1 DEF Sent
      <4> QED
        BY <3>1, <4>1, <4>2
    <3>3. link[d] # "none" => link'[d] # "none"
      BY <2>1 DEF Sent
    <3> QED
      BY <2>0, <2>3, <3>2, <3>3 DEF DeliveryInv, CopiesSound, OnceEach
  <2> QED
    BY <2>2, <2>3
<1>2. ASSUME NEW c \in Conns, Connect(c) PROVE CopiesSound' /\ OnceEach'
  <2>1. /\ link[c] = "none" /\ link' = [link EXCEPT ![c] = "open"]
        /\ unread' = unread \cup {c} /\ UNCHANGED <<copies, reply>>
    BY <1>2 DEF Connect
  <2>2. \A d \in Conns : link[d] # "none" => d # c /\ link'[d] = link[d]
    BY <1>0, <2>1 DEF TypeOK
  <2> QED
    BY <2>1, <2>2 DEF DeliveryInv, CopiesSound, OnceEach
<1>3. ASSUME NEW c \in Conns, Close(c) \/ ReceiveError(c) \/ Terminate(c)
      PROVE  CopiesSound' /\ OnceEach'
  <2>1. /\ UNCHANGED <<unread, copies, reply>>
        /\ \E l \in {"fin", "rst", "broken", "dead"} : link' = [link EXCEPT ![c] = l]
    BY <1>3 DEF Close, ReceiveError, Terminate
  <2>2. \A d \in Conns : link[d] # "none" => link'[d] # "none"
    BY <1>0, <2>1 DEF TypeOK
  <2> QED
    BY <2>1, <2>2 DEF DeliveryInv, CopiesSound, OnceEach
<1>4. ASSUME Accept \/ UNCHANGED vars PROVE CopiesSound' /\ OnceEach'
  <2>1. UNCHANGED <<link, unread, copies, reply>>
    BY <1>4 DEF Accept, vars, net
  <2> QED
    BY <2>1 DEF DeliveryInv, CopiesSound, OnceEach
<1> QED
  BY <1>1, <1>2, <1>3, <1>4 DEF Next, ServerStep

LEMMA CopiesInit == Init => CopiesSound /\ OnceEach
  BY DEF Init, CopiesSound, OnceEach

LEMMA ListenersInvariant == Spec => [](TableInv /\ AuthInv /\ StoredSound /\ Owned)
<1>1. Spec => []TableInv
  BY TableInit, TableStep, PTL DEF Spec
<1>2. Spec => []AuthInv
  BY <1>1, AuthInit, AuthStep, PTL DEF Spec
<1>3. Spec => []StoredSound
  BY <1>1, <1>2, StoredInit, StoredStep, PTL DEF Spec
<1>4. Spec => []Owned
  <2>1. TableInv /\ Owned /\ [Next]_vars => Owned'
    BY ListenersStep
  <2> QED
    BY <1>1, <2>1, ListenersInit, PTL DEF Spec
<1> QED
  BY <1>1, <1>2, <1>3, <1>4, PTL

LEMMA MapsInvariant == Spec => []Follows!NoDuplicates
<1>1. Spec => []TableInv
  BY TableInit, TableStep, PTL DEF Spec
<1>2. TableInv /\ Follows!NoDuplicates /\ [Next]_vars => Follows!NoDuplicates'
  BY MapsStep DEF TableInv
<1>3. Init => Follows!NoDuplicates
  BY MapsInit
<1> QED
  BY <1>1, <1>2, <1>3, PTL DEF Spec

LEMMA DeliveryInvariant == Spec => [](FeedsLive => DeliveryInv /\ OnceEach)
<1> DEFINE Sound == TableInv /\ AuthInv /\ StoredSound /\ Owned /\ Follows!NoDuplicates
           Once == FeedsLive => OneEach /\ CopiesSound /\ OnceEach
<1>1. Spec => []Sound
  BY ListenersInvariant, MapsInvariant, PTL
<1>2. Sound /\ Once /\ FeedsLive => DeliveryInv /\ OnceEach
  BY OwnersListen DEF DeliveryInv, AuthInv
<1>3. Sound /\ Once /\ [Next]_vars => Once'
  <2> SUFFICES ASSUME Sound, Once, [Next]_vars, FeedsLive'
               PROVE  OneEach' /\ CopiesSound' /\ OnceEach'
    OBVIOUS
  <2>1. FeedsLive
    BY FeedsLivedBefore
  <2>2. DeliveryInv /\ OnceEach
    BY <1>2, <2>1
  <2>3. CopiesSound' /\ OnceEach'
    BY <2>2, CopiesStep
  <2>4. OneEach'
    BY <2>1, ListenersStep
  <2> QED
    BY <2>3, <2>4
<1>4. Init => Once
  BY ListenersInit, CopiesInit
<1>5. Spec => []Once
  <2> HIDE DEF Sound, Once
  <2> QED
    BY <1>1, <1>3, <1>4, PTL DEF Spec
<1> HIDE DEF Sound, Once
<1> QED
  BY <1>1, <1>2, <1>5, PTL

\* Until the first feed ends, dump and pushes together never deliver a post
\* twice on a connection, whoever closes what (handleFeed, pushFeedMessage,
\* addListener).
THEOREM NothingDeliveredTwice == Spec => []NoDoubleDelivery
<1>1. (FeedsLive => DeliveryInv /\ OnceEach) => NoDoubleDelivery
  BY DEF OnceEach, NoDoubleDelivery
<1> QED
  BY <1>1, DeliveryInvariant, PTL

\* A push to a descriptor is meant for the feed of a follower, the one that has
\* the descriptor or one that has ended and left its listener behind.
LEMMA PushesToFollowers ==
  ASSUME TableInv, Owned, NEW idol \in Users, NEW c \in Conns, fdOf[c] # NoSock,
         Pushes(idol, fdOf[c]) # 0
  PROVE  \E d \in Conns : /\ FeedOfFollower(d, idol)
                          /\ d = c \/ (link[d] = "dead" /\ Listens(d, fdOf[c]))
<1> DEFINE fs == idolMap[idol]
           S == {ab \in (DOMAIN fs) \X (DOMAIN listeners) :
                   LET l == listeners[ab[2]]
                   IN  /\ l.userID = fs[ab[1]]
                       /\ l.clientSock = fdOf[c]
                       /\ isUserLoggedIn(l.userID, l.clientAddr)}
<1>1. Pushes(idol, fdOf[c]) = Cardinality(S)
  BY DEF Pushes, Follows!getIdolFollowers
<1>2. S # {}
  <2> HIDE DEF S
  <2> QED
    BY <1>1, FS_EmptySet
<1>3. PICK a \in DOMAIN fs, k \in DOMAIN listeners :
        /\ listeners[k].userID = fs[a] /\ listeners[k].clientSock = fdOf[c]
        /\ isUserLoggedIn(listeners[k].userID, listeners[k].clientAddr)
  BY <1>2
<1>4. PICK d \in Conns : Owner(d, listeners[k])
  BY DEF Owned
<1>5. FeedOfFollower(d, idol)
  <2>1. DOMAIN fs = 1 .. Len(fs)
    BY LenProperties DEF TableInv, TypeOK, Follows!TypeOK
  <2>2. Contains(idolMap[idol], req[d].user)
    BY <1>3, <1>4, <2>1 DEF Contains, Owner
  <2> QED
    BY <1>3, <1>4, <2>2 DEF FeedOfFollower, Owner
<1>6. Listens(d, fdOf[c])
  <2>1. listeners[k] \in Handle
    BY DEF TableInv, TypeOK
  <2> QED
    BY <1>3, <1>4, <2>1 DEF Listens, Owner, Handle
<1>7. fdOf[d] = fdOf[c] => d = c
  BY DEF TableInv, FdTableSound
<1> QED
  BY <1>3, <1>4, <1>5, <1>6, <1>7 DEF Owner

\* A step delivers to feeds of logged-in followers, or where a feed that has
\* ended still listens.
ToFollowers ==
  \A c, p \in Conns : copies'[c][p] > copies[c][p] =>
    \/ FeedOfFollower(c, req[p].user)
    \/ \E d \in Conns : /\ link[d] = "dead" /\ Listens(d, fdOf[c])
                        /\ FeedOfFollower(d, req[p].user)

LEMMA ToFollowersStep ==
  ASSUME TableInv, AuthInv, StoredSound, Owned, Follows!NoDuplicates, [Next]_vars
  PROVE  ToFollowers
<1> SUFFICES ASSUME NEW c \in Conns, NEW p \in Conns, copies'[c][p] > copies[c][p]
             PROVE  \/ FeedOfFollower(c, req[p].user)
                    \/ \E d \in Conns : /\ link[d] = "dead" /\ Listens(d, fdOf[c])
                                        /\ FeedOfFollower(d, req[p].user)
  BY DEF ToFollowers
<1>0. TypeOK /\ copies[c][p] \in Nat /\ copies'[c][p] # copies[c][p]
  <2>1. TypeOK /\ copies[c][p] \in Nat
    BY DEF TableInv, TypeOK
  <2> QED
    BY <2>1
<1>1. PICK e \in Conns : Serve(e)
  BY <1>0, OnlyServeDelivers
<1>2. /\ up /\ Handled(e) /\ req[e].user \in Users
  BY <1>0, <1>1, ServedIsSelected, ReqTypes DEF Serve, Receive
<1>3. ASSUME NEW ack, NEW writes, NEW feed, Transmit(e, ack, writes, feed)
      PROVE  copies'[c][p] = copies[c][p] + feed[c][p]
  BY <1>0, <1>3, TransmitLinks
<1>4. ASSUME NEW ack, Reply(e, ack) PROVE FALSE
  <2>1. copies'[c][p] = copies[c][p] + NoFeed[c][p]
    BY <1>3, <1>4 DEF Reply
  <2> QED
    BY <1>0, <2>1 DEF NoFeed
<1>5. CASE \E writes : Transmit(e, "ackPost", writes, pushFeedMessage(req[e].user, e))
  <2>1. pushFeedMessage(req[e].user, e)[c][p] # 0
    BY <1>0, <1>3, <1>5
  <2>2. p = e /\ fdOf[c] # NoSock /\ Pushes(req[p].user, fdOf[c]) # 0
    BY <2>1 DEF pushFeedMessage
  <2> QED
    BY <1>2, <2>2, PushesToFollowers
<1>6. CASE handleFeed(e) /\ \E writes : Transmit(e, "none", writes, DumpFeed(e))
  <2>1. DumpFeed(e)[c][p] # 0
    BY <1>0, <1>3, <1>6
  <2>2. c = e /\ Cardinality(DumpOf(req[e].user, p)) # 0
    BY <2>1 DEF DumpFeed
  <2>3. Contains(followerMap[req[e].user], req[p].user)
    BY <1>0, <1>2, <2>2, DumpsOnce
  <2>4. req[e].type = "feed" /\ isUserLoggedIn(req[e].user, req[e].host)
    BY <1>6 DEF handleFeed, Admitted
  <2> QED
    BY <2>2, <2>3, <2>4 DEF FeedOfFollower
<1> QED
  BY <1>2, <1>4, <1>5, <1>6, HandlerSends

\* Whatever is refused, ignored or closed: a post goes to feeds of users who
\* are logged in and follow the author, and to nobody else until a feed has
\* ended; then it may also go where that feed's listener was left
\* (pushFeedMessage, handleFeed).
THEOREM OnlyToFollowers == Spec => OnlyFollowersReceive
<1>1. TableInv /\ AuthInv /\ StoredSound /\ Owned /\ Follows!NoDuplicates /\ [Next]_vars
        => [ToFollowers]_vars
  BY ToFollowersStep
<1>2. Spec => [][ToFollowers]_vars
  BY <1>1, ListenersInvariant, MapsInvariant, PTL DEF Spec
<1> QED
  BY <1>2 DEF OnlyFollowersReceive, ToFollowers

----------------------------------------------------------------------------
(* What costs the server its life. *)

FeedsOpen == \A d \in Conns : req[d].type = "feed" => link[d] \in {"none", "open"}

\* What OnlyClosedFeedsKill needs to be inductive: a client that has closed
\* before its request was read has had nothing to leave unread.
KillInv == FeedsOpen =>
  up /\ \A c \in unread : link[c] \in {"none", "open", "fin"}

LEMMA FeedsOpenBefore ==
  ASSUME TableInv, [Next]_vars, FeedsOpen'
  PROVE  FeedsOpen /\ FeedsLive
<1>1. FeedsOpen
  BY LinksStep, RequestsStay DEF FeedsOpen
<1> QED
  BY <1>1 DEF FeedsOpen, FeedsLive

\* A handler writes to feeds and to its own connection, to the latter once
\* unless it is a feed as well.
LEMMA HandlerWrites ==
  ASSUME DeliveryInv, NEW e \in Conns, Serve(e)
  PROVE  \E ack, writes, feed :
           /\ Transmit(e, ack, writes, feed)
           /\ \A d \in Conns : d # e /\ req[d].type # "feed" => writes[d] = 0
           /\ req[e].type # "feed" => writes[e] \in {0, 1}
<1>0. TypeOK /\ Handled(e) /\ req[e].user \in Users
  BY ServedIsSelected, ReqTypes DEF DeliveryInv, TableInv
<1> DEFINE one == [d \in Conns |-> IF d = e THEN 1 ELSE 0]
<1>1. ASSUME NEW ack, Reply(e, ack)
      PROVE  /\ Transmit(e, ack, one, NoFeed)
             /\ \A d \in Conns : d # e => one[d] = 0
             /\ one[e] = 1
  BY <1>1 DEF Reply
<1>2. CASE handlePost(e)
  <2> DEFINE feed == pushFeedMessage(req[e].user, e)
             writes == [d \in Conns |-> feed[d][e] + (IF d = e THEN 1 ELSE 0)]
  <2>1. CASE Reply(e, "failure")
    BY <1>1, <2>1
  <2>2. CASE Transmit(e, "ackPost", writes, feed)
    <3>1. ASSUME NEW d \in Conns, req[d].type # "feed"
          PROVE  feed[d][e] = 0
      <4>1. feed[d][e] = IF fdOf[d] # NoSock THEN Pushes(req[e].user, fdOf[d]) ELSE 0
        BY DEF pushFeedMessage
      <4>2. fdOf[d] # NoSock => Pushes(req[e].user, fdOf[d]) = 0
        BY <1>0, <3>1, PushesOnce DEF DeliveryInv
      <4> QED
        BY <4>1, <4>2
    <3>2. req[e].type = "post"
      BY <1>2 DEF handlePost
    <3>3. feed[e][e] = 0
      BY <3>1, <3>2
    <3> HIDE DEF feed
    <3>4. writes[e] = 1 /\ \A d \in Conns : d # e /\ req[d].type # "feed" => writes[d] = 0
      BY <3>1, <3>3
    <3> QED
      BY <2>2, <3>4 DEF feed
  <2> QED
    BY <1>2, <2>1, <2>2 DEF handlePost
<1>3. CASE handleFeed(e)
  <2> DEFINE writes == [d \in Conns |-> IF d = e THEN Cardinality(Dump(req[e].user)) ELSE 0]
  <2>1. Transmit(e, "none", writes, DumpFeed(e)) /\ req[e].type = "feed"
    BY <1>3 DEF handleFeed, DumpFeed
  <2>2. \A d \in Conns : d # e => writes[d] = 0
    OBVIOUS
  <2> HIDE DEF writes
  <2> QED
    BY <2>1, <2>2
<1>4. CASE ~ handlePost(e) /\ ~ handleFeed(e)
  <2>1. PICK ack : Reply(e, ack)
    BY <1>0, <1>4, HandlerSends
  <2> QED
    BY <1>1, <2>1
<1> QED
  BY <1>2, <1>3, <1>4

LEMMA KillServe ==
  ASSUME DeliveryInv, KillInv, FeedsOpen, NEW e \in Conns, Serve(e)
  PROVE  up' /\ \A c \in unread' : link'[c] \in {"none", "open", "fin"}
<1>1. e \in unread /\ up /\ unread' = unread \ {e}
  BY ServedIsSelected DEF DeliveryInv, TableInv, Serve, Receive
<1>2. PICK ack, writes, feed :
        /\ Transmit(e, ack, writes, feed)
        /\ \A d \in Conns : d # e /\ req[d].type # "feed" => writes[d] = 0
        /\ req[e].type # "feed" => writes[e] \in {0, 1}
  BY HandlerWrites
<1>3. \A d \in Conns : req[d].type = "feed" => link[d] \in {"none", "open"}
  BY DEF FeedsOpen
<1>4. link[e] \in {"none", "open", "fin"}
  BY <1>1 DEF KillInv
<1>5. ~ MayDie(writes)
  BY <1>2, <1>3, <1>4 DEF MayDie, MustDie
<1>6. up' /\ \A d \in Conns : d # e => link'[d] = link[d]
  <2>1. PICK reset \in SUBSET {d \in Conns : link[d] = "fin" /\ writes[d] > 0} :
          link' = [d \in Conns |->
                     IF d \in reset \/ (link[d] = "rst" /\ writes[d] > 0)
                     THEN "broken" ELSE link[d]]
    BY <1>2, <1>5 DEF Transmit
  <2>2. up' = up
    BY <1>2, <1>5 DEF Transmit
  <2> QED
    BY <1>1, <1>2, <1>3, <2>1, <2>2
<1> QED
  BY <1>1, <1>6 DEF KillInv, DeliveryInv, TableInv, TypeOK

LEMMA KillStep ==
  ASSUME TableInv, FeedsLive => DeliveryInv /\ OnceEach, KillInv, [Next]_vars
  PROVE  KillInv'
<1> SUFFICES ASSUME FeedsOpen'
             PROVE  up' /\ \A c \in unread' : link'[c] \in {"none", "open", "fin"}
  BY DEF KillInv
<1>0. /\ FeedsOpen /\ DeliveryInv /\ up
      /\ \A c \in unread : link[c] \in {"none", "open", "fin"}
      /\ link \in [Conns -> Links] /\ unread \subseteq Conns
  <2>1. FeedsOpen /\ FeedsLive
    BY FeedsOpenBefore
  <2> QED
    BY <2>1 DEF KillInv, TableInv, TypeOK
<1>1. ASSUME NEW c \in Conns, Connect(c)
      PROVE  up' /\ \A d \in unread' : link'[d] \in {"none", "open", "fin"}
  BY <1>0, <1>1 DEF Connect, server
<1>2. ASSUME NEW c \in Conns, Close(c)
      PROVE  up' /\ \A d \in unread' : link'[d] \in {"none", "open", "fin"}
  <2>1. c \in unread => ~ WrittenTo(c)
    BY <1>0 DEF DeliveryInv, UnreadUnanswered, CopiesSound, WrittenTo
  <2>2. PICK how : /\ how \in {"fin"} \cup (IF WrittenTo(c) THEN {"rst"} ELSE {})
                   /\ link' = [link EXCEPT ![c] = how]
    BY <1>2 DEF Close
  <2>3. UNCHANGED <<up, unread>>
    BY <1>2 DEF Close, server
  <2> QED
    BY <1>0, <2>1, <2>2, <2>3
<1>3. ASSUME NEW c \in Conns, ReceiveError(c) \/ Terminate(c)
      PROVE  up' /\ \A d \in unread' : link'[d] \in {"none", "open", "fin"}
  <2>1. /\ c \notin unread /\ UNCHANGED <<up, unread>>
        /\ \E l : link' = [link EXCEPT ![c] = l]
    BY <1>3 DEF ReceiveError, Terminate, server
  <2> QED
    BY <1>0, <2>1
<1>4. ASSUME NEW c \in Conns, Serve(c)
      PROVE  up' /\ \A d \in unread' : link'[d] \in {"none", "open", "fin"}
  BY <1>0, <1>4, KillServe
<1>5. ASSUME Accept \/ UNCHANGED vars
      PROVE  up' /\ \A d \in unread' : link'[d] \in {"none", "open", "fin"}
  <2>1. UNCHANGED <<up, unread, link>>
    BY <1>5 DEF Accept, vars, net, server
  <2> QED
    BY <1>0, <2>1
<1> QED
  BY <1>1, <1>2, <1>3, <1>4, <1>5 DEF Next, ServerStep

\* No SIGPIPE before the first feed is closed by its client, whatever the other
\* clients do and whenever they go (streamServerSend): all that can end the
\* server is a feed.
THEOREM OnlyFeedsKill == Spec => []OnlyClosedFeedsKill
<1>1. Spec => [](TableInv /\ (FeedsLive => DeliveryInv /\ OnceEach))
  BY ListenersInvariant, DeliveryInvariant, PTL
<1>2. TableInv /\ (FeedsLive => DeliveryInv /\ OnceEach) /\ KillInv /\ [Next]_vars => KillInv'
  BY KillStep
<1>3. Init => KillInv
  BY DEF Init, KillInv
<1>4. Spec => []KillInv
  BY <1>1, <1>2, <1>3, PTL DEF Spec
<1>5. KillInv => OnlyClosedFeedsKill
  BY DEF KillInv, FeedsOpen, OnlyClosedFeedsKill
<1> QED
  BY <1>4, <1>5, PTL

----------------------------------------------------------------------------
(* Feeds without holes, and posts that reach every follower. *)

ListensAt(c, k) ==
  /\ listeners[k].userID = req[c].user /\ listeners[k].clientSock = fdOf[c]
  /\ listeners[k].clientAddr = req[c].host

\* A follower's feed that is registered and logged in is pushed to.
LEMMA PushesSome ==
  ASSUME TypeOK, NEW idol \in Users, NEW c \in Conns, NEW k \in DOMAIN listeners,
         ListensAt(c, k), isUserLoggedIn(req[c].user, req[c].host),
         <<idol, req[c].user>> \in Follows!IdolEdges
  PROVE  Pushes(idol, fdOf[c]) > 0
<1> DEFINE fs == idolMap[idol]
           S == {ab \in (DOMAIN fs) \X (DOMAIN listeners) :
                   LET l == listeners[ab[2]]
                   IN  /\ l.userID = fs[ab[1]]
                       /\ l.clientSock = fdOf[c]
                       /\ isUserLoggedIn(l.userID, l.clientAddr)}
<1>1. Pushes(idol, fdOf[c]) = Cardinality(S)
  BY DEF Pushes, Follows!getIdolFollowers
<1>2. fs \in Seq(Users) /\ IsFiniteSet(DOMAIN fs) /\ IsFiniteSet(DOMAIN listeners)
  <2>1. fs \in Seq(Users)
    BY DEF TypeOK, Follows!TypeOK
  <2> QED
    BY <2>1, FiniteDomain DEF TypeOK
<1>3. IsFiniteSet(S)
  <2>1. IsFiniteSet((DOMAIN fs) \X (DOMAIN listeners))
    BY <1>2, FS_Product
  <2>2. S \subseteq (DOMAIN fs) \X (DOMAIN listeners)
    OBVIOUS
  <2> HIDE DEF S
  <2> QED
    BY <2>1, <2>2, FS_Subset
<1>4. PICK a \in DOMAIN fs : fs[a] = req[c].user
  BY <1>2, LenProperties DEF Follows!IdolEdges, Follows!Contains
<1>5. <<a, k>> \in S
  BY <1>4 DEF ListensAt
<1> HIDE DEF S
<1>6. Cardinality(S) # 0 /\ Cardinality(S) \in Nat
  BY <1>3, <1>5, FS_EmptySet, FS_CardinalityType
<1> QED
  BY <1>1, <1>6

\* The listener of a feed is that feed's.
LEMMA RegisteredFeed ==
  ASSUME TableInv, ListenersSound, NEW c \in Conns, fdOf[c] # NoSock, Registered(c)
  PROVE  /\ req[c].type = "feed" /\ c \notin unread
         /\ \E k \in DOMAIN listeners : ListensAt(c, k)
<1>1. PICK k \in DOMAIN listeners : listeners[k].clientSock = fdOf[c]
  BY DEF Registered
<1>2. PICK d \in Conns : FeedOf(d, listeners[k])
  BY DEF ListenersSound
<1>3. d = c
  BY <1>1, <1>2 DEF FeedOf, TableInv, FdTableSound
<1> QED
  BY <1>2, <1>3 DEF FeedOf, ListensAt

\* A login keeps everybody logged in, as long as its user has one host.
LEMMA LoginKeeps ==
  ASSUME AuthInv, SingleSession, NEW c \in Conns, Serve(c), handleLogin(c), up' = TRUE,
         OneHostSoFar(req[c].user), OneHostSoFar(req[c].user)', NEW d \in Conns,
         isUserLoggedIn(req[d].user, req[d].host)
  PROVE  isUserLoggedIn(req[d].user, req[d].host)'
<1> DEFINE u == req[c].user
           h == req[c].host
<1>1. /\ userStore \in [Users -> Seq(Hosts)] /\ u \in Users /\ req[d].user \in Users
      /\ UNCHANGED req /\ TypeOK /\ Handled(c)
  BY ServedReplies, ReqTypes DEF AuthInv, TypeOK
<1>2. CASE u # req[d].user
  <2>1. userStore'[req[d].user] = userStore[req[d].user]
    BY <1>1, <1>2, SessionsOfOthers
  <2> QED
    BY <1>1, <2>1 DEF isUserLoggedIn
<1>3. CASE u = req[d].user
  <2>1. userStore[u] # <<>> /\ Head(userStore[u]) = req[d].host
    BY <1>3 DEF isUserLoggedIn
  <2>2. \/ UNCHANGED userStore
        \/ userStore' = [userStore EXCEPT ![u] = <<h>>] /\ Head(userStore[u]) = h
    BY <2>1, LoginSession
  <2>3. CASE UNCHANGED userStore
    BY <1>1, <2>3 DEF isUserLoggedIn
  <2>4. CASE userStore' = [userStore EXCEPT ![u] = <<h>>] /\ Head(userStore[u]) = h
    <3>1. userStore'[u] = <<h>>
      BY <1>1, <2>4
    <3>2. <<h>> # <<>> /\ Head(<<h>>) = h
      OBVIOUS
    <3> QED
      BY <1>1, <1>3, <2>1, <2>4, <3>1, <3>2 DEF isUserLoggedIn
  <2> QED
    BY <2>2, <2>3, <2>4
<1> QED
  BY <1>2, <1>3

\* What FeedGapFree needs to be inductive: where a post has been delivered, the
\* author's later posts will be pushed.
GapInv == up /\ Steady =>
  \A c \in Conns, i \in Users :
    link[c] = "open" /\ fdOf[c] # NoSock /\ Registered(c) =>
      \A j \in DOMAIN userMessages[i] : copies[c][userMessages[i][j]] > 0 =>
        /\ <<i, req[c].user>> \in Follows!IdolEdges
        /\ isUserLoggedIn(req[c].user, req[c].host)
        /\ \A k \in DOMAIN userMessages[i] :
             j < k => copies[c][userMessages[i][k]] > 0

\* No feed has ended and no user has come from a second host.
Calm == FeedsLive /\ \A u \in Users : OneHostSoFar(u)

GapHypotheses ==
  DeliveryInv /\ AuthInv /\ SingleSession /\ Follows!DumpImpliesPush

\* Nothing that can make a hole happens, and nobody is registered.
LEMMA GapKept ==
  ASSUME GapInv, up = up', up => Steady,
         UNCHANGED <<req, userMessages, copies>>,
         \A c \in Conns : fdOf'[c] # NoSock /\ Registered(c)' => fdOf[c] # NoSock /\ Registered(c),
         \A c \in Conns : link'[c] = "open" /\ fdOf[c] # NoSock => link[c] = "open",
         Follows!IdolEdges \subseteq Follows!IdolEdges',
         \A c \in Conns : isUserLoggedIn(req[c].user, req[c].host)
                            => isUserLoggedIn(req[c].user, req[c].host)'
  PROVE  GapInv'
<1> SUFFICES ASSUME up', NEW c \in Conns, NEW i \in Users,
                    link'[c] = "open", fdOf'[c] # NoSock, Registered(c)',
                    NEW j \in DOMAIN userMessages[i], copies[c][userMessages[i][j]] > 0
             PROVE  /\ <<i, req[c].user>> \in Follows!IdolEdges'
                    /\ isUserLoggedIn(req[c].user, req[c].host)'
                    /\ \A k \in DOMAIN userMessages[i] :
                         j < k => copies[c][userMessages[i][k]] > 0
  BY DEF GapInv
<1>1. link[c] = "open" /\ fdOf[c] # NoSock /\ Registered(c) /\ up /\ Steady
  OBVIOUS
<1>2. /\ <<i, req[c].user>> \in Follows!IdolEdges
      /\ isUserLoggedIn(req[c].user, req[c].host)
      /\ \A k \in DOMAIN userMessages[i] : j < k => copies[c][userMessages[i][k]] > 0
  BY <1>1 DEF GapInv
<1> QED
  BY <1>2

\* handlePost pushes to every feed that has seen a post of the same author.
LEMMA GapPost ==
  ASSUME GapHypotheses, DeliveryInv', GapInv, Steady, NEW e \in Conns, Serve(e), up' = TRUE,
         handlePost(e),
         \E writes : Transmit(e, "ackPost", writes, pushFeedMessage(req[e].user, e))
  PROVE  GapInv'
<1>0. /\ TypeOK /\ up /\ e \in unread /\ fdOf[e] \in Socks /\ Handled(e)
      /\ UNCHANGED <<req, fdOf>> /\ reply[e] = "none"
  BY ServedIsSelected DEF GapHypotheses, DeliveryInv, TableInv, UnreadUnanswered, Serve, Receive
<1>1. /\ UNCHANGED <<listeners, userStore, idolMap, followerMap>>
      /\ Follows!IdolEdges' = Follows!IdolEdges
      /\ \A c \in Conns : Registered(c)' <=> Registered(c)
      /\ \A c \in Conns : isUserLoggedIn(req[c].user, req[c].host)'
                            <=> isUserLoggedIn(req[c].user, req[c].host)
  <2>1. UNCHANGED <<listeners, userStore, idolMap, followerMap>>
    BY DEF handlePost
  <2> QED
    BY <1>0, <2>1 DEF Follows!IdolEdges, Registered, isUserLoggedIn
<1>2. reply' = [reply EXCEPT ![e] = "ackPost"]
  BY Answered
<1>3. userMessages' = [userMessages EXCEPT ![req[e].user] = Append(@, e)]
  <2>1. ASSUME Reply(e, "failure") PROVE FALSE
    <3>1. reply' = [reply EXCEPT ![e] = "failure"]
      BY <2>1, Answered DEF Reply
    <3> QED
      BY <1>0, <1>2, <3>1 DEF TypeOK
  <2> QED
    BY <2>1 DEF handlePost
<1>4. /\ req[e].user \in Users
      /\ \A i \in Users : userMessages[i] \in Seq(Conns)
      /\ userMessages \in [Users -> Seq(Conns)]
  BY <1>0, ReqTypes DEF TypeOK
<1> SUFFICES ASSUME NEW c \in Conns, NEW i \in Users,
                    link'[c] = "open", fdOf[c] # NoSock, Registered(c),
                    NEW j \in DOMAIN userMessages'[i], copies'[c][userMessages'[i][j]] > 0
             PROVE  /\ <<i, req[c].user>> \in Follows!IdolEdges
                    /\ isUserLoggedIn(req[c].user, req[c].host)
                    /\ \A k \in DOMAIN userMessages'[i] :
                         j < k => copies'[c][userMessages'[i][k]] > 0
  BY <1>0, <1>1 DEF GapInv
<1>5. link[c] = "open" /\ \E k \in DOMAIN listeners : ListensAt(c, k)
  BY <1>0, LinksSettle, RegisteredFeed DEF GapHypotheses, DeliveryInv
<1>6. \A p \in Conns : copies'[c][p] = copies[c][p] +
        (IF p = e THEN Pushes(req[e].user, fdOf[c]) ELSE 0)
  <2>1. \A p \in Conns : copies'[c][p] = copies[c][p] + pushFeedMessage(req[e].user, e)[c][p]
    BY <1>0, <1>5, OpenPeersTakeAll
  <2> QED
    BY <2>1 DEF pushFeedMessage
<1>7. copies \in [Conns -> [Conns -> Nat]]
  BY <1>0 DEF TypeOK
<1>8. \A u \in Users : \A k \in DOMAIN userMessages[u] :
        userMessages[u][k] \in Conns /\ userMessages[u][k] # e
  <2> TAKE u \in Users
  <2> TAKE k \in DOMAIN userMessages[u]
  <2>1. userMessages[u][k] \in Conns
    BY <1>4, ElementOfSeq, LenProperties
  <2>2. ~ Contains(userMessages[u], e)
    BY <1>0 DEF GapHypotheses, DeliveryInv, StoredSound
  <2>3. DOMAIN userMessages[u] = 1 .. Len(userMessages[u])
    BY <1>4, LenProperties
  <2> QED
    BY <2>1, <2>2, <2>3 DEF Contains
<1>9. \A u \in Users : \A k \in DOMAIN userMessages[u] :
        copies'[c][userMessages[u][k]] = copies[c][userMessages[u][k]]
  BY <1>6, <1>7, <1>8
<1>10. CASE i # req[e].user
  <2>1. userMessages'[i] = userMessages[i]
    BY <1>3, <1>4, <1>10
  <2> QED
    BY <1>0, <1>5, <1>9, <2>1 DEF GapInv
<1>11. CASE i = req[e].user
  <2> DEFINE l == userMessages[i]
  <2>1. userMessages'[i] = Append(l, e)
    BY <1>3, <1>4, <1>11
  <2>2. l \in Seq(Conns) /\ DOMAIN l = 1 .. Len(l) /\ Len(l) \in Nat
    BY <1>4, LenProperties
  <2> HIDE DEF l
  <2>3. /\ DOMAIN userMessages'[i] = 1 .. Len(l) + 1
        /\ \A k \in 1 .. Len(l) : userMessages'[i][k] = l[k]
        /\ userMessages'[i][Len(l) + 1] = e
    BY <2>1, <2>2, AppendList
  <2>4. CASE j \in DOMAIN l
    <3>1. copies[c][userMessages[i][j]] > 0
      BY <1>9, <2>2, <2>3, <2>4 DEF l
    <3>2. /\ <<i, req[c].user>> \in Follows!IdolEdges
          /\ isUserLoggedIn(req[c].user, req[c].host)
          /\ \A k \in DOMAIN l : j < k => copies[c][l[k]] > 0
      BY <1>0, <1>5, <2>4, <3>1 DEF GapInv, l
    <3>3. Pushes(i, fdOf[c]) > 0 /\ Pushes(i, fdOf[c]) \in Nat
      BY <1>0, <1>5, <3>2, PushesSome, CountsOfPushes
    <3>4. copies'[c][e] > 0
      BY <1>6, <1>7, <1>11, <3>3
    <3>5. \A k \in DOMAIN l : copies'[c][l[k]] = copies[c][l[k]]
      BY <1>9 DEF l
    <3> QED
      BY <2>2, <2>3, <3>2, <3>4, <3>5
  <2>5. CASE j = Len(l) + 1
    <3>1. copies'[c][e] > 0
      BY <2>3, <2>5
    <3>2. copies[c][e] = 0
      BY <1>0, <1>7 DEF GapHypotheses, DeliveryInv, CopiesSound
    <3>3. /\ isUserLoggedIn(req[c].user, req[c].host)
          /\ \/ <<req[e].user, req[c].user>> \in Follows!IdolEdges
             \/ Contains(followerMap[req[c].user], req[e].user)
      BY <3>1, <3>2, Delivered DEF GapHypotheses
    <3>4. Contains(followerMap[req[c].user], req[e].user)
            => <<req[e].user, req[c].user>> \in Follows!FollowerEdges
      BY <1>0, ReqTypes DEF Follows!FollowerEdges, Follows!Contains, Contains
    <3>5. <<i, req[c].user>> \in Follows!IdolEdges
      BY <1>11, <3>3, <3>4 DEF GapHypotheses, Follows!DumpImpliesPush
    <3> QED
      BY <2>2, <2>3, <2>5, <3>3, <3>5
  <2> QED
    BY <2>2, <2>3, <2>4, <2>5
<1> QED
  BY <1>10, <1>11

\* The dump holds all that the idols of a feed have posted, or nothing of them.
LEMMA GapFeed ==
  ASSUME GapHypotheses, GapInv, Steady, NEW e \in Conns, Serve(e), up' = TRUE, handleFeed(e)
  PROVE  GapInv'
<1>0. /\ TypeOK /\ up /\ e \in unread /\ fdOf[e] \in Socks /\ Handled(e)
      /\ UNCHANGED <<req, fdOf>>
  BY ServedIsSelected DEF GapHypotheses, DeliveryInv, TableInv, Serve, Receive
<1> DEFINE u == req[e].user
           l == [userID |-> u, clientSock |-> fdOf[e], clientAddr |-> req[e].host]
<1>1. /\ UNCHANGED <<userStore, idolMap, followerMap, userMessages>>
      /\ req[e].type = "feed" /\ isUserLoggedIn(u, req[e].host)
      /\ listeners' = Append(listeners, l)
      /\ \E writes : Transmit(e, "none", writes, DumpFeed(e))
  BY DEF handleFeed, Admitted, addListener, DumpFeed
<1>2. /\ Follows!IdolEdges' = Follows!IdolEdges
      /\ \A c \in Conns : isUserLoggedIn(req[c].user, req[c].host)'
                            <=> isUserLoggedIn(req[c].user, req[c].host)
  BY <1>0, <1>1 DEF Follows!IdolEdges, isUserLoggedIn
<1>3. copies \in [Conns -> [Conns -> Nat]] /\ e \in Conns /\ u \in Users
  BY <1>0, ReqTypes DEF TypeOK
<1>4. ASSUME NEW c \in Conns, c # e
      PROVE  \A p \in Conns : copies'[c][p] = copies[c][p]
  <2> SUFFICES ASSUME NEW p \in Conns PROVE copies'[c][p] = copies[c][p]
    OBVIOUS
  <2>1. DumpFeed(e)[c][p] = 0
    BY <1>4 DEF DumpFeed
  <2>2. \/ copies'[c][p] = copies[c][p]
        \/ copies'[c][p] = copies[c][p] + DumpFeed(e)[c][p]
    BY <1>0, <1>1, TransmitLinks
  <2> QED
    BY <1>3, <2>1, <2>2
<1>5. ASSUME NEW c \in Conns, c # e, fdOf[c] # NoSock, Registered(c)'
      PROVE  Registered(c)
  <2>1. fdOf[c] # fdOf[e]
    BY <1>5 DEF GapHypotheses, DeliveryInv, TableInv, FdTableSound
  <2>2. listeners \in Seq(Handle) /\ l \in Handle /\ l.clientSock = fdOf[e]
    <3>1. listeners \in Seq(Handle)
      BY <1>0 DEF TypeOK
    <3> QED
      BY <1>0, <3>1, ReqTypes DEF Handle
  <2> HIDE DEF l
  <2>3. /\ DOMAIN listeners' = 1 .. Len(listeners) + 1
        /\ \A k \in 1 .. Len(listeners) : listeners'[k] = listeners[k]
        /\ listeners'[Len(listeners) + 1] = l
        /\ DOMAIN listeners = 1 .. Len(listeners) /\ Len(listeners) \in Nat
    BY <1>1, <2>2, AppendList, LenProperties
  <2>4. PICK k \in DOMAIN listeners' : /\ listeners'[k].clientSock = fdOf[c]
                                       /\ listeners'[k].userID = req[c].user
    BY <1>0, <1>5 DEF Registered
  <2>5. k \in DOMAIN listeners
    BY <2>1, <2>2, <2>3, <2>4
  <2> QED
    BY <2>3, <2>4, <2>5 DEF Registered
<1> HIDE DEF l
<1>6. ASSUME link'[e] = "open"
      PROVE  \A p \in Conns : copies'[e][p] = Cardinality(DumpOf(u, p))
  <2> SUFFICES ASSUME NEW p \in Conns PROVE copies'[e][p] = Cardinality(DumpOf(u, p))
    OBVIOUS
  <2>1. link[e] = "open"
    BY <1>0, <1>6, LinksSettle
  <2>2. copies'[e][p] = copies[e][p] + DumpFeed(e)[e][p]
    BY <1>1, <2>1, OpenPeersTakeAll
  <2>3. copies[e][p] = 0
    BY <1>0, <1>3 DEF GapHypotheses, DeliveryInv, CopiesSound
  <2>4. DumpFeed(e)[e][p] = Cardinality(DumpOf(u, p))
    BY DEF DumpFeed
  <2>5. Cardinality(DumpOf(u, p)) \in {0, 1}
    BY <1>0, <1>3, DumpsOnce DEF GapHypotheses, DeliveryInv
  <2> QED
    BY <2>2, <2>3, <2>4, <2>5
<1> SUFFICES ASSUME NEW c \in Conns, NEW i \in Users,
                    link'[c] = "open", fdOf[c] # NoSock, Registered(c)',
                    NEW j \in DOMAIN userMessages[i], copies'[c][userMessages[i][j]] > 0
             PROVE  /\ <<i, req[c].user>> \in Follows!IdolEdges
                    /\ isUserLoggedIn(req[c].user, req[c].host)
                    /\ \A k \in DOMAIN userMessages[i] :
                         j < k => copies'[c][userMessages[i][k]] > 0
  BY <1>0, <1>1, <1>2 DEF GapInv
<1>7. \A k \in DOMAIN userMessages[i] : userMessages[i][k] \in Conns
  <2>1. userMessages[i] \in Seq(Conns)
    BY <1>0 DEF TypeOK
  <2> QED
    BY <2>1, ElementOfSeq, LenProperties
<1>8. CASE c # e
  <2>1. Registered(c) /\ link[c] = "open"
    BY <1>0, <1>5, <1>8, LinksSettle
  <2>2. \A k \in DOMAIN userMessages[i] :
          copies'[c][userMessages[i][k]] = copies[c][userMessages[i][k]]
    BY <1>4, <1>7, <1>8
  <2> QED
    BY <1>0, <2>1, <2>2 DEF GapInv
<1>9. CASE c = e
  <2> DEFINE is == followerMap[u]
             p == userMessages[i][j]
  <2>1. p \in Conns /\ Cardinality(DumpOf(u, p)) > 0
    BY <1>6, <1>7, <1>9
  <2>2. is \in Seq(Users) /\ DOMAIN is = 1 .. Len(is) /\ userMessages[i] \in Seq(Conns)
    <3>1. is \in Seq(Users)
      BY <1>0, <1>3 DEF TypeOK, Follows!TypeOK
    <3> QED
      BY <1>0, <3>1, LenProperties DEF TypeOK
  <2>3. req[p].user = i
    <3>1. Contains(userMessages[i], p)
      BY <2>2, LenProperties DEF Contains
    <3> QED
      BY <1>0, <2>1, <3>1 DEF GapHypotheses, DeliveryInv, StoredSound
  <2> HIDE DEF p
  <2>4. Contains(is, i)
    <3>1. /\ Cardinality(DumpOf(u, p)) \in {0, 1}
          /\ Cardinality(DumpOf(u, p)) = 1 => Contains(is, req[p].user)
      BY <1>0, <1>3, <2>1, DumpsOnce DEF GapHypotheses, DeliveryInv
    <3> QED
      BY <2>1, <2>3, <3>1
  <2>5. PICK a \in DOMAIN is : is[a] = i
    BY <2>2, <2>4 DEF Contains
  <2>6. <<i, u>> \in Follows!IdolEdges
    <3>1. <<i, u>> \in Follows!FollowerEdges
      BY <1>3, <2>4 DEF Follows!FollowerEdges, Follows!Contains, Contains
    <3> QED
      BY <3>1 DEF GapHypotheses, Follows!DumpImpliesPush
  <2>7. ASSUME NEW k \in DOMAIN userMessages[i]
        PROVE  copies'[e][userMessages[i][k]] > 0
    <3>1. <<a, k>> \in DumpOf(u, userMessages[i][k])
      BY <2>5 DEF DumpOf, Dump, Places, Follows!getFollowerIdols
    <3>2. Cardinality(DumpOf(u, userMessages[i][k])) = 1
      BY <1>0, <1>3, <1>7, <3>1, DumpsOnce DEF GapHypotheses, DeliveryInv
    <3> QED
      BY <1>6, <1>7, <1>9, <3>2
  <2> QED
    BY <1>1, <1>9, <2>6, <2>7
<1> QED
  BY <1>8, <1>9

\* Every other request leaves the deliveries alone and takes nothing away.
LEMMA GapServe ==
  ASSUME GapHypotheses, DeliveryInv', GapInv, Steady, Steady', Calm, Calm',
         "lost" \notin Allocs, NEW e \in Conns, Serve(e), up' = TRUE
  PROVE  GapInv'
<1>0. /\ TypeOK /\ up /\ e \in unread /\ fdOf[e] \in Socks /\ Handled(e)
      /\ UNCHANGED <<req, fdOf>> /\ unread' = unread \ {e}
  BY ServedIsSelected DEF GapHypotheses, DeliveryInv, TableInv, Serve, Receive
<1>1. ~ handleUnfollow(e) /\ ~ handleLogout(e)
  <2>1. link[e] # "none"
    BY <1>0 DEF GapHypotheses, DeliveryInv, TableInv, BacklogSound
  <2>2. link'[e] # "none"
    BY <1>0, <2>1, HandlerTypes DEF Sent
  <2>3. req[e].type \notin {"unfollow", "logout"}
    BY <1>0, <2>2 DEF Steady
  <2> QED
    BY <2>3 DEF handleUnfollow, handleLogout
<1>2. ASSUME NEW ack, Reply(e, ack) PROVE UNCHANGED copies
  <2>1. copies \in [Conns -> [Conns -> Nat]] /\ copies' \in [Conns -> [Conns -> Nat]]
    BY <1>0, HandlerTypes DEF TypeOK, Sent
  <2>2. ASSUME NEW d \in Conns, NEW p \in Conns PROVE copies'[d][p] = copies[d][p]
    <3>1. NoFeed[d][p] = 0 /\ copies[d][p] \in Nat
      BY <2>1 DEF NoFeed
    <3>2. \/ copies'[d][p] = copies[d][p]
          \/ copies'[d][p] = copies[d][p] + NoFeed[d][p]
      BY <1>0, <1>2, TransmitLinks DEF Reply
    <3> QED
      BY <3>1, <3>2
  <2>3. \A d \in Conns : copies'[d] = copies[d]
    BY <2>1, <2>2
  <2> QED
    BY <2>1, <2>3
<1>3. ASSUME UNCHANGED <<listeners, userMessages, copies>>,
             Follows!IdolEdges \subseteq Follows!IdolEdges',
             \A c \in Conns : isUserLoggedIn(req[c].user, req[c].host)
                                => isUserLoggedIn(req[c].user, req[c].host)'
      PROVE  GapInv'
  <2>1. \A c \in Conns : fdOf'[c] # NoSock /\ Registered(c)' => fdOf[c] # NoSock /\ Registered(c)
    BY <1>0, <1>3 DEF Registered
  <2>2. up = up' /\ \A c \in Conns : link'[c] = "open" => link[c] = "open"
    BY <1>0, LinksSettle DEF TypeOK
  <2> QED
    BY <1>0, <1>3, <2>1, <2>2, GapKept
<1>4. UNCHANGED userStore => \A c \in Conns : isUserLoggedIn(req[c].user, req[c].host)
                                => isUserLoggedIn(req[c].user, req[c].host)'
  BY <1>0 DEF isUserLoggedIn
<1>5. UNCHANGED idolMap => Follows!IdolEdges \subseteq Follows!IdolEdges'
  BY DEF Follows!IdolEdges
<1>6. CASE handlePost(e)
  <2>1. CASE \E writes : Transmit(e, "ackPost", writes, pushFeedMessage(req[e].user, e))
    BY <1>6, <2>1, GapPost
  <2>2. CASE UNCHANGED userMessages /\ Reply(e, "failure")
    <3>1. UNCHANGED <<userStore, listeners, idolMap>>
      BY <1>6 DEF handlePost
    <3> QED
      BY <1>2, <1>3, <1>4, <1>5, <2>2, <3>1
  <2> QED
    BY <1>6, <2>1, <2>2 DEF handlePost
<1>7. CASE handleFeed(e)
  BY <1>7, GapFeed
<1>8. CASE handleLogin(e)
  <2>1. UNCHANGED <<listeners, idolMap, userMessages>> /\ \E ack : Reply(e, ack)
    BY <1>8 DEF handleLogin
  <2>2. \A c \in Conns : isUserLoggedIn(req[c].user, req[c].host)
                           => isUserLoggedIn(req[c].user, req[c].host)'
    BY <1>0, <1>8, LoginKeeps, ReqTypes DEF GapHypotheses, Calm
  <2> QED
    BY <1>2, <1>3, <1>5, <2>1, <2>2
<1>9. CASE handleFollow(e)
  <2>1. UNCHANGED <<userStore, listeners, userMessages>>
    BY <1>9 DEF handleFollow
  <2>2. PICK rv : /\ Follows!addFollower(req[e].target, req[e].user, rv)
                  /\ \E ack : Reply(e, ack)
    BY <1>9 DEF handleFollow
  <2>3. Follows!IdolEdges \subseteq Follows!IdolEdges'
    <3>1. Follows!TypeOK /\ Follows!NoDuplicates
      BY <1>0 DEF TypeOK, GapHypotheses, DeliveryInv
    <3>2. req[e].target \in Users /\ req[e].user \in Users
      BY <1>0, ReqTypes
    <3> QED
      BY <2>2, <3>1, <3>2, FollowCalls
  <2> QED
    BY <1>2, <1>3, <1>4, <2>1, <2>2, <2>3
<1>10. CASE handleFailure(e)
  <2>1. UNCHANGED <<userStore, listeners, idolMap, userMessages>> /\ Reply(e, "failure")
    BY <1>10 DEF handleFailure
  <2> QED
    BY <1>2, <1>3, <1>4, <1>5, <2>1
<1> QED
  BY <1>0, <1>1, <1>6, <1>7, <1>8, <1>9, <1>10 DEF Handled

\* A step that is not a request's.
LEMMA GapOthers ==
  ASSUME GapHypotheses, GapInv, [Next]_vars, up = up', Steady' => Steady,
         UNCHANGED <<req, userStore, idolMap, userMessages, copies>>,
         \A c \in Conns : fdOf'[c] # NoSock /\ Registered(c)' => fdOf[c] # NoSock /\ Registered(c)
  PROVE  GapInv'
<1>1. /\ Follows!IdolEdges \subseteq Follows!IdolEdges'
      /\ \A c \in Conns : isUserLoggedIn(req[c].user, req[c].host)
                            => isUserLoggedIn(req[c].user, req[c].host)'
  BY DEF Follows!IdolEdges, isUserLoggedIn
<1>2. CASE Steady
  <2>1. \A c \in Conns : link'[c] = "open" /\ fdOf[c] # NoSock => link[c] = "open"
    BY LinksStep DEF GapHypotheses, DeliveryInv
  <2> QED
    BY <1>1, <1>2, <2>1, GapKept
<1>3. CASE ~ Steady'
  BY <1>3 DEF GapInv
<1> QED
  BY <1>2, <1>3

LEMMA GapStep ==
  ASSUME GapHypotheses, DeliveryInv', GapInv, Calm, Calm', "lost" \notin Allocs, [Next]_vars
  PROVE  GapInv'
<1>0. /\ TypeOK /\ TableInv /\ ListenersSound
      /\ link \in [Conns -> Links] /\ fdOf \in [Conns -> Socks \cup {NoSock}]
  BY DEF GapHypotheses, DeliveryInv, TableInv, TypeOK
<1>1. ASSUME NEW c \in Conns, Connect(c) PROVE GapInv'
  <2>1. /\ link[c] = "none" /\ link' = [link EXCEPT ![c] = "open"]
        /\ unread' = unread \cup {c}
        /\ UNCHANGED <<up, req, fdOf, listeners, userStore, idolMap, userMessages, copies>>
    BY <1>1 DEF Connect, server
  <2>2. Steady' => Steady
    <3>1. \A d \in Conns : d # c => link'[d] = link[d]
      BY <1>0, <2>1
    <3> QED
      BY <2>1, <3>1 DEF Steady
  <2>3. \A d \in Conns : Registered(d)' <=> Registered(d)
    BY <2>1 DEF Registered
  <2> QED
    BY <2>1, <2>2, <2>3, GapOthers
<1>2. ASSUME NEW c \in Conns, Close(c) \/ ReceiveError(c) PROVE GapInv'
  <2>1. /\ link[c] # "none"
        /\ \E how \in {"fin", "rst", "broken"} : link' = [link EXCEPT ![c] = how]
        /\ UNCHANGED <<unread, up, req, fdOf, listeners, userStore, idolMap, userMessages, copies>>
    BY <1>2 DEF Close, ReceiveError, server
  <2>2. Steady' => Steady
    <3>1. \A d \in Conns : link'[d] = "none" => link[d] = "none"
      BY <1>0, <2>1
    <3> QED
      BY <2>1, <3>1 DEF Steady
  <2>3. \A d \in Conns : Registered(d)' <=> Registered(d)
    BY <2>1 DEF Registered
  <2> QED
    BY <2>1, <2>2, <2>3, GapOthers
<1>3. CASE Accept
  <2>1. /\ backlog # <<>>
        /\ UNCHANGED <<link, unread, up, req, listeners, userStore, idolMap, userMessages, copies>>
    BY <1>3 DEF Accept
  <2>2. PICK s \in FreeSocks : fdOf' = [fdOf EXCEPT ![Head(backlog)] = s]
    BY <1>3 DEF Accept
  <2>3. Steady' => Steady
    BY <2>1 DEF Steady
  <2>4. ASSUME NEW d \in Conns, fdOf'[d] # NoSock, Registered(d)'
        PROVE  fdOf[d] # NoSock /\ Registered(d)
    <3>1. PICK k \in DOMAIN listeners : /\ listeners[k].clientSock = fdOf'[d]
                                        /\ listeners[k].userID = req[d].user
      BY <2>1, <2>4 DEF Registered
    <3>2. PICK f \in Conns : fdOf[f] = listeners[k].clientSock
      BY <1>0, <3>1 DEF ListenersSound, FeedOf
    <3>3. fdOf'[d] # s
      BY <2>2, <3>1, <3>2 DEF FreeSocks
    <3>4. fdOf'[d] = fdOf[d]
      BY <1>0, <2>2, <3>3
    <3> QED
      BY <2>4, <3>1, <3>4 DEF Registered
  <2> QED
    BY <2>1, <2>3, <2>4, GapOthers
<1>4. ASSUME NEW c \in Conns, Terminate(c) PROVE GapInv'
  <2>1. /\ link[c] \in {"fin", "broken"} /\ link' = [link EXCEPT ![c] = "dead"]
        /\ fdOf' = [fdOf EXCEPT ![c] = NoSock]
        /\ UNCHANGED <<unread, up, req, userStore, idolMap, userMessages, copies>>
    BY <1>4 DEF Terminate
  <2>2. Steady' => Steady
    <3>1. \A d \in Conns : link'[d] = "none" => link[d] = "none"
      BY <1>0, <2>1
    <3> QED
      BY <2>1, <3>1 DEF Steady
  <2>3. \A d \in Conns : fdOf'[d] # NoSock => fdOf'[d] = fdOf[d]
    BY <1>0, <2>1
  <2>4. \A k \in DOMAIN listeners' : \E j \in DOMAIN listeners : listeners'[k] = listeners[j]
    <3>1. PICK h : removeListener(h)
      BY <1>4 DEF Terminate
    <3>2. \/ UNCHANGED listeners
          \/ \E i \in DOMAIN listeners : listeners' = RemoveAt(listeners, i)
      BY <3>1 DEF removeListener
    <3>3. listeners \in Seq(Handle) /\ DOMAIN listeners = 1 .. Len(listeners) /\ Len(listeners) \in Nat
      BY <1>0, LenProperties DEF TypeOK
    <3>4. ASSUME NEW i \in DOMAIN listeners, listeners' = RemoveAt(listeners, i)
          PROVE  \A k \in DOMAIN listeners' : \E j \in DOMAIN listeners : listeners'[k] = listeners[j]
      <4>1. /\ DOMAIN listeners' = 1 .. Len(listeners) - 1
            /\ \A k \in 1 .. Len(listeners) - 1 :
                 listeners'[k] = IF k < i THEN listeners[k] ELSE listeners[k + 1]
        BY <3>3, <3>4, RemoveAtList
      <4>2. \A k \in 1 .. Len(listeners) - 1 : k \in DOMAIN listeners /\ k + 1 \in DOMAIN listeners
        BY <3>3
      <4> QED
        BY <4>1, <4>2
    <3> QED
      BY <3>2, <3>4
  <2>5. \A d \in Conns : fdOf'[d] # NoSock /\ Registered(d)' => fdOf[d] # NoSock /\ Registered(d)
    BY <2>1, <2>3, <2>4 DEF Registered
  <2> QED
    BY <2>1, <2>2, <2>5, GapOthers
<1>5. ASSUME NEW c \in Conns, Serve(c) PROVE GapInv'
  <2>1. CASE up' = TRUE /\ Steady /\ Steady'
    BY <1>5, <2>1, GapServe
  <2>2. CASE ~ up'
    BY <2>2 DEF GapInv
  <2>3. Steady' => Steady
    <3>1. up /\ fdOf[c] \in Socks /\ Handled(c) /\ UNCHANGED req /\ unread' = unread \ {c}
      BY <1>0, <1>5, ServedIsSelected DEF Serve, Receive
    <3>2. \A d \in Conns : link'[d] = "none" <=> link[d] = "none"
      BY <1>0, <3>1, HandlerTypes DEF Sent
    <3> QED
      BY <3>1, <3>2 DEF Steady
  <2>4. up' \in BOOLEAN
    BY DEF DeliveryInv, TableInv, TypeOK
  <2> QED
    BY <2>1, <2>2, <2>3, <2>4 DEF GapInv
<1>6. CASE UNCHANGED vars
  <2>1. UNCHANGED <<link, unread, up, req, fdOf, listeners, userStore, idolMap, userMessages, copies>>
    BY <1>6 DEF vars, net, server
  <2>2. (Steady' <=> Steady) /\ \A d \in Conns : Registered(d)' <=> Registered(d)
    BY <2>1 DEF Steady, Registered
  <2> QED
    BY <2>1, <2>2, GapOthers
<1> QED
  BY <1>1, <1>2, <1>3, <1>4, <1>5, <1>6 DEF Next, ServerStep

LEMMA GapInit == Init => GapInv
  BY DEF Init, GapInv

LEMMA CalmBefore ==
  ASSUME TableInv, AuthInv, [Next]_vars, Calm'
  PROVE  Calm
  BY FeedsLivedBefore, OneHostBefore DEF Calm

LEMMA GapInvariant ==
  ASSUME "lost" \notin Allocs
  PROVE  Spec => [](Calm => GapHypotheses /\ GapInv)
<1> DEFINE Sound == /\ TableInv /\ AuthInv /\ SingleSession /\ Follows!DumpImpliesPush
                    /\ FeedsLive => DeliveryInv /\ OnceEach
           Kept == Calm => GapInv
<1>1. Spec => []Follows!DumpImpliesPush
  <2>1. TableInv /\ Follows!NoDuplicates /\ Follows!DumpImpliesPush /\ [Next]_vars
          => Follows!DumpImpliesPush'
    BY MapsStep DEF TableInv
  <2>2. Init => Follows!DumpImpliesPush
    BY MapsInit
  <2> QED
    BY <2>1, <2>2, ListenersInvariant, MapsInvariant, PTL DEF Spec
<1>2. Spec => []Sound
  BY <1>1, ListenersInvariant, SessionInvariant, DeliveryInvariant, PTL
<1>3. Sound /\ Calm => GapHypotheses
  BY DEF GapHypotheses, Calm
<1>4. Sound /\ Sound' /\ Kept /\ [Next]_vars => Kept'
  <2> SUFFICES ASSUME Sound, Sound', Kept, [Next]_vars, Calm' PROVE GapInv'
    OBVIOUS
  <2>1. Calm
    BY CalmBefore
  <2>2. GapHypotheses /\ DeliveryInv'
    BY <1>3, <2>1 DEF Calm
  <2> QED
    BY <2>1, <2>2, GapStep
<1>5. Init => Kept
  BY GapInit
<1>6. Spec => []Kept
  <2> HIDE DEF Sound, Kept
  <2> QED
    BY <1>2, <1>4, <1>5, PTL DEF Spec
<1>7. Sound /\ Kept => (Calm => GapHypotheses /\ GapInv)
  BY <1>3
<1> HIDE DEF Sound, Kept
<1> QED
  BY <1>2, <1>6, <1>7, PTL

\* As long as no feed has ended, no user has come from a second host and no
\* failure of an allocation is ignored, a feed has no holes (handleFeed,
\* pushFeedMessage).
THEOREM FeedsHaveNoHoles ==
  ASSUME "lost" \notin Allocs
  PROVE  Spec => [](FeedsLive /\ (\A u \in Users : OneHostSoFar(u)) => FeedGapFree)
<1>1. GapHypotheses /\ GapInv => FeedGapFree
  <2> SUFFICES ASSUME GapHypotheses, GapInv, up, Steady, NEW c \in Conns, NEW i \in Users,
                      req[c].type = "feed", link[c] = "open", Registered(c),
                      NEW j \in DOMAIN userMessages[i], NEW k \in DOMAIN userMessages[i],
                      j < k, copies[c][userMessages[i][j]] > 0
               PROVE  copies[c][userMessages[i][k]] > 0
    BY DEF FeedGapFree
  <2>1. PICK n \in DOMAIN listeners : listeners[n].clientSock = fdOf[c]
    BY DEF Registered
  <2>2. listeners[n] \in Handle
    BY <2>1 DEF GapHypotheses, DeliveryInv, TableInv, TypeOK
  <2>3. fdOf[c] # NoSock
    BY <2>1, <2>2, NoSockIsNone DEF Handle, GapHypotheses, DeliveryInv, TableInv
  <2> QED
    BY <2>3 DEF GapInv
<1>2. (Calm => GapHypotheses /\ GapInv)
        => (FeedsLive /\ (\A u \in Users : OneHostSoFar(u)) => FeedGapFree)
  BY <1>1 DEF Calm
<1>3. Spec => [](Calm => GapHypotheses /\ GapInv)
  BY GapInvariant
<1> QED
  BY <1>2, <1>3, PTL

\* As long as no connection has been given up, every feed that was admitted
\* has its listener.
ReadFeedsListen == up /\ (\A d \in Conns : link[d] # "dead") =>
  \A c \in Conns :
    /\ req[c].type = "feed" /\ link[c] = "open" /\ fdOf[c] # NoSock
    /\ c \notin unread /\ reply[c] = "none"
    => \E k \in DOMAIN listeners : ListensAt(c, k)

LEMMA ReadFeedsServe ==
  ASSUME TableInv, ReadFeedsListen, NEW e \in Conns, Serve(e), up' = TRUE
  PROVE  ReadFeedsListen'
<1>0. /\ TypeOK /\ up /\ e \in unread /\ fdOf[e] \in Socks /\ Handled(e)
      /\ UNCHANGED <<req, fdOf>> /\ unread' = unread \ {e}
  BY ServedIsSelected DEF TableInv, Serve, Receive
<1> SUFFICES ASSUME \A d \in Conns : link'[d] # "dead", NEW c \in Conns,
                    req[c].type = "feed", link'[c] = "open", fdOf[c] # NoSock,
                    c \notin unread', reply'[c] = "none"
             PROVE  \E k \in DOMAIN listeners' : ListensAt(c, k)'
  BY <1>0 DEF ReadFeedsListen
<1>1. link[c] = "open" /\ \A d \in Conns : link[d] # "dead"
  BY <1>0, LinksSettle
<1> DEFINE l == [userID |-> req[e].user, clientSock |-> fdOf[e], clientAddr |-> req[e].host]
<1>2. \/ UNCHANGED listeners
      \/ listeners' = Append(listeners, l)
  BY <1>0 DEF Handled, handleLogin, handleLogout, handlePost, handleFollow,
              handleUnfollow, handleFeed, handleFailure, addListener
<1>3. /\ listeners \in Seq(Handle) /\ l \in Handle
      /\ DOMAIN listeners = 1 .. Len(listeners) /\ Len(listeners) \in Nat
  <2>1. listeners \in Seq(Handle)
    BY <1>0 DEF TypeOK
  <2>2. l \in Handle
    BY <1>0, ReqTypes DEF Handle
  <2> QED
    BY <2>1, <2>2, LenProperties
<1>4. /\ l.userID = req[e].user /\ l.clientSock = fdOf[e] /\ l.clientAddr = req[e].host
  OBVIOUS
<1> HIDE DEF l
<1>5. CASE c # e
  <2>1. reply[c] = "none"
    BY <1>0, <1>5, HandlerTypes DEF Sent, TypeOK
  <2>2. PICK k \in DOMAIN listeners : ListensAt(c, k)
    BY <1>0, <1>1, <1>5, <2>1 DEF ReadFeedsListen
  <2>3. k \in DOMAIN listeners' /\ listeners'[k] = listeners[k]
    BY <1>2, <1>3, AppendList
  <2> QED
    BY <1>0, <2>2, <2>3 DEF ListensAt
<1>6. CASE c = e
  <2>1. ASSUME handleFailure(e) PROVE FALSE
    <3>1. reply' = [reply EXCEPT ![e] = "failure"]
      BY <2>1, Answered DEF handleFailure, Reply
    <3> QED
      BY <1>0, <1>6, <3>1 DEF TypeOK
  <2>2. listeners' = Append(listeners, l)
    BY <1>0, <1>6, <2>1 DEF Handled, handleLogin, handleLogout, handlePost, handleFollow,
                           handleUnfollow, handleFeed, addListener, l
  <2>3. Len(listeners) + 1 \in DOMAIN listeners' /\ listeners'[Len(listeners) + 1] = l
    BY <1>3, <2>2, AppendList
  <2> QED
    BY <1>0, <1>4, <1>6, <2>3 DEF ListensAt
<1> QED
  BY <1>5, <1>6

LEMMA ReadFeedsStep ==
  ASSUME TableInv, ReadFeedsListen, [Next]_vars
  PROVE  ReadFeedsListen'
<1>0. /\ TypeOK
      /\ link \in [Conns -> Links] /\ fdOf \in [Conns -> Socks \cup {NoSock}]
  BY DEF TableInv, TypeOK
<1>1. ASSUME UNCHANGED <<up, req, reply, listeners>>,
             \A d \in Conns : link[d] = "dead" => link'[d] = "dead",
             \A c \in Conns : link'[c] = "open" /\ fdOf'[c] # NoSock /\ c \notin unread'
                                => link[c] = "open" /\ fdOf'[c] = fdOf[c] /\ c \notin unread
      PROVE  ReadFeedsListen'
  <2> SUFFICES ASSUME up, \A d \in Conns : link'[d] # "dead", NEW c \in Conns,
                      req[c].type = "feed", link'[c] = "open", fdOf'[c] # NoSock,
                      c \notin unread', reply[c] = "none"
               PROVE  \E k \in DOMAIN listeners : ListensAt(c, k)'
    BY <1>1 DEF ReadFeedsListen
  <2>1. /\ link[c] = "open" /\ fdOf'[c] = fdOf[c] /\ c \notin unread
        /\ \A d \in Conns : link[d] # "dead"
    BY <1>1
  <2>2. PICK k \in DOMAIN listeners : ListensAt(c, k)
    BY <2>1 DEF ReadFeedsListen
  <2>3. ListensAt(c, k)'
    BY <1>1, <2>1, <2>2 DEF ListensAt
  <2> QED
    BY <2>3
<1>2. ASSUME NEW c \in Conns, Connect(c) PROVE ReadFeedsListen'
  <2>1. /\ link[c] = "none" /\ link' = [link EXCEPT ![c] = "open"]
        /\ unread' = unread \cup {c} /\ UNCHANGED <<up, req, reply, fdOf, listeners>>
    BY <1>2 DEF Connect, server
  <2>2. \A d \in Conns : d # c => link'[d] = link[d]
    BY <1>0, <2>1
  <2> QED
    BY <1>1, <2>1, <2>2
<1>3. ASSUME NEW c \in Conns, Close(c) \/ ReceiveError(c) PROVE ReadFeedsListen'
  <2>1. /\ link[c] # "dead"
        /\ \E how \in {"fin", "rst", "broken"} : link' = [link EXCEPT ![c] = how]
        /\ UNCHANGED <<up, req, reply, fdOf, unread, listeners>>
    BY <1>3 DEF Close, ReceiveError, server
  <2>2. \A d \in Conns : /\ d # c => link'[d] = link[d]
                         /\ link'[c] # "open"
    BY <1>0, <2>1
  <2> QED
    BY <1>1, <2>1, <2>2
<1>4. CASE Accept
  <2>1. /\ backlog # <<>> /\ UNCHANGED <<up, req, reply, link, unread, listeners>>
        /\ \E s : fdOf' = [fdOf EXCEPT ![Head(backlog)] = s]
    BY <1>4 DEF Accept
  <2>2. Head(backlog) \in unread
    <3>1. backlog \in Seq(Conns)
      BY <1>0 DEF TypeOK
    <3>2. 1 \in DOMAIN backlog /\ Head(backlog) = backlog[1]
      BY <2>1, <3>1, HeadAndTail
    <3> QED
      BY <3>2 DEF TableInv, BacklogSound
  <2>3. \A d \in Conns : d \notin unread => fdOf'[d] = fdOf[d]
    BY <1>0, <2>1, <2>2
  <2> QED
    BY <1>1, <2>1, <2>3
<1>5. ASSUME NEW c \in Conns, Terminate(c) PROVE ReadFeedsListen'
  <2>1. link' = [link EXCEPT ![c] = "dead"]
    BY <1>5 DEF Terminate
  <2>2. link'[c] = "dead"
    BY <1>0, <2>1
  <2> QED
    BY <2>2 DEF ReadFeedsListen
<1>6. ASSUME NEW c \in Conns, Serve(c) PROVE ReadFeedsListen'
  <2>1. Sent(c)
    BY <1>0, <1>6, ServedIsSelected, HandlerTypes
  <2>2. CASE up' = TRUE
    BY <1>6, <2>2, ReadFeedsServe
  <2>3. CASE up' = FALSE
    BY <2>3 DEF ReadFeedsListen
  <2> QED
    BY <2>1, <2>2, <2>3 DEF Sent
<1>7. CASE UNCHANGED vars
  <2>1. UNCHANGED <<up, req, reply, link, fdOf, unread, listeners>>
    BY <1>7 DEF vars, net, server
  <2> QED
    BY <1>1, <2>1
<1> QED
  BY <1>2, <1>3, <1>4, <1>5, <1>6, <1>7 DEF Next, ServerStep

LEMMA ReadFeedsInit == Init => ReadFeedsListen
  BY DEF Init, ReadFeedsListen

\* A step that stores a post delivers it to the feeds of the author's followers.
ReachesFollowers ==
  \A c, p \in Conns :
    /\ reply[p] = "none" /\ reply'[p] = "ackPost"
    /\ LiveFeed(c, req[p].user)
    /\ \A d \in Conns : link[d] # "dead"
    => copies'[c][p] > 0

LEMMA ReachesStep ==
  ASSUME TableInv, ReadFeedsListen, Follows!DumpImpliesPush, [Next]_vars
  PROVE  ReachesFollowers
<1> SUFFICES ASSUME NEW c \in Conns, NEW p \in Conns, reply[p] = "none", reply'[p] = "ackPost",
                    LiveFeed(c, req[p].user), \A d \in Conns : link[d] # "dead"
             PROVE  copies'[c][p] > 0
  BY DEF ReachesFollowers
<1>1. PICK e \in Conns : Serve(e)
  BY OnlyServeDelivers
<1>2. TypeOK /\ up /\ fdOf[e] \in Socks /\ Handled(e)
  BY <1>1, ServedIsSelected DEF TableInv
<1>3. Sent(e) /\ reply \in [Conns -> Replies \cup {"none"}] /\ copies \in [Conns -> [Conns -> Nat]]
  BY <1>2, HandlerTypes DEF TypeOK
<1>4. up' = TRUE
  BY <1>3 DEF Sent
<1>5. /\ p = e
      /\ \E writes : Transmit(p, "ackPost", writes, pushFeedMessage(req[p].user, p))
  BY <1>2, <1>3, <1>4, HandlerPosts
<1>6. copies'[c][p] = copies[c][p] + pushFeedMessage(req[p].user, p)[c][p]
  BY <1>4, <1>5, OpenPeersTakeAll DEF LiveFeed
<1>7. pushFeedMessage(req[p].user, p)[c][p] = Pushes(req[p].user, fdOf[c])
  BY DEF pushFeedMessage, LiveFeed
<1>8. /\ req[p].user \in Users /\ req[c].user \in Users
      /\ isUserLoggedIn(req[c].user, req[c].host)
      /\ \E k \in DOMAIN listeners : ListensAt(c, k)
  BY <1>2, ReqTypes DEF LiveFeed, ReadFeedsListen
<1>9. <<req[p].user, req[c].user>> \in Follows!IdolEdges
  <2>1. <<req[p].user, req[c].user>> \in Follows!FollowerEdges
    BY <1>8 DEF LiveFeed, Follows!FollowerEdges, Follows!Contains, Contains
  <2> QED
    BY <2>1 DEF Follows!DumpImpliesPush
<1>10. Pushes(req[p].user, fdOf[c]) > 0 /\ Pushes(req[p].user, fdOf[c]) \in Nat
  BY <1>2, <1>8, <1>9, PushesSome, CountsOfPushes
<1> QED
  BY <1>3, <1>6, <1>7, <1>10

\* As long as no failure of an allocation is ignored, a post is streamed to
\* every logged-in follower until the first connection is given up
\* (handleFeed, pushFeedMessage; what can go wrong then is Terminate's).
THEOREM PostsReachEveryFollower ==
  ASSUME "lost" \notin Allocs
  PROVE  Spec => PostsReachFollowersUndisturbed
<1>1. Spec => []TableInv
  BY TableInit, TableStep, PTL DEF Spec
<1>2. Spec => [](Follows!NoDuplicates /\ Follows!DumpImpliesPush)
  <2>1. TableInv /\ Follows!NoDuplicates /\ Follows!DumpImpliesPush /\ [Next]_vars
          => Follows!NoDuplicates' /\ Follows!DumpImpliesPush'
    BY MapsStep DEF TableInv
  <2>2. Init => Follows!NoDuplicates /\ Follows!DumpImpliesPush
    BY MapsInit
  <2> QED
    BY <1>1, <2>1, <2>2, PTL DEF Spec
<1>3. Spec => []ReadFeedsListen
  <2>1. TableInv /\ ReadFeedsListen /\ [Next]_vars => ReadFeedsListen'
    BY ReadFeedsStep
  <2> QED
    BY <1>1, <2>1, ReadFeedsInit, PTL DEF Spec
<1>4. TableInv /\ ReadFeedsListen /\ Follows!DumpImpliesPush /\ [Next]_vars
        => [ReachesFollowers]_vars
  BY ReachesStep
<1>5. Spec => [][ReachesFollowers]_vars
  BY <1>1, <1>2, <1>3, <1>4, PTL DEF Spec
<1> QED
  BY <1>5 DEF PostsReachFollowersUndisturbed, ReachesFollowers
=============================================================================
