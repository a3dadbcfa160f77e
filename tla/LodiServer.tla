----------------------------- MODULE LodiServer -----------------------------
(***************************************************************************)
(* The Lodi server (lodi_server.c) on its stream server                    *)
(* (domain_stream_server.c): one thread that loops over select(), accepts  *)
(* connections, reads one request at a time and runs its handler against   *)
(* the login, listener, follower and message repositories.  Around it, the *)
(* clients: every operation of a client program opens a connection of its  *)
(* own, sends one request and closes when it has its reply or is tired of  *)
(* waiting; only a feed connection stays.                                  *)
(*                                                                         *)
(* A connection names everything there is to know of one exchange: the     *)
(* request it carries, the post it makes, the feed it is.  The server never*)
(* sees connections: it sees descriptors, which the kernel hands out anew  *)
(* once they are closed.                                                   *)
(*                                                                         *)
(* A handler is one step.  Nothing else in the process runs during it, and *)
(* the one thing it can observe of the outside, how a peer's socket answers*)
(* a write, is an input of the step.                                       *)
(***************************************************************************)
EXTENDS Integers, Sequences, FiniteSets, SequencesExt

CONSTANTS Users,      \* ids of registered users
          NoUser,     \* NO_USER, the id of a connection that has said nothing
          Hosts,      \* client IP addresses
          Conns,      \* connections, each with one request
          Socks,      \* descriptors the process may hold for clients
          Workload,   \* the requests a connection may carry
          MayClose,   \* connections whose client may close them
          Verdicts,   \* what authenticate and the push confirmation may say
          Allocs      \* outcomes of an allocation in a follow or a post

RequestTypes ==
  {"login", "logout", "post", "follow", "unfollow", "feed", "unknown"}

Request == [type : RequestTypes, user : Users, host : Hosts, target : Users]

ASSUME UsersAssumption == IsFiniteSet(Users) /\ NoUser \notin Users
ASSUME SocksAssumption == Socks \subseteq Nat
ASSUME WorkloadAssumption == Workload \in [Conns -> SUBSET Request]
ASSUME VerdictsAssumption == Verdicts \subseteq BOOLEAN
ASSUME ConnsAssumption == IsFiniteSet(Conns)
ASSUME AllocsAssumption == Allocs \subseteq {"stored", "refused", "lost"}

VARIABLES
  req,            \* the request each connection carries
  link,           \* each connection as the server's kernel sees the peer
  backlog,        \* established connections accept has not taken yet
  unread,         \* connections whose request has not been read
  fdOf,           \* the kernel's table: the descriptor of a connection
  reply,          \* the status written to the connection, "none" before
  copies,         \* copies[c][p]: how often post p was delivered on c
  up,             \* the server process lives
  clients,        \* DomainServer.clients, the handles select() watches
  remoteHandle,   \* main's ClientHandle as the last receive left it
  userStore,      \* login_repository: hosts logged in per user, oldest first
  listeners,      \* listener_repository: handles that receive pushes
  idolMap, followerMap,   \* follower_repository
  userMessages    \* message_repository: the posts of a user, in order

net == <<req, link, backlog, unread, fdOf, reply, copies>>
server == <<up, clients, remoteHandle, userStore, listeners, idolMap,
            followerMap, userMessages>>
vars == <<net, server>>

Follows == INSTANCE FollowerRepository

NoSock == -1
Handle == [userID : Users \cup {NoUser}, clientSock : Socks, clientAddr : Hosts]
NoHandle == [userID |-> NoUser, clientSock |-> NoSock]

Acks == {"ackLogin", "ackLogout", "ackPost", "ackFollow", "ackUnfollow"}
Replies == Acks \cup {"failure"}

\* A link is "open" until the peer closes: "fin" after an orderly close,
\* "rst" after a close that threw away data the peer had not read.  It is
\* "broken" once the kernel has reported the loss or has seen the peer's
\* reset, and "dead" when the server has closed its side as well.
Links == {"none", "open", "fin", "rst", "broken", "dead"}

----------------------------------------------------------------------------
(* The world outside the process. *)

Init ==
  /\ req \in {r \in [Conns -> UNION {Workload[c] : c \in Conns}] :
               \A c \in Conns : r[c] \in Workload[c]}
  /\ link = [c \in Conns |-> "none"]
  /\ backlog = <<>> /\ unread = {}
  /\ fdOf = [c \in Conns |-> NoSock]
  /\ reply = [c \in Conns |-> "none"]
  /\ copies = [c \in Conns |-> [p \in Conns |-> 0]]
  /\ up = TRUE
  /\ clients = <<>> /\ remoteHandle = NoHandle
  /\ userStore = [u \in Users |-> <<>>]
  /\ listeners = <<>>
  /\ Follows!initFollowerRepository
  /\ userMessages = [u \in Users |-> <<>>]

\* A client connects and sends its request.
Connect(c) ==
  /\ up /\ link[c] = "none"
  /\ link' = [link EXCEPT ![c] = "open"]
  /\ backlog' = Append(backlog, c)
  /\ unread' = unread \cup {c}
  /\ UNCHANGED <<req, fdOf, reply, copies, server>>

\* The kernel resets rather than ends a connection that the client closes
\* with undelivered bytes in its receive buffer; there can be some only if
\* the server wrote to it.
WrittenTo(c) == reply[c] # "none" \/ \E p \in Conns : copies[c][p] > 0

Close(c) ==
  /\ up /\ c \in MayClose /\ link[c] = "open"
  /\ \E how \in {"fin"} \cup (IF WrittenTo(c) THEN {"rst"} ELSE {}) :
       link' = [link EXCEPT ![c] = how]
  /\ UNCHANGED <<req, backlog, unread, fdOf, reply, copies, server>>

----------------------------------------------------------------------------
(* streamServerSend.  writes[d] is the number of messages a handler sends  *)
(* to the descriptor of connection d.  An open peer takes them all.  After *)
(* an orderly close the first one is accepted and provokes a reset; after a*)
(* reset the first one fails.  A send to a broken link raises SIGPIPE,     *)
(* which nothing in the process handles: send() is called without          *)
(* MSG_NOSIGNAL.                                                           *)

MustDie(writes) ==
  \E d \in Conns : \/ link[d] = "broken" /\ writes[d] > 0
                   \/ link[d] = "rst" /\ writes[d] > 1

MayDie(writes) ==
  MustDie(writes) \/ \E d \in Conns : link[d] = "fin" /\ writes[d] > 1

\* The sends of one handler: feed[d][p] copies of post p to d, then ack to c
\* ("none": the handler does not reply).  The peer's reset may come back
\* before the next send or after it.
Transmit(c, ack, writes, feed) ==
  \/ /\ ~ MustDie(writes)
     /\ \E reset \in SUBSET {d \in Conns : link[d] = "fin" /\ writes[d] > 0} :
          link' = [d \in Conns |->
                     IF d \in reset \/ (link[d] = "rst" /\ writes[d] > 0)
                     THEN "broken" ELSE link[d]]
     /\ copies' = [d \in Conns |-> [p \in Conns |->
                     IF link[d] = "open" THEN copies[d][p] + feed[d][p]
                                         ELSE copies[d][p]]]
     /\ reply' = [reply EXCEPT ![c] = ack]
     /\ UNCHANGED up
  \/ /\ MayDie(writes)
     /\ up' = FALSE
     /\ UNCHANGED <<link, copies, reply>>

NoFeed == [d \in Conns |-> [p \in Conns |-> 0]]

\* A handler whose only message is its reply.
Reply(c, ack) ==
  Transmit(c, ack, [d \in Conns |-> IF d = c THEN 1 ELSE 0], NoFeed)

----------------------------------------------------------------------------
(* login_repository.c *)

\* Only the oldest entry of a user is ever looked at, and only its address.
isUserLoggedIn(user, host) ==
  userStore[user] # <<>> /\ Head(userStore[user]) = host

\* Mutant: the entry is found and stays.
userLogoutKeeps(store) == store

userLogout(store) == Tail(store)

userLogin(store, host) == Append(store, host)

----------------------------------------------------------------------------
(* listener_repository.c *)

\* Mutant: registered at both ends of handleFeed.
addListenerTwice(c) ==
  LET l == [userID |-> req[c].user, clientSock |-> fdOf[c], clientAddr |-> req[c].host]
  IN  listeners' = listeners \o <<l, l>>

addListener(c) ==
  listeners' = Append(listeners, [userID |-> req[c].user,
                                  clientSock |-> fdOf[c],
                                  clientAddr |-> req[c].host])

IsListener(k, h) ==
  listeners[k].userID = h.userID /\ listeners[k].clientSock = h.clientSock

\* The first listener with the user and the descriptor of h, if any.
removeListener(h) ==
  \/ \E k \in DOMAIN listeners :
       /\ IsListener(k, h) /\ \A j \in 1 .. k - 1 : ~ IsListener(j, h)
       /\ listeners' = RemoveAt(listeners, k)
  \/ /\ \A k \in DOMAIN listeners : ~ IsListener(k, h)
     /\ UNCHANGED listeners

----------------------------------------------------------------------------
(* What the handlers of posts and feeds send. *)

\* Mutant: the listener's session is not looked at.
PushesUnchecked(idol, s) ==
  LET followers == Follows!getIdolFollowers(idol)
  IN  Cardinality({ab \in (DOMAIN followers) \X (DOMAIN listeners) :
                     /\ listeners[ab[2]].userID = followers[ab[1]]
                     /\ listeners[ab[2]].clientSock = s})

\* The pushes of a post by idol that reach descriptor s: one for every pair
\* of a follower and a listener of that follower that is logged in.
Pushes(idol, s) ==
  LET followers == Follows!getIdolFollowers(idol)
  IN  Cardinality({ab \in (DOMAIN followers) \X (DOMAIN listeners) :
                     LET l == listeners[ab[2]]
                     IN  /\ l.userID = followers[ab[1]]
                         /\ l.clientSock = s
                         /\ isUserLoggedIn(l.userID, l.clientAddr)})

pushFeedMessage(idol, p) ==
  [d \in Conns |-> [q \in Conns |->
     IF q = p /\ fdOf[d] # NoSock THEN Pushes(idol, fdOf[d]) ELSE 0]]

\* The positions messages have in the lists getMessages returns.
Places == UNION {DOMAIN userMessages[i] : i \in Users}

\* Mutant: the loop over an idol's messages stops one short.
DumpShort(user) ==
  LET idols == Follows!getFollowerIdols(user)
  IN  {ab \in (DOMAIN idols) \X Places :
         ab[2] < Len(userMessages[idols[ab[1]]])}

\* The places <<a, b>> of the initial dump: message b of the a-th idol.
Dump(user) ==
  LET idols == Follows!getFollowerIdols(user)
  IN  {ab \in (DOMAIN idols) \X Places :
         ab[2] \in DOMAIN userMessages[idols[ab[1]]]}

DumpOf(user, p) ==
  LET idols == Follows!getFollowerIdols(user)
  IN  {ab \in Dump(user) : userMessages[idols[ab[1]]][ab[2]] = p}

----------------------------------------------------------------------------
(* streamServerReceive: new connections first, then the first readable     *)
(* client in the order of the list.                                        *)

FreeSocks == Socks \ {fdOf[c] : c \in Conns}

\* tcpAccept returns the lowest free descriptor.  With none free it fails,
\* receive returns DOMAIN_FAILURE and main calls it again: no step at all,
\* and the waiting connection keeps every client from being read.
Accept ==
  /\ up /\ backlog # <<>>
  /\ \E s \in FreeSocks :
       /\ \A t \in FreeSocks : s <= t
       /\ fdOf' = [fdOf EXCEPT ![Head(backlog)] = s]
       /\ clients' = Append(clients, [userID |-> NoUser, clientSock |-> s,
                                      clientAddr |-> req[Head(backlog)].host])
  /\ backlog' = Tail(backlog)
  /\ UNCHANGED <<req, link, unread, reply, copies, up, remoteHandle, userStore,
                 listeners, idolMap, followerMap, userMessages>>

Readable(s) ==
  \E c \in Conns : fdOf[c] = s /\ (c \in unread \/ link[c] # "open")

\* Mutant: only the first client of the list is tried.
SelectedFirstOnly(i, c) ==
  /\ up /\ backlog = <<>>
  /\ i \in DOMAIN clients /\ i = 1 /\ fdOf[c] = clients[i].clientSock
  /\ Readable(clients[i].clientSock)

\* receive turns to client i, whose descriptor is that of connection c.
Selected(i, c) ==
  /\ up /\ backlog = <<>>
  /\ i \in DOMAIN clients /\ fdOf[c] = clients[i].clientSock
  /\ Readable(clients[i].clientSock)
  /\ \A j \in 1 .. i - 1 : ~ Readable(clients[j].clientSock)

\* A whole request is read: the client's handle learns the user it names,
\* and main's remoteHandle is filled.
Receive(c) ==
  /\ c \in unread
  /\ \E i \in DOMAIN clients :
       /\ Selected(i, c)
       /\ clients' = [clients EXCEPT ![i].userID = req[c].user]
  /\ remoteHandle' = [userID |-> req[c].user, clientSock |-> fdOf[c]]
  /\ unread' = unread \ {c}
  /\ UNCHANGED <<req, backlog, fdOf>>

\* recv reports the peer's reset once: DOMAIN_FAILURE, the client stays.
ReceiveError(c) ==
  /\ c \notin unread /\ link[c] = "rst"
  /\ \E i \in DOMAIN clients : Selected(i, c)
  /\ link' = [link EXCEPT ![c] = "broken"]
  /\ UNCHANGED <<req, backlog, unread, fdOf, reply, copies, server>>

\* Mutant: the closed client stays in the list.
TerminateKeepsClient(c) ==
  /\ c \notin unread /\ link[c] \in {"fin", "broken"}
  /\ \E i \in DOMAIN clients : Selected(i, c)
  /\ fdOf' = [fdOf EXCEPT ![c] = NoSock]
  /\ link' = [link EXCEPT ![c] = "dead"]
  /\ \E h \in {remoteHandle, NoHandle} : removeListener(h)
  /\ UNCHANGED <<req, backlog, unread, reply, copies, up, clients, remoteHandle,
                 userStore, idolMap, followerMap, userMessages>>

\* Mutant: the closed client is marked and stays in the list.
TerminateMarksClient(c) ==
  /\ c \notin unread /\ link[c] \in {"fin", "broken"}
  /\ \E i \in DOMAIN clients :
       /\ Selected(i, c)
       /\ clients' = [clients EXCEPT ![i].clientSock = NoSock]
  /\ fdOf' = [fdOf EXCEPT ![c] = NoSock]
  /\ link' = [link EXCEPT ![c] = "dead"]
  /\ \E h \in {remoteHandle, NoHandle} : removeListener(h)
  /\ UNCHANGED <<req, backlog, unread, reply, copies, up, remoteHandle,
                 userStore, idolMap, followerMap, userMessages>>

\* Mutant: the client is forgotten and its descriptor not closed.
TerminateNoClose(c) ==
  /\ c \notin unread /\ link[c] \in {"fin", "broken"}
  /\ \E i \in DOMAIN clients :
       /\ Selected(i, c)
       /\ clients' = RemoveAt(clients, i)
  /\ link' = [link EXCEPT ![c] = "dead"]
  /\ \E h \in {remoteHandle, NoHandle} : removeListener(h)
  /\ UNCHANGED <<req, backlog, unread, fdOf, reply, copies, up, remoteHandle,
                 userStore, idolMap, followerMap, userMessages>>

\* recv returns 0: TERMINATED.  The handle of the closed client is copied
\* into a local pointer of streamServerReceive, not into main's
\* remoteHandle; main removes the listener that remoteHandle describes,
\* which is the last one a request was read from, or indeterminate.
Terminate(c) ==
  /\ c \notin unread /\ link[c] \in {"fin", "broken"}
  /\ \E i \in DOMAIN clients :
       /\ Selected(i, c)
       /\ clients' = RemoveAt(clients, i)
  /\ fdOf' = [fdOf EXCEPT ![c] = NoSock]
  /\ link' = [link EXCEPT ![c] = "dead"]
  /\ \E h \in {remoteHandle, NoHandle} : removeListener(h)
  /\ UNCHANGED <<req, backlog, unread, reply, copies, up, remoteHandle,
                 userStore, idolMap, followerMap, userMessages>>

----------------------------------------------------------------------------
(* main and the handlers. *)

\* Mutant: a previous session is not invalidated.
handleLoginKeepsSession(c) ==
  LET u == req[c].user
      h == req[c].host
  IN  /\ req[c].type = "login"
      /\ \E valid \in Verdicts :
           /\ userStore' = IF ~ valid THEN userStore
                           ELSE [userStore EXCEPT ![u] = userLogin(@, h)]
           /\ Reply(c, IF valid THEN "ackLogin" ELSE "failure")
      /\ UNCHANGED <<listeners, idolMap, followerMap, userMessages>>

handleLogin(c) ==
  LET u == req[c].user
      h == req[c].host
  IN  /\ req[c].type = "login"
      /\ \E valid \in Verdicts :
           /\ userStore' =
                IF ~ valid THEN userStore
                ELSE [userStore EXCEPT ![u] =
                        userLogin(IF isUserLoggedIn(u, h) THEN userLogout(@)
                                                          ELSE @, h)]
           /\ Reply(c, IF valid THEN "ackLogin" ELSE "failure")
      /\ UNCHANGED <<listeners, idolMap, followerMap, userMessages>>

\* Mutant: a valid signature is enough for a post.
AdmittedBySignature(c) ==
  /\ TRUE \in Verdicts
  /\ req[c].type = "post" \/ isUserLoggedIn(req[c].user, req[c].host)

\* The test main makes before every handler but that of a login.
Admitted(c) == TRUE \in Verdicts /\ isUserLoggedIn(req[c].user, req[c].host)

handleFailure(c) ==
  /\ req[c].type # "login"
  /\ \/ FALSE \in Verdicts
     \/ ~ isUserLoggedIn(req[c].user, req[c].host)
     \/ req[c].type = "unknown"
  /\ Reply(c, "failure")
  /\ UNCHANGED <<userStore, listeners, idolMap, followerMap, userMessages>>

\* Mutant: the session ends only if the second authentication succeeds.
handleLogoutOnAck(c) ==
  /\ req[c].type = "logout" /\ Admitted(c)
  /\ \E valid \in Verdicts :
       /\ userStore' = IF ~ valid THEN userStore
                       ELSE [userStore EXCEPT ![req[c].user] = userLogout(@)]
       /\ Reply(c, IF valid THEN "ackLogout" ELSE "failure")
  /\ UNCHANGED <<listeners, idolMap, followerMap, userMessages>>

\* The second authentication decides the reply and nothing else.
handleLogout(c) ==
  /\ req[c].type = "logout" /\ Admitted(c)
  /\ userStore' = [userStore EXCEPT ![req[c].user] = userLogout(@)]
  /\ \E valid \in Verdicts : Reply(c, IF valid THEN "ackLogout" ELSE "failure")
  /\ UNCHANGED <<listeners, idolMap, followerMap, userMessages>>

\* Mutant: nothing is stored for an author without followers.
handlePostUnfollowed(c) ==
  LET feed == pushFeedMessage(req[c].user, c)
  IN  /\ req[c].type = "post" /\ Admitted(c)
      /\ userMessages' = IF idolMap[req[c].user] = <<>> THEN userMessages
                         ELSE [userMessages EXCEPT ![req[c].user] = Append(@, c)]
      /\ Transmit(c, "ackPost",
                  [d \in Conns |-> feed[d][c] + (IF d = c THEN 1 ELSE 0)], feed)
      /\ UNCHANGED <<userStore, listeners, idolMap, followerMap>>

\* Mutant: the post is acknowledged before the pushes and after them.
handlePostAcksTwice(c) ==
  LET feed == pushFeedMessage(req[c].user, c)
  IN  /\ req[c].type = "post" /\ Admitted(c)
      /\ userMessages' = [userMessages EXCEPT ![req[c].user] = Append(@, c)]
      /\ Transmit(c, "ackPost",
                  [d \in Conns |-> feed[d][c] + (IF d = c THEN 2 ELSE 0)], feed)
      /\ UNCHANGED <<userStore, listeners, idolMap, followerMap>>

\* The post is stored, then pushed, then acknowledged; when addMessage cannot
\* allocate it, it is refused.
handlePost(c) ==
  LET feed == pushFeedMessage(req[c].user, c)
  IN  /\ req[c].type = "post" /\ Admitted(c)
      /\ \/ /\ userMessages' = [userMessages EXCEPT ![req[c].user] = Append(@, c)]
            /\ Transmit(c, "ackPost",
                        [d \in Conns |-> feed[d][c] + (IF d = c THEN 1 ELSE 0)],
                        feed)
         \/ /\ "refused" \in Allocs
            /\ UNCHANGED userMessages
            /\ Reply(c, "failure")
      /\ UNCHANGED <<userStore, listeners, idolMap, followerMap>>

handleFollow(c) ==
  /\ req[c].type = "follow" /\ Admitted(c)
  /\ \E rv \in Follows!Status :
       /\ Follows!addFollower(req[c].target, req[c].user, rv)
       /\ Reply(c, IF rv = "ERROR" THEN "failure" ELSE "ackFollow")
  /\ UNCHANGED <<userStore, listeners, userMessages>>

handleUnfollow(c) ==
  /\ req[c].type = "unfollow" /\ Admitted(c)
  /\ \E rv \in Follows!Status :
       /\ Follows!removeFollower(req[c].target, req[c].user, rv)
       /\ Reply(c, IF rv = "ERROR" THEN "failure" ELSE "ackUnfollow")
  /\ UNCHANGED <<userStore, listeners, userMessages>>

\* Mutant: who follows nobody yet is not registered.
handleFeedFollowersOnly(c) ==
  LET u == req[c].user
  IN  /\ req[c].type = "feed" /\ Admitted(c)
      /\ IF followerMap[u] = <<>> THEN UNCHANGED listeners ELSE addListener(c)
      /\ Transmit(c, "none",
                  [d \in Conns |-> IF d = c THEN Cardinality(Dump(u)) ELSE 0],
                  [d \in Conns |-> [p \in Conns |->
                     IF d = c THEN Cardinality(DumpOf(u, p)) ELSE 0]])
      /\ UNCHANGED <<userStore, idolMap, followerMap, userMessages>>

\* The listener is added first, the dump follows on the same connection;
\* the request itself is never answered.
handleFeed(c) ==
  LET u == req[c].user
  IN  /\ req[c].type = "feed" /\ Admitted(c)
      /\ addListener(c)
      /\ Transmit(c, "none",
                  [d \in Conns |-> IF d = c THEN Cardinality(Dump(u)) ELSE 0],
                  [d \in Conns |-> [p \in Conns |->
                     IF d = c THEN Cardinality(DumpOf(u, p)) ELSE 0]])
      /\ UNCHANGED <<userStore, idolMap, followerMap, userMessages>>

Serve(c) ==
  /\ Receive(c)
  /\ \/ handleLogin(c)  \/ handleLogout(c)   \/ handlePost(c)
     \/ handleFollow(c) \/ handleUnfollow(c) \/ handleFeed(c)
     \/ handleFailure(c)

ServerStep ==
  Accept \/ \E c \in Conns : Serve(c) \/ ReceiveError(c) \/ Terminate(c)

Next == ServerStep \/ \E c \in Conns : Connect(c) \/ Close(c)

Spec == Init /\ [][Next]_vars

\* The server's loop runs whenever select() has something to report.
FairSpec == Spec /\ WF_vars(ServerStep)

----------------------------------------------------------------------------
(* Properties. *)

TypeOK ==
  /\ req \in [Conns -> Request]
  /\ link \in [Conns -> Links]
  /\ backlog \in Seq(Conns) /\ unread \in SUBSET Conns
  /\ fdOf \in [Conns -> Socks \cup {NoSock}]
  /\ reply \in [Conns -> Replies \cup {"none"}]
  /\ copies \in [Conns -> [Conns -> Nat]]
  /\ up \in BOOLEAN
  /\ clients \in Seq(Handle)
  /\ remoteHandle \in [userID : Users \cup {NoUser}, clientSock : Socks \cup {NoSock}]
  /\ userStore \in [Users -> Seq(Hosts)]
  /\ listeners \in Seq(Handle)
  /\ Follows!TypeOK
  /\ userMessages \in [Users -> Seq(Conns)]

\* The list select() watches and the kernel's descriptor table never drift
\* apart, however descriptors are reused: no client is watched twice or
\* after its close, none that is open is forgotten, and the address and the
\* user a handle carries are those of the connection behind it.
FdTableSound ==
  /\ \A i, j \in DOMAIN clients :
       clients[i].clientSock = clients[j].clientSock => i = j
  /\ \A c, d \in Conns : fdOf[c] = fdOf[d] /\ fdOf[c] # NoSock => c = d
  /\ \A c \in Conns : fdOf[c] # NoSock =>
       \E i \in DOMAIN clients : clients[i].clientSock = fdOf[c]
  /\ \A i \in DOMAIN clients : \E c \in Conns :
       /\ clients[i].clientSock = fdOf[c]
       /\ clients[i].clientAddr = req[c].host
       /\ clients[i].userID = IF c \in unread THEN NoUser ELSE req[c].user

\* Some connection from host has logged user in and been told so.
LoggedInFrom(user, host) ==
  \E d \in Conns : /\ req[d].type = "login" /\ reply[d] = "ackLogin"
                   /\ req[d].user = user /\ req[d].host = host

\* No reply but a failure, no stored post, no session and no listener
\* without a login of the same user from the same host before it, across
\* any interleaving of sessions: authenticate and isUserLoggedIn in main.
AuthorisedOnly == up =>
  /\ \A c \in Conns : reply[c] \in Acks =>
       LoggedInFrom(req[c].user, req[c].host)
  /\ \A u \in Users : \A k \in DOMAIN userMessages[u] :
       LoggedInFrom(u, req[userMessages[u][k]].host)
  /\ \A u \in Users : \A k \in DOMAIN userStore[u] :
       LoggedInFrom(u, userStore[u][k])
  /\ \A k \in DOMAIN listeners :
       LoggedInFrom(listeners[k].userID, listeners[k].clientAddr)

\* A post that was acknowledged is in the author's list exactly once, and
\* nothing is in the list that was answered in any other way.
PostsStoredOnce == up =>
  \A c \in Conns, u \in Users :
    Cardinality({k \in DOMAIN userMessages[u] : userMessages[u][k] = c})
      = IF reply[c] = "ackPost" /\ req[c].user = u THEN 1 ELSE 0

\* Every login of user so far has come from one and the same host.
OneHostSoFar(user) ==
  \A g, h \in Hosts : LoggedInFrom(user, g) /\ LoggedInFrom(user, h) => g = h

\* A user has one session at most for as long as all the logins have come from
\* one host, however they and the logouts follow each other: userLogin only
\* appends, and handleLogin looks for an older session at the head alone.  A
\* login from a second host is not found there and its session stays behind.
SingleSession == up =>
  \A u \in Users : OneHostSoFar(u) => Len(userStore[u]) <= 1

\* After a logout, whatever the second authentication in handleLogout has said
\* and the client has been told, its host is logged out, for a user of one
\* host so far: handleLogout removes the oldest entry only.
LogoutEndsSession ==
  [][\A c \in Conns :
       c \in unread /\ c \notin unread' /\ handleLogout(c) /\ up' /\
       OneHostSoFar(req[c].user) =>
         ~ isUserLoggedIn(req[c].user, req[c].host)']_vars

\* The connections of user from host that were acknowledged with ack.
Acknowledged(ack, user, host) ==
  {d \in Conns : reply[d] = ack /\ req[d].user = user /\ req[d].host = host}

\* Nothing is done for a host that has logged out as often as it has logged
\* in: a request other than a login is acknowledged, and a feed registered,
\* only while more logins than logouts of its user and host stand, over any
\* interleaving of the connections they arrive on (isUserLoggedIn in main).
OnlyInSession ==
  [][\A c \in Conns :
       c \in unread /\ c \notin unread' /\ req[c].type # "login" /\
       (reply'[c] \in Acks \/ listeners' # listeners) =>
         Cardinality(Acknowledged("ackLogout", req[c].user, req[c].host))
           < Cardinality(Acknowledged("ackLogin", req[c].user, req[c].host))]_vars

Registered(c) ==
  \E k \in DOMAIN listeners : /\ listeners[k].clientSock = fdOf[c]
                              /\ listeners[k].userID = req[c].user

\* No unfollow and no logout has been served.
Steady ==
  \A d \in Conns : req[d].type \in {"unfollow", "logout"} =>
    d \in unread \/ link[d] = "none"

\* A feed has no holes: where a post of an idol has been delivered, every
\* later post of that idol has been as well, whether it came in the dump or
\* as a push, as long as the feed is registered, its peer is there and nobody
\* has unfollowed or logged out (pushFeedMessage would then skip the post).
FeedGapFree == up /\ Steady =>
  \A c \in Conns, i \in Users :
    req[c].type = "feed" /\ link[c] = "open" /\ Registered(c) =>
      \A j, k \in DOMAIN userMessages[i] :
        j < k /\ copies[c][userMessages[i][j]] > 0
              => copies[c][userMessages[i][k]] > 0

\* No feed has ended: a connection that carried one and was closed may have
\* left its listener behind.
FeedsLive == \A d \in Conns : req[d].type = "feed" => link[d] # "dead"

\* No post is delivered twice on one connection, by dump and push together,
\* before the first feed ends: the listener of a feed that has ended would
\* double what the next feed on its descriptor is sent (addListener).
NoDoubleDelivery == FeedsLive => \A c, p \in Conns : copies[c][p] <= 1

\* d is the feed of a user who is logged in at its host and follows idol.
FeedOfFollower(d, idol) ==
  /\ req[d].type = "feed" /\ isUserLoggedIn(req[d].user, req[d].host)
  /\ \/ Contains(idolMap[idol], req[d].user)
     \/ Contains(followerMap[req[d].user], idol)

\* The listener of d stands in the repository with descriptor s.
Listens(d, s) ==
  \E k \in DOMAIN listeners :
    listeners[k] = [userID |-> req[d].user, clientSock |-> s,
                    clientAddr |-> req[d].host]

\* A post goes out on a connection only if that is the feed of a user who is
\* logged in there and follows the author at that time (pushFeedMessage,
\* handleFeed), or if the connection has got the descriptor of a feed of such
\* a user that has ended and is a listener still: a stale listener is the one
\* way to anybody else, and it too counts only with a session and a follow.
OnlyFollowersReceive ==
  [][\A c, p \in Conns : copies'[c][p] > copies[c][p] =>
       \/ FeedOfFollower(c, req[p].user)
       \/ \E d \in Conns : /\ link[d] = "dead" /\ Listens(d, fdOf[c])
                           /\ FeedOfFollower(d, req[p].user)]_vars

\* Only a feed whose client has closed can cost the server its life: every
\* other connection is written to once, and that raises no SIGPIPE however
\* its client closes (streamServerSend, send without MSG_NOSIGNAL).
OnlyClosedFeedsKill ==
  ~ up => \E d \in Conns : req[d].type = "feed" /\ link[d] \notin {"none", "open"}

\* c is the feed of a logged-in follower: its request was admitted, its peer
\* is there, and the session and the follow still stand.
LiveFeed(c, idol) ==
  /\ req[c].type = "feed" /\ link[c] = "open" /\ fdOf[c] # NoSock
  /\ c \notin unread /\ reply[c] = "none"
  /\ isUserLoggedIn(req[c].user, req[c].host)
  /\ Contains(followerMap[req[c].user], idol)

\* A new post is streamed to every logged-in follower (pushFeedMessage).
PostsReachFollowers ==
  [][\A c, p \in Conns :
       /\ reply[p] = "none" /\ reply'[p] = "ackPost"
       /\ LiveFeed(c, req[p].user)
       => copies'[c][p] > 0]_vars

\* The same as long as no connection at all has been given up: whatever comes
\* between the follow, the feed and the post, the order of handleFeed and
\* pushFeedMessage loses nobody.
PostsReachFollowersUndisturbed ==
  [][\A c, p \in Conns :
       /\ reply[p] = "none" /\ reply'[p] = "ackPost"
       /\ LiveFeed(c, req[p].user)
       /\ \A d \in Conns : link[d] # "dead"
       => copies'[c][p] > 0]_vars

\* No descriptor is free and a connection waits for one.  streamServerReceive
\* then fails in accept before it reads anybody, so that this never ends.
TableFull == backlog # <<>> /\ FreeSocks = {}

\* Every request is read, and every one but a feed is answered, also behind
\* clients that are always readable: receive turns to the first of them only.
\* Clients that close a connection of one reply, before the server reads from
\* it or with that reply unread, hold nobody up.  The one exception is a full
\* table of descriptors, from which the server does not come back.
EveryRequestAnswered ==
  \A c \in Conns :
    c \in unread ~> \/ c \notin unread /\ (req[c].type = "feed" \/ reply[c] # "none")
                   \/ TableFull

\* The descriptor of a connection that its client has closed is given back,
\* also when the close came as a reset or raced with a reply, unless the table
\* was full before.
DescriptorsReleased ==
  \A c \in Conns :
    link[c] \in {"fin", "rst", "broken"} ~>
      \/ link[c] = "dead" /\ fdOf[c] = NoSock
      \/ TableFull
=============================================================================
