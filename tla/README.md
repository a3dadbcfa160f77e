# Verification of the Lodi system

Lodi is a small social network written in C: users follow idols, idols post,
and posts are streamed to the followers that are logged in. This directory
holds TLA+ models of the code, the configurations TLC checks them with, and
theorems about them that the TLA+ proof system TLAPS checks. Paths below are
relative to the repository root.

## 1. Inventory

| Component | Code | State | Operations | Interacts with |
|---|---|---|---|---|
| Lodi server | `src/lodi-server/lodi_server.c` | none but its repositories | login, logout, post, follow, unfollow, feed, failure; `pushFeedMessage`, `sendPushRequest`, `authenticate` | stream server (requests and replies), four repositories (calls), PKE and TFA server (datagrams) |
| Stream server | `src/shared/domain/impl/domain_stream_server.c`, `domain_stream_shared.h` | list of client handles | `receive` (select, accept, recv), `send` | kernel sockets, `main` of the Lodi server |
| Login repository | `src/lodi-server/login_repository.c` | hosts logged in per user | `userLogin`, `userLogout`, `isUserLoggedIn` | handlers |
| Listener repository | `src/lodi-server/listener_repository.c` | handles that receive pushes | `addListener`, `removeListener`, `getAllListeners` | `handleFeed`, `main`, `pushFeedMessage` |
| Follower repository | `src/lodi-server/follower_repository.c` | two maps of lists of ids | `addFollower`, `removeFollower`, two getters | follow, unfollow, dump and push |
| Message repository | `src/lodi-server/message_repository.c` | list of posts per user | `addMessage`, `getMessages` | post, dump |
| List, integer map | `src/shared/collections/` | linked nodes, hash buckets | append, get, remove; add, get, remove | all repositories |
| Sockets | `src/shared/util/network.c` | the kernel's | connect, accept, send, recv, sendto, recvfrom | both kinds of services |
| Stream client | `src/shared/domain/impl/domain_stream_client.c` | socket, connected or not | start, send, receive, stop | Lodi client, stream feed |
| Stream feed process | `src/lodi-client/stream_feed.c` | running flag, connection | start (fork), loop with reconnect, stop (signal and wait) | Lodi client, Lodi server |
| Lodi client | `src/lodi-client/lodi_client.c`, `lodi_client_domain_manager.c` | session, pid of the feed | menu of operations | Lodi server, PKE server, feed process |
| Datagram services | `src/shared/domain/impl/domain_datagram.c` | socket | send, receive with a sender filter | PKE, TFA |
| PKE server | `src/pke-server/` | public key per user | register, request | Lodi client, Lodi server, TFA server |
| TFA server | `src/tfa-server/` | handle of the device per user | register (with acknowledgement), push | TFA client, Lodi server, PKE server |
| TFA client | `src/tfa-client/tfa_client.c` | none | register once, confirm pushes for ever | TFA server |
| RSA, serialisation, configuration, input | `src/shared/util/`, `src/shared/domain/{lodi,pke,tfa}.c`, `src/rsa-utils/` | none | pure functions and I/O | everything |

What is hard in it:

* **Everything meets in one thread.** Each operation of a client is a
  connection of its own, so two requests of one user arrive on two descriptors
  and are served in the order `select` and the list of clients give, not in the
  order they were sent. A feed and its push depend on four of them: login,
  follow, feed, post.
* **Descriptors are reused.** Listeners and handles name a connection by its
  number; the kernel hands the number out again after `close`.
* **A parameter that is a local variable.** On `TERMINATED`,
  `streamServerReceive` puts the closed client's handle into its own copy of
  the out-parameter; `main` goes on with whatever `remoteHandle` held before.
* **Peers go away** during a request, between the messages of a dump, with or
  without a reset; `send` may raise `SIGPIPE`.
* **Two maps for one relation**, written one after the other, where either
  write may fail for want of memory, and some failures go unnoticed.
* **Datagrams without identity**: an answer that comes late is taken for the
  answer to the next question.
* **Signals and a blocking `recv`** in the feed process.
* **A client that gives up** after its time limit while the server goes on, and
  a server that forgets everything when it restarts: the menu of the client, its
  feed process and the server's session can each think differently.
* **Streams without marks**: `recv` returns what has arrived, up to a whole
  message, also when a part of one is already there.
* **Arithmetic at the width of a word** and formats written down twice, once to
  serialise and once to deserialise.

Properties that make each component correct: the repositories describe one
graph of follows and say so in their statuses; a session exists only after a
login, and ends with a logout; the list of clients and the kernel's descriptors
never drift apart; each post is stored once, delivered at most once per feed,
without holes, to those who follow and are logged in, and to nobody else; every
request is answered and every descriptor given back; the process stays up. The
code does not provide all of this: "What the code does not provide" in section 3
says where each of these ends.

## 2. Modules

| Module | Models | Role |
|---|---|---|
| `FollowGraph` | what the follower repository promises: a set of pairs | abstract specification |
| `FollowerRepository` | `follower_repository.c` with the outcomes of its allocations | component, used by `LodiServer` |
| `LodiServer` | `lodi_server.c`, the stream server, login, listener and message repositories, and the connections around them | composition |
| `StreamFeed` | `stream_feed.c` over `domain_stream_client.c`, its parent and the server it connects to | component |
| `Datagrams` | `domain_datagram.c` over `network.c` | instantiated by the next two |
| `Confirmation` | `tfa_server.c`, `registration_repository.c`, `tfa_client.c` and `sendPushRequest` of the Lodi server | composition |
| `KeyLookup` | `pke_server.c`, `key_repository.c`, `getPublicKey` and the registration of keys by the Lodi client | composition |
| `FeedLife` | what the Lodi client counts on of its feed process: it asks, asks anew after a loss, ends when told or refused | abstract specification |
| `ClientSession` | `lodi_client.c`: menus, login, session, logout, around `FeedLife` and the session the server keeps | composition |
| `KeyedQueues` | what the stores count on of an integer map: a queue of values per key | abstract specification |
| `LinkedList` | `list.c`, nodes and pointers | component, used by `IntMap` |
| `IntMap` | `map.c` over `LinkedList` | component |
| `Wire` | `buffer.c` and the layouts of `lodi.c`, `pke.c`, `tfa.c` | pure functions |
| `Rsa` | `rsa.c` | pure functions |
| `TcpFraming` | `sendTcpMessage` and `receiveTcpMessage` of `network.c` | component, instantiated twice by the next |
| `SignedRequests` | the way of a signed request from `rsa_generate.c` to the answer | composition of the last three |
| `MCFollowerRepository`, `MCLodiServer`, `MCStreamFeed`, `MCConfirmation`, `MCKeyLookup`, `MCIntMap`, `MCSignedRequests` | finite instances, workloads, bounds | model checking |
| `FollowerRepositoryProofs`, `LodiServerProofs`, `StreamFeedProofs`, `ClientSessionProofs`, `ConfirmationProofs`, `KeyLookupProofs`, `IntMapProofs`, `SignedRequestsProofs` | invariants, refinements, what the recursive functions compute | proofs |

### FollowerRepository

`idolMap[i]` lists the followers of `i`, `followerMap[f]` the idols of `f`; a key
that the C map lacks has the empty list, which is also what its getters let a
caller see. `addIdolFollower` and `addFollowerIdol` are the two static helpers:
each looks for the id, then appends it, with an allocation that is "stored",
"refused" (checked: the caller sees `ERROR`) or "lost" (unchecked: `SUCCESS`
and nothing stored). `addFollower` and `removeFollower` are the two public calls
with their order and early return; the status is a parameter of the action, so
that the composition can use it.

`FollowGraph` says what this is for: `follows` is a set of pairs. The refinement
maps `follows` to the pairs of `idolMap` (`GraphSpec`); `CallsMatchGraph` adds
that the status reports what happened to the graph. Both are action properties
of the form `[A]_vars`: a call that changes no variable is not seen by them. The
lemmas `AddFollowerEdges`, `RemoveFollowerEdges` and `CallsMatch` of the proofs
hold for those calls too.

### LodiServer

Variables and code:

| Variable | Code |
|---|---|
| `clients` | `DomainServer.clients` |
| `remoteHandle` | the local of `main`, declared in the loop and never initialised: between rounds it keeps the value of the last round or is indeterminate |
| `userStore`, `listeners`, `idolMap`, `followerMap`, `userMessages` | the repositories' static variables |
| `up` | the process exists |
| `backlog`, `fdOf` | the kernel's accept queue and descriptor table |
| `req`, `link`, `unread`, `reply`, `copies` | each connection: its request, its peer, whether the request has been read, what came back |

`Accept`, `Serve`, `ReceiveError` and `Terminate` are one round of `main`'s loop:
what `select` reports, in the order `streamServerReceive` looks at it. `Serve` is
`Receive` (the client's handle learns its user, `remoteHandle` is filled) and one
handler, `handleLogin` to `handleFailure`, chosen by the conditions of `main`.
A handler is one step because the process has one thread and no handler waits
for a client; the one thing that can happen meanwhile, a peer that closes or a
reset that arrives between two sends, is in `Transmit`. `authenticate` and the push
confirmation leave no trace in this process: what they answer is any value of
`Verdicts`.

`Transmit` is `send` as the kernel does it. A peer that is open takes every
message. After an orderly close the first message is accepted and provokes a
reset, which arrives before or after the next one; after a reset the first
`send` (or `recv`) reports it; one more raises `SIGPIPE`, whose default action
ends the process, since `send` is called without `MSG_NOSIGNAL` and no handler is
installed.

`Terminate` removes the listener described by `remoteHandle`, not by the closed
connection; `{remoteHandle, NoHandle}` are the two things an uninitialised local
in a loop can hold, the previous round's value or something that is no handle.

A post's text, which the program only copies, is the connection it was posted
on: this tells posts apart. Allocation failures are modelled where the code
handles them, in a follow (all outcomes) and a post (refused).

### StreamFeed

The parent forks a child, which installs its handler, sets `isRunning`, and then
connects, asks for the feed and receives until it is told to stop. `child` is the
point it is at; a signal can come between any two of them, which is why the test
of `isRunning` (`Loop`), the preparation of `recv` (`EnterRecv`) and what `recv`
returns (`Read`, `ReadError`, `Terminated`) are steps of their own. A signal
interrupts a `recv` or a `sleep` it finds blocked, and nothing otherwise.
`sock`, `isConnected` and `link` are the client's descriptor, its flag and the
kernel's connections; `asked` and `inbox` are what the server has been sent and
has answered. The server may refuse, answer, stay silent, crash and restart.
A reset that follows the one message the child sends is part of `ReadError`. Parts of messages, which an
interrupted `recv` may leave behind, are not modelled; nor are the values of the
socket's time limit, which `recv` meets only after a failed send, where it
returns at once. `unheard` is a history variable: `isRunning = 1` has overwritten
what the handler of a signal did before.

`FeedLife` is the abstract specification: `process`, `stream` and `told` are all a
client sees. The refinement mapping (`Process`, `Stream`, `Told`) says what each
point of the child means: it is running until it has exited or been reaped, its
stream is that of the connected descriptor, and it has been told once the signal
is sent. A signal may end the child at once or only close its stream, so `Tell`
allows both.

### ClientSession

`view` is the place in the two menus, `answer` that of the call under way. A call is
one `lodiClientSend`: a connection of its own, a request, an answer (`Serve`,
`Return`) or a time limit (`GiveUp`), after which the request may still reach the
server (`late`, `ServeLate`), also in the middle of a later session. Of the server
there is what concerns this user and host: `loggedIn`, which `Handled` changes as
the handlers do, and which a crash forgets. The feed process is `FeedLife`; its
steps are tied to the server's: `Admit` needs a session, `Lose` a connection whose
server is gone (`severed`). `disturbed` is a history variable: something has
happened that lets client and server think differently, an answer given up, a
crash, a failed fork or a logout answered with a failure (which leaves open
whether the session ended). It is cleared by the next acknowledged login or
logout, unless an older one is still under way.

### LinkedList and IntMap

The nodes of all lists come from one heap. `next` and `prev` are the C pointers,
through a sentinel for each list; `append`, `remove` and `destroyAll` are the
assignments of `list.c` in effect, `Garbage` is what a freed cell holds, so that
a pointer followed into one shows. `get` walks as the code does. `IntMap` adds the
buckets, created when needed, the loop over a bucket that stops at the first
entry of the key (`Found`), and allocations that fail. The refinement into
`KeyedQueues` maps a key to the values of its entries in its bucket's order; it
justifies that the other modules take lists as sequences and maps as functions
to sequences. A `map_remove` of a key that is not there says `ERROR` or `NOT_FOUND`,
depending on whether another key has made its bucket; the abstract
specification allows both.

### Wire, Rsa, TcpFraming and SignedRequests

A layout is the sequence of fields a (de)serialiser names; both ends have one of
their own. `appendUint` and `getUint` are the loops of `buffer.c` in base `Radix`.
`Rsa` has a recursive function for each loop, over a record of the variables the
loop assigns, so that it can be proved about. `modPow` multiplies in double
width, as the `__int128` of the code; `generateKeys` searches the exponent from 12.

`TcpFraming` is one direction of a connection. `send` blocks (`Copy`) while the
kernels hold `Room` bytes nobody has received. `Recv` is one call of `recv` and what
the loop makes of it; the code asks for a whole message also when a part of one
has come, so that bytes of the next message can land behind the part, past the
end of the caller's buffer (`Overrun`). From there on the program's behaviour is
undefined, and the receiver takes no further step. A message that comes alone is
safe, which is the case of every request.

`SignedRequests` puts them together: keys from `rsa_generate.c`, the public key cut to
32 bits and passed on by the PKE server, the timestamp encrypted, the request
serialised and sent through `Up` to the Lodi server or as a datagram to the TFA
server, put together, deserialised, authenticated and answered through `Down`. Its
constants have to be what `rsa_generate.c` has (`JobsAssumption`): two different
primes, unsigned ints; a timestamp below their product, as the comment there
demands; a product that `modInverse` can put into a signed long; and a public
exponent that `registerPublicKey` can put into an unsigned int, 17 for 1000117 and
1000151. `WidthAssumption` says that an unsigned long of `Rsa` is eight bytes of
`Wire`.

### Datagrams, Confirmation and KeyLookup

`net` counts the copies of each message that are under way or wait unread in a
socket. Messages are received in any order. An address is a member of
`Peers`; a message to a server carries its sender, one from a server its receiver.

In `Confirmation` the TFA server is in `main` or in one of the two nested
receives of its handlers; `tfaUser` and `tfaPeer` are the locals a handler keeps
meanwhile. Whatever datagram comes then is the answer: `RegistrationAnswer`
stores the sender of an acknowledgement under the user it names, `PushAnswer`
overwrites the stored registration with the sender (`overwriteClient`: the out
parameter of `receive` is the stored handle). A timeout of the receive in
`handleRegisterTfa` is `DOMAIN_FAILURE`, which is not the `ERROR` it is compared
with: the handler goes on with the message it had, which is no acknowledgement,
and refuses. Devices acknowledge whatever they receive. `answered` is a history
variable: the devices that confirmed a push since the Lodi server asked.

`askedAbout`, `ready`, `mailLost` and `mistaken` are history variables, too: the
users the Lodi server has ever asked about, the devices that served when it last
asked, whether a datagram of a login was lost since then, and whether a datagram
was ever taken for another one or given up while it was under way. The
environment has no switches: losses, time limits, overlaps and devices that go
away may come at any moment, and the properties say in terms of this history
what holds until when.

In `KeyLookup` the Lodi client opens a socket per registration, so that a late
answer is lost with the socket, while the Lodi server and the TFA server keep
one for all lookups. A time limit may pass at any moment (`Unanswered`), and an
answer that comes late is the next lookup's. `sure`, `found` and `stray` are
history variables: the registrations known to be complete when a lookup began,
what it returned, and the users whose lookup a server ended with datagrams still
under way.

## 3. Runs

| Run | Question | Instance |
|---|---|---|
| `repository` | Do the two maps implement one graph, call by call, when either half of a follow may be refused? Is no id listed twice, does a dump come with its pushes? | 3 users, at most 4 recorded pairs, symmetry |
| `sessions` | Types, descriptors, authorisation, posts, sessions; is nothing done out of session? Until the table of descriptors is full, is every request answered and every descriptor given back? | 1 user, 2 hosts, 4 connections (two logins, a logout, a post or an unknown request), three of which may close, 3 descriptors, every verdict, posts refused or stored, fair server |
| `feeds` | No hole and no double in a feed; who receives, and do all followers while no connection has ended? What can end the server? | idol and follower on two hosts, 6 connections: logins, follow, feed, post, then an unfollow, a logout, a second feed or another post; the first feed and the first post may close |
| `feed_loop` | One connection at a time, a socket for every retry, a reconnect after every loss, an end after a refusal, a stop and an end with the parent that only silence or a forgotten signal holds up; is it what its parent counts on (`LifeSpec`)? | 3 descriptors, 3 crashes, two unread answers; the signal at any point |
| `registrations` | Are addresses stored under their own users, is a device that believes itself registered stored? | 2 devices of 2 users, one mortal, 2 logins, refused signatures, one loss, time limits at any moment |
| `logins` | Is a login confirmed by the user's device and nobody else, why may a login of a registered user be refused, and does the TFA server come back? | 2 devices of one user, one mortal, a user without any, 2 logins, one loss, time limits at any moment, registrations in between |
| `key_lookups` | Whose key is what a lookup returned, then and for ever; are registered keys found? | 2 registrations with different keys of one user, another user without, 2 servers, 3 lookups, one loss, late answers |
| `collections` | Is the map a queue of values per key to its callers, and do the links of its lists stay sound? | 4 cells, 3 keys in 2 buckets, 2 values, any allocation refused, symmetry |
| `requests` | Is a signed request, cut into any pieces, accepted with the fields it was sent with? Are the messages of an answer ever mixed up, when does its buffer not suffice, and does the exchange end? | 4 primes, 5 timestamps, requests to both servers, a client that may die while sending, an answer of 3 messages in pieces that end anywhere |
| `client_session` | Do the client's menus, its feed process and the server's session agree, does the feed settle, and what can hold a logout up? | 2 late requests of a kind, 2 crashes, every verdict, failed forks, a client that dies |

Runs that find what the code does differently from what it says (see the
findings in `PROJECT.json`):

| Run | Shows |
|---|---|
| `lost_listener` | A closed short connection takes the listener of a feed that is connected with it (`lodi_server.c:75`) |
| `feed_lost_signal` | A signal between the test of `isRunning` and `recv` does not stop the feed process, and `stopStreamFeed` waits for ever |

**What the code does not provide.** Where the code breaks what one would ask of
it, the property says so itself: it holds up to the event named here, and the
event happens in its run. Only the last three are not part of a run.

| Property | Up to | Because |
|---|---|---|
| `SingleSession`, `LogoutEndsSession` | a login of the user from a second host | it is appended behind the first, acknowledged, and without effect (`login_repository.c:22`) |
| `NoDoubleDelivery` | the end of the first feed | its listener may stay and doubles what the next feed on its descriptor is sent (`domain_stream_server.c:124`) |
| `OnlyFollowersReceive` | a feed that has ended | its listener may stay while its descriptor becomes another connection's; the property says that nobody else receives, and only while the listener's user is logged in there and follows |
| `OnlyClosedFeedsKill` | a closed feed | a feed that is reset while its dump or a post is written to it ends the server: `send` raises `SIGPIPE` (`network.c:164`) |
| `EveryRequestAnswered`, `DescriptorsReleased` | a full table and a connection waiting (`TableFull`) | `accept` fails for ever and nobody is read (`domain_stream_server.c:96`) |
| `SocketAtHand` | | each failed attempt to connect leaks its descriptor (`stream_feed.c:79`); the property says that nothing else does, and that the last socket is kept when all are gone |
| `StopReturnsUnlessSilent`, `OrphanEndsUnlessSilent` | `unheard`, a silent server | `isRunning = 1` comes after the handler is installed and overwrites what it did (`stream_feed.c:36`); `recv` is entered after the test of `isRunning` |
| `FeedSettles` | an admitted stream | the same silence holds the feed process, and with it the client's logout |
| `ConfirmedByDevice`, `RegisteredAreConfirmed` | `mistaken` | the confirmation of a login that was given up is taken for that of the next one (`lodi_server.c:284`); a login's request that is taken for a device's acknowledgement is answered with a failure message, which confirms it; when a push is lost, the next request ends the wait for it and is stored as the user's device |
| `RegisteredAreConfirmed`, `PushReturns` | a gone device (`PushedGone`) | a user who registers a second device gets the pushes on the first; a device that is gone does not answer them, and the wait has no time limit |
| `RightKey`, `RegisteredKeyFound` | `stray` | after a lookup that timed out the next one of the same server returns its answer (`pke.c:34`) |
| `RegisteredKeyFound` | | of two keys that a user has offered it does not say which one is found: a registration that failed for its client may shadow a later one that succeeded (`key_repository.c:24`) |
| `StreamsWhole`, `ExchangeEnds` | `Overrun` | after a part of a message `recv` is asked for a whole one and takes the beginning of the next (`network.c:190`) |
| `FeedGapFree`, `PostsReachFollowersUndisturbed` | an ignored failure of an allocation | half of a follow is missing (`follower_repository.c:92`); `"lost"` is in no run, the theorems name it |
| `GraphSpec`, `CallsMatchGraph`, `DumpImpliesPush` | the same | the same |
| `ExchangeEnds` | a client that stops reading | the server's only thread blocks in `send` (`network.c:164`): `Downstream` is fair in its specification |

**Bounds.** Three users give lists with a head, a middle and a tail, which is
all `remove` distinguishes; four recorded pairs let one list be full while
another changes. In `LodiServer` a connection carries one request, as in
`lodi_client_domain_manager.c`; the workloads contain every handler, and TLC
explores every order of connecting, serving and closing. Numbers are reused
since the lowest free descriptor is handed out. `MaxBacklog` bounds the accept
queue; in `sessions` it is the number of connections, hence no bound, as it must
be for liveness, and in `feeds` it is 2, enough for two requests to change
places before they are accepted. `Socks` has one descriptor less than there are
connections in `sessions`, so that the table can be full, and one for each in
`feeds`, where the lowest free one is what an ended feed leaves to the next
connection. The server really stops when all connections
are done, so deadlock is not checked in its runs; nor is it in the others,
where the bounds on calls, crashes, logins and lookups end the behaviour.

In `StreamFeed`, `MaxSocks` is the number of descriptors of the child: one is in
use at a time, so that three show a leak of one per loss within `MaxCrashes`;
`MaxInbox` is the number of unread messages, which only the order of a refusal
and an end could tell apart; `SignalAt` is the set of points at which the signal
may come, all of them in `feed_loop`. In `Confirmation`, `registrations` has a device for each of two
users, so that an answer can be the wrong user's; `logins` has two devices of one user,
so that a second one can register and the first, which gets the pushes, go away
(`Mortal`), and a user without a device. Two logins (`MaxLogins`) let what one
leaves behind meet the next. `MaxLost` is one: each wait ends the same
way however often a datagram is lost. Three lookups (`MaxLookups`) suffice for an
answer to come late for the next, by either server, and that one's for a third.

In `IntMap`, two buckets and three keys let two keys share a bucket and one have its
own; four cells give a bucket a head, a middle and a tail with another bucket in
use. Cells and values are only compared for equality, hence the symmetry. In
`SignedRequests` a byte has 4 values (`Radix`), so that 32 bits end at 256 and 64 at
65536, which is `Word`; the products of the primes go up to 437, beyond the first,
and their squares beyond the second; the timestamps are the ends of a byte
string and values on either side of 256. `RequestRoom` is less than a request,
`ResponseRoom` less than two messages of an answer of three (`ResponseCount`), so that
`send` has to wait and a piece can end in any message with the next one behind it. In `ClientSession`, `MaxLate` bounds the requests of a kind that were given up
and are still under way, `MaxCrashes` the crashes of the server; two let one of each
happen in the session after the other.

**Fairness.** `LodiServer`'s `FairSpec` assumes weak fairness of `ServerStep` and
of nothing else: the loop of `main` runs whenever `select` returns, and `select`
returns when a descriptor is readable. Clients need not connect, nor close.
`Accept` with no free descriptor is not a step, it is the failing call that is
repeated.

In `StreamFeed` the child's own steps and the return of the parent's `waitpid` are
fair; the server need not answer, crash or restart, and nobody is obliged to
send a signal. Two of its properties are about servers that do not fall silent
for ever (`SomethingArrives`), one about servers that stay up in the end; they
state this themselves. A parent that dies before its child has called `prctl` is
never noticed (`parent = "missed"`): the child then streams until the server
refuses it.

In `Confirmation` the TFA server and each device are weakly fair for the datagrams
that are there (`TfaStep`, `DeviceStep`): each is one thread in a loop around a
receive. Time limits need not pass, and registrations, logins and answers of the
Lodi server need not come. `KeyLookup` needs no fairness; its two properties say
what a step may not do.

`SignedRequests` assumes that both programs run, that the network delivers and
that the client keeps reading (`Downstream`). `ClientSession` assumes that the client
and the server run when they can; of the feed process only what the code is sure
to do (`FeedProgress`): it notices a loss, ends after a refusal, and without a
stream asks for one or ends. That it was told does not end it, since the signal
may come just before a `recv` that stays silent. That a server that is down
comes back is not assumed: `FeedSettles` is about behaviours in which it is up in
the end, and says so. Nor need the user choose anything.

## 4. Proofs

`FollowerRepositoryProofs`, for any set of users and any of the allocation
outcomes named:

* `ListsHaveNoDuplicates`, `UnfollowClearsThePair`: from the invariant "types,
  and every list is injective". Injectivity is needed since `remove` takes the
  first occurrence only.
* `DumpsComeWithPushes`, `RepositoryImplementsGraph`, `StatusesMatchGraph`: from
  that invariant and "an idol in a follower's list has that follower in its
  own", which survives a refused second half because the first half written is
  the idol's list; these assume that nothing is lost silently.

`LodiServerProofs`, for any finite set of connections, any descriptors, workload
and verdicts:

* `TypeCorrect`. The counters in `copies` make it need that the sets counted are
  finite, and the `\E s` of `Accept` that descriptors are numbers.
* `TableStaysSound`: `FdTableSound` is inductive only with `BacklogSound`: a
  connection that waits for accept has no descriptor, is not closed on the server's
  side, has not been read, and waits once.
* `OnlyTheAuthorised`: with `UnreadUnanswered` (an unread connection has no
  reply, is in no list of posts), a handler writes the reply of its own
  connection only, so logins that were acknowledged stay acknowledged; and
  `TableInv` gives that the handle of a request carries the host it came from.

* `PostsAreStoredOnce`: needs that the connection about to be appended is in no
  list, which `StoredSound` gives: what is in a list has been acknowledged, and what
  has not been read has not (`UnreadUnanswered`).
* `OneSessionAtATime`, `LogoutsEndSessions`: of a user of one host so far
  (`OneHostSoFar`), every entry is of that host (`AuthInv`), so `handleLogin` finds the
  older one at the head. Logins stay acknowledged (`OneHostBefore`), hence a user of one
  host now has been one before.
* `RequestsAreInSession`, for any hosts: `Balanced` says that a host has no more entries
  than logins that no logout has answered. A handler changes the entries of its own
  user by one and acknowledges at most once; an entry may go without an
  acknowledgement (a second authentication that fails, a login that replaces an
  older one), but none comes without one.
* `NothingDeliveredTwice`, `OnlyToFollowers`: `Owned` says that behind every listener is a
  feed of its user and host that has its descriptor or has ended. While no feed has
  ended (`FeedsLive`, which was so before if it is so now) and descriptors have one
  listener each (`OneEach`), that is a feed of its own (`ListenersSound`).
  `CopiesSound` says that nothing is delivered on a connection before its request is
  read. A push then reaches a descriptor for one pair of a follower and a listener
  at most (lists of followers have no duplicates), and a dump has a post once.
  `OnlyToFollowers` needs `Owned` alone and assumes nothing: after a half-done follow the
  pair is in one of the two maps, which is what `FeedOfFollower` asks.
* `OnlyFeedsKill`: while every feed is open, nothing but replies is written to the other
  connections, one each, and a connection not read yet has had nothing to leave
  unread, so that it is not reset (`KillInv`).
* `FeedsHaveNoHoles`: from `GapInv`, where a post of an idol has been delivered the
  follow and the session that delivered it still stand, so that the next post is
  pushed. It is kept until a feed ends or a user comes from a second host, whose login
  might move the session (`Calm`), and assumes that no failure is ignored; the property
  itself is about runs without an unfollow or a logout (`Steady`), after which a gap is
  what is asked for.
* `PostsReachEveryFollower`: a feed that was admitted has its listener until the first
  connection is given up (`ReadFeedsListen`); that it ends there is the finding of
  `lost_listener`. It assumes that no failure is ignored, which makes the followers
  who get an idol's dump a subset of those who get its pushes.

The follower repository's invariants are used for `LodiServer` through an instance of its proofs
(`FollowsProofs`).

`StreamFeedProofs`, for any number of descriptors, crashes and messages and any
points for the signal:

* `NeverTwoConnections`, `RetriesHaveASocket`: the invariant `FeedInv` adds to the
  types what a live child knows of its sockets: only the current descriptor is
  connected, every other one that is not free is the unconnected socket of an attempt
  that failed, `isConnected` says whether the current one is connected, and with no
  current descriptor one is free. It needs the point the child is at, since the flag and the
  descriptor are set in different steps.

* `FeedImplementsLife`: every step of the child is a step of `FeedLife` or none. `LifeInv`
  adds where the child can be when it has handled the signal, when its parent
  waits for it, and that a refusal is read on the connection it was sent on.

`ClientSessionProofs`, for any bounds and verdicts:

* `TheViewIsRight`: `ViewInv` adds that a request is late only after a disturbance,
  that an answer is that of the current call, and what the server's session is
  between the answer and its arrival (`CallRight`).
* `FeedStaysWithinSession`: `FeedInv` says at each place of the menus what the feed
  process may be doing; only `Reap` leads on to the logout.

`ConfirmationProofs`, for any users and devices, losses, time limits, overlaps and devices
that go away:

* `ConfirmationTyped`: the types, and with them that the TFA server's wait for a
  push always has a registration to write into.
* `RegistrationsOwned`: every stored address is that of a device of its user, but
  for the oldest one of a user the Lodi server has asked about. `RegInv` adds that
  an acknowledgement under way names its sender's user, which is why storing
  whatever acknowledgement comes is right, and that a request for a push, under
  way or being handled, names a user that was asked about. The exception is
  needed: the answer to a push overwrites the address it was sent to with its
  sender, which may be the Lodi server itself.
* `ServingDevicesStored`: `DeviceRight` says that until a device acknowledges, its
  request or the one answer to it is under way, and that after that a confirmation
  is sent only once the address is stored. Hence the last answer a device takes for a
  confirmation is one, although it never looks whom or what it is for.
* `ConfirmationsAreDevices`, `DevicesConfirmLogins`: `LoginInv` says, until a datagram is
  taken for another one, that pushes go to a device of their user (`HeadsOwned`), that
  the Lodi server is sent nothing but confirmations (`ToLodi`), that a login has at most
  one datagram under way, at the place it belongs to (`OneToken`), and that it has one
  unless it was lost or its device is gone (`Held`). It is not an invariant after that:
  see "What the code does not provide" for the ways it breaks.

`KeyLookupProofs`, for any users, keys, registrations and servers that look keys
up, with losses and time limits wherever they come:

* `LookupsAreRight`: `KeyInv` adds that a datagram under way between a server and the PKE
  server is about the user it looks up or one in `stray`, and that an answer under way
  holds the oldest key, which no registration changes.
* `RegisteredKeysAreFound`: `FoundInv` follows a key from the registration to the
  acknowledgement, to what a lookup was sure of, and says that no failure is then under
  way to it, unless it is about a user in `stray`; the oldest key of a user is always
  one that was offered for that user.

Both begin with three lemmas on what the operations of `Datagrams` do to the traffic.

`IntMapProofs`, for any heap, keys, values and number of buckets, whatever allocations
fail:

* `LinksStaySound`: `LinksSound` is not inductive as it stands. `HeapSound` says that
  each list has a ring: a sequence without repetition that starts at its sentinel,
  whose neighbours `next` and `prev` are, and that no node is in two rings. The code's
  walks, recursive functions, visit the ring in order (`RingWalk`), and every
  operation turns it into the ring with a node more or less (`AppendedRings`,
  `RemovedRings`).
* `MapImplementsQueues`: every call is a step of `KeyedQueues` or none. What a bucket
  holds of a key is a recursive filter (`ValuesUpTo`); an entry of the key changes it
  at one end, one of another key not at all, and the search of `map_get` and
  `map_remove` stops at its head (`SearchFindsHead`).

`SignedRequestsProofs`, for any values of a byte, sizes of a message and of the buffers:

* What the recursive functions compute, on which the rest is built.
  `LayoutRoundTrip`: for every layout with different names and values that fit their
  widths, what is read is what was written; every unsigned int fits four bytes and
  every unsigned long eight (`FourDigits`, `EightDigits`). `ModPowIsPower`: the loop keeps
  `result * base ^ exponent` modulo the modulus, for every base and exponent.
  `ModInverseIsInverse`: the loop keeps `a` and `m` congruent to multiples of the number,
  and its two coefficients within the modulus and of opposite signs (`Sized`), which is
  why the final correction by one modulus is enough and why a signed long holds
  them. The search for an exponent ends (`CoprimeFurther`).
* `DecryptUndoesEncrypt`: the exponents of a pair undo each other modulo `p * q`, also
  for a timestamp that `p` or `q` divides (`KeysUndo`). It rests on Euclid's lemma and
  Fermat's little theorem: the multiples of a number modulo a prime are a permutation
  (`MultiplesPermute`), and a product does not depend on the order (`ProductOfAll`).
* `RequestsStayWhole`: `UpInv` says that what the server has put together, what is on
  the wire and what is unsent are, in this order, the request. It needs that a
  connection carries one request, and nothing of how the stream is cut.
* `StreamsStayWhole` adds `DownInv`, the same for any number of messages of an answer and
  any pieces, up to the first overrun: bytes beyond a message can only be those of a
  message sent after it.
* `SignedStaysAccepted`: `VerdictInv` adds to `UpInv` that the stream carries the signed
  bytes, hence that the server reads the fields that were signed; the key it looks up
  is the one that was registered (`KeyIsRegistered`), and decrypts the signature to the
  timestamp.

Both modules need induction over data. The library's induction theorems have an
operator as a parameter, which the provers cannot instantiate, so these proofs use
induction over a set: a set of naturals with an element has a least one
(`LeastNatural`, from the library's theorem on well-founded relations), hence a set
that contains 0 and with each number the next contains all. A recursive function is
shown to exist, which its definition by `CHOOSE` leaves open, by building it
stage by stage along a measure that falls (`Recursion`, `LoopEnds`).

Not proved and left to TLC: liveness under fairness (`ExchangeEnds`, `EveryRequestAnswered`,
`FeedSettles` and the other temporal properties), which the proof system does
not cover. Every safety and action property of the passing runs is proved, and no
theorem about a specification assumes more of its constants than its module does, but
for those that say that no failure of an allocation is ignored.

## 5. Not modelled

* Construction of clients and servers, start-up (also a port that is taken, which
  `start` reports with a value `main` does not look for), configuration, terminal, logs:
  sequential, before there is any state, or pure I/O.
* `LodiServer` and `Confirmation` are not composed: each leaves open what the
  other may do (`Verdicts`). Restarts of the Lodi server are in `ClientSession` and
  `StreamFeed`, seen from the client; those of the PKE and the TFA server are not modelled.
* Datagrams of a wrong size, the filter on senders (which discards a datagram only
  if both address and port are wrong), local failures of `sendto`.
* In `LodiServer`, a request is read in one piece and an open peer takes every message;
  pieces and sends that block are in `TcpFraming`. A `recv` that is interrupted inside a
  message is not modelled.
* `malloc` failures the code does not check (they end in undefined behaviour),
  and those of the login and listener repositories.
* The descriptors of the Lodi client, one of which leaks with each request to the
  PKE server that fails.
* The layout of the answers of the TFA server, and the sizes of the structures in
  memory.

## 6. Plan

1. `handleLogin` composed with `Confirmation` and `KeyLookup`, with an abstract
   specification of a login; restarts of the PKE and the TFA server.
2. A restart of the TFA server under registered devices.
3. Where `FeedGapFree` and `NoDoubleDelivery` end at the first feed that does: the same for
   the feeds that do not share a descriptor with it.
