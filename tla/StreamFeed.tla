----------------------------- MODULE StreamFeed -----------------------------
(***************************************************************************)
(* The process that streams a user's feed (stream_feed.c on                *)
(* domain_stream_client.c): forked by the Lodi client after a login, it    *)
(* connects, sends one feed request and prints what arrives, connects anew *)
(* after a loss, and ends by SIGTERM, when the user logs out or the parent *)
(* dies, or when the server refuses it.                                    *)
(*                                                                         *)
(* Around it: the parent, which waits for its end before it logs out; the  *)
(* server, which may refuse, be silent, crash and come back; and the signal*)
(* that comes between any two instructions of the child.  What the signal  *)
(* does depends on how far the child is, so that the points between two    *)
(* system calls are states of the model.                                   *)
(***************************************************************************)
EXTENDS Integers, Sequences, SequencesExt

CONSTANTS MaxSocks,     \* descriptors the child may open
          MaxCrashes,   \* bound: how often the server goes down
          MaxInbox,     \* bound: messages on their way to the child
          SignalAt      \* points of the child at which SIGTERM may come

\* Where the child is: before prctl, before sigaction, before isRunning = 1;
\* at the head of its loop; before start and connect, before send, before the
\* system call of recv, in it, in sleep(CONNECT_BACKOFF).
Starting == {"forked", "armed", "handling"}
Looping == {"loop", "connecting", "sending", "receiving", "recv", "backoff"}
Points == {"none", "ended"} \cup Starting \cup Looping

ASSUME MaxSocksAssumption == MaxSocks \in Nat \ {0}
ASSUME SignalAssumption == SignalAt \subseteq Points

VARIABLES
  parent,        \* the Lodi client: "login", "menu", in waitpid, done, dead, or
                 \* "missed": dead before the child asked to be told
  child,         \* the point the child is at
  isRunning,     \* stream_feed.c: the loop goes on
  isConnected,   \* DomainClient.isConnected
  sock,          \* DomainService.sock, NoSock for INACTIVE_SOCK
  link,          \* the child's descriptors as its kernel sees them
  asked,         \* what the server makes of the request sent on each of them
  inbox,         \* messages that have arrived and were not read
  serverUp, crashes,
  unheard        \* history: isRunning = 1 came after the signal and undid it

client == <<child, isRunning, isConnected, sock>>
vars == <<parent, client, link, asked, inbox, serverUp, crashes, unheard>>

Socks == 1 .. MaxSocks
NoSock == 0

\* "fin" and "rst": the server's side was closed, orderly or not; "broken":
\* the kernel has reported the reset once.
Connected == {"open", "fin", "rst", "broken"}
Links == {"free", "idle"} \cup Connected
Fates == {"nothing", "pending", "admitted", "refused"}
Messages == {"post", "failure"}

Init ==
  /\ parent = "login" /\ child = "none"
  /\ isRunning = FALSE /\ isConnected = FALSE
  /\ sock = NoSock
  /\ link = [s \in Socks |-> "free"]
  /\ asked = [s \in Socks |-> "nothing"]
  /\ inbox = [s \in Socks |-> <<>>]
  /\ serverUp = TRUE /\ crashes = 0 /\ unheard = FALSE

----------------------------------------------------------------------------
(* The server and the network. *)

Reply(s, fate, message) ==
  /\ asked' = [asked EXCEPT ![s] = fate]
  /\ inbox' = [inbox EXCEPT ![s] = @ \o message]
  /\ UNCHANGED <<parent, client, link, serverUp, crashes, unheard>>

\* handleFeed or handleFailure of the server, and later posts.
Answer(s) ==
  /\ serverUp /\ link[s] = "open" /\ Len(inbox[s]) < MaxInbox
  /\ \/ asked[s] = "pending" /\ Reply(s, "admitted", <<>>)
     \/ asked[s] = "pending" /\ Reply(s, "refused", <<"failure">>)
     \/ asked[s] = "admitted" /\ Reply(s, "admitted", <<"post">>)

\* The server goes down and its kernel closes or resets its connections.
Crash ==
  /\ serverUp /\ crashes < MaxCrashes
  /\ serverUp' = FALSE /\ crashes' = crashes + 1
  /\ \E how \in {"fin", "rst"} :
       link' = [s \in Socks |-> IF link[s] = "open" THEN how ELSE link[s]]
  /\ UNCHANGED <<parent, client, asked, inbox, unheard>>

Restart ==
  /\ ~ serverUp /\ serverUp' = TRUE
  /\ UNCHANGED <<parent, client, link, asked, inbox, crashes, unheard>>

----------------------------------------------------------------------------
(* Descriptors. *)

Free == {s \in Socks : link[s] = "free"}

CloseAll ==
  /\ link' = [s \in Socks |-> "free"]
  /\ asked' = [s \in Socks |-> "nothing"]
  /\ inbox' = [s \in Socks |-> <<>>]

\* Mutant: the descriptor is forgotten and not closed.
StopLeaks ==
  /\ sock' = NoSock /\ isConnected' = FALSE
  /\ UNCHANGED <<link, asked, inbox>>

\* stopStreamClient on the current socket.
Stop ==
  /\ link' = [link EXCEPT ![sock] = "free"]
  /\ asked' = [asked EXCEPT ![sock] = "nothing"]
  /\ inbox' = [inbox EXCEPT ![sock] = <<>>]
  /\ sock' = NoSock /\ isConnected' = FALSE

----------------------------------------------------------------------------
(* SIGTERM.  Until sigaction it ends the child.  From then on handleSigterm*)
(* clears isRunning, and a recv that is blocked returns EINTR, which       *)
(* receiveTcpMessage reports as TERMINATED.  SA_RESTART is not set.        *)

Blocked == child = "recv" /\ inbox[sock] = <<>> /\ link[sock] = "open"

Kill ==
  /\ child' = "ended" /\ CloseAll
  /\ UNCHANGED <<isRunning, isConnected, sock>>

Ignored == UNCHANGED <<client, link, asked, inbox>>

\* Mutant: the handler prints and does nothing else.
SigtermPrints ==
  \/ child \in {"forked", "armed"} /\ Kill
  \/ Blocked /\ child' = "loop" /\ Stop /\ UNCHANGED isRunning
  \/ child \in Looping \cup {"handling", "ended"} /\ ~ Blocked /\ Ignored

Sigterm ==
  \/ child \in {"forked", "armed"} /\ Kill
  \/ /\ Blocked /\ isRunning' = FALSE
     /\ child' = "loop" /\ Stop
  \/ /\ child \in Looping \cup {"handling"} /\ ~ Blocked
     /\ isRunning' = FALSE
     /\ UNCHANGED <<child, isConnected, sock, link, asked, inbox>>
  \/ child = "ended" /\ Ignored

----------------------------------------------------------------------------
(* The parent. *)

\* startStreamFeed, after a login.
Fork ==
  /\ parent = "login" /\ parent' = "menu"
  /\ child' = "forked"
  /\ UNCHANGED <<isRunning, isConnected, sock, link, asked, inbox, serverUp, crashes,
                 unheard>>

\* stopStreamFeed: kill.
StopFeed ==
  /\ parent = "menu" /\ child \in SignalAt
  /\ parent' = "waiting" /\ Sigterm
  /\ UNCHANGED <<serverUp, crashes, unheard>>

\* Mutant: stopStreamFeed does not wait.
ReapAtOnce ==
  /\ parent = "waiting"
  /\ parent' = "done"
  /\ UNCHANGED <<client, link, asked, inbox, serverUp, crashes, unheard>>

\* stopStreamFeed: waitpid returns.
Reap ==
  /\ parent = "waiting" /\ child = "ended"
  /\ parent' = "done"
  /\ UNCHANGED <<client, link, asked, inbox, serverUp, crashes, unheard>>

\* Mutant: the child does not ask for a signal at its parent's death.
ParentDiesUnnoticed ==
  /\ parent \in {"menu", "waiting"} /\ child \in SignalAt
  /\ parent' = "dead" /\ Ignored
  /\ UNCHANGED <<serverUp, crashes, unheard>>

\* The parent ends without stopping its child; from prctl on the kernel
\* signals the child then.
ParentDies ==
  /\ parent \in {"menu", "waiting"} /\ child \in SignalAt
  /\ \/ child = "forked" /\ parent' = "missed" /\ Ignored
     \/ child # "forked" /\ parent' = "dead" /\ Sigterm
  /\ unheard' = FALSE
  /\ UNCHANGED <<serverUp, crashes>>

----------------------------------------------------------------------------
(* The child. *)

Outside == UNCHANGED <<parent, serverUp, crashes, unheard>>

\* prctl, sigaction, isRunning = 1, which overwrites what the handler of a
\* signal between the last two has done.
SetUp ==
  /\ \/ child = "forked"   /\ child' = "armed"    /\ UNCHANGED isRunning
     \/ child = "armed"    /\ child' = "handling" /\ UNCHANGED isRunning
     \/ child = "handling" /\ child' = "loop"     /\ isRunning' = TRUE
  /\ unheard' = (unheard \/ (child = "handling" /\ parent \in {"waiting", "dead"}))
  /\ UNCHANGED <<isConnected, sock, link, asked, inbox, parent, serverUp, crashes>>

\* The test of the loop, and of isConnected in it; after the loop, destroy
\* and exit.
Loop ==
  /\ child = "loop"
  /\ \/ /\ isRunning
        /\ child' = IF isConnected THEN "receiving" ELSE "connecting"
        /\ UNCHANGED <<isRunning, isConnected, sock, link, asked, inbox>>
     \/ ~ isRunning /\ Kill
  /\ Outside

\* tcpConnect on the socket s fails when nobody listens, and may fail when a
\* signal comes.
ConnectOn(s) ==
  \/ /\ serverUp /\ isConnected' = TRUE /\ child' = "sending"
     /\ link' = [link EXCEPT ![s] = "open"]
  \/ /\ ~ serverUp \/ ~ isRunning
     /\ child' = "backoff" /\ UNCHANGED isConnected
     /\ link' = [link EXCEPT ![s] = "idle"]

Lowest(s) == s \in Free /\ \A t \in Free : s <= t

\* Mutant: a connection that was made is not remembered.
ConnectUnremembered ==
  /\ child = "connecting"
  /\ \E s \in Socks :
       /\ Lowest(s) \/ (Free = {} /\ s = sock)
       /\ sock' = s
       /\ serverUp /\ child' = "sending"
       /\ link' = [link EXCEPT ![s] = "open"]
  /\ UNCHANGED <<isConnected, isRunning, asked, inbox>> /\ Outside

\* start opens a socket and forgets the one before, connected or not.  When
\* no descriptor is left it fails, nobody looks at that, and the old socket is
\* used; there is one (SocketAtHand).
Connect ==
  /\ child = "connecting"
  /\ \E s \in Socks :
       /\ Lowest(s) \/ (Free = {} /\ s = sock)
       /\ sock' = s /\ ConnectOn(s)
  /\ UNCHANGED <<isRunning, asked, inbox>> /\ Outside

\* The request.  A peer that closed orderly still takes it; a reset makes it
\* fail, and the child waits and goes on with the connection it has.
Send ==
  /\ child = "sending"
  /\ \/ /\ link[sock] = "open" /\ child' = "receiving"
        /\ asked' = [asked EXCEPT ![sock] = "pending"]
        /\ UNCHANGED link
     \/ /\ link[sock] = "fin" /\ child' = "receiving"
        /\ UNCHANGED <<link, asked>>
     \/ /\ link[sock] = "rst" /\ child' = "backoff"
        /\ link' = [link EXCEPT ![sock] = "broken"]
        /\ UNCHANGED asked
  /\ UNCHANGED <<isRunning, isConnected, sock, inbox>> /\ Outside

\* The last instruction before the system call: a signal that comes earlier
\* does not interrupt recv.
EnterRecv ==
  /\ child = "receiving" /\ child' = "recv"
  /\ UNCHANGED <<isRunning, isConnected, sock, link, asked, inbox>> /\ Outside

\* Mutant: a refusal is printed like any other message.
ReadDeaf ==
  /\ child = "recv" /\ inbox[sock] # <<>>
  /\ inbox' = [inbox EXCEPT ![sock] = Tail(@)]
  /\ child' = "loop"
  /\ UNCHANGED <<isRunning, isConnected, sock, link, asked>> /\ Outside

\* A message: printed, and after a failure the loop ends.
Read ==
  /\ child = "recv" /\ inbox[sock] # <<>>
  /\ inbox' = [inbox EXCEPT ![sock] = Tail(@)]
  /\ isRunning' = (isRunning /\ Head(inbox[sock]) # "failure")
  /\ child' = "loop"
  /\ UNCHANGED <<isConnected, sock, link, asked>> /\ Outside

\* The reset is reported: DOMAIN_FAILURE, the loop goes on.
ReadError ==
  /\ child = "recv" /\ inbox[sock] = <<>> /\ link[sock] = "rst"
  /\ link' = [link EXCEPT ![sock] = "broken"]
  /\ child' = "loop"
  /\ UNCHANGED <<isRunning, isConnected, sock, asked, inbox>> /\ Outside

\* Mutant: the client still counts as connected.
TerminatedStaysConnected ==
  /\ child = "recv" /\ inbox[sock] = <<>> /\ link[sock] \in {"fin", "broken"}
  /\ child' = IF isRunning THEN "backoff" ELSE "loop"
  /\ UNCHANGED <<isRunning, isConnected, sock, link, asked, inbox>> /\ Outside

\* The end of the stream: TERMINATED.  The connection is stopped, and the
\* child waits before it connects anew.
Terminated ==
  /\ child = "recv" /\ inbox[sock] = <<>> /\ link[sock] \in {"fin", "broken"}
  /\ Stop
  /\ child' = IF isRunning THEN "backoff" ELSE "loop"
  /\ UNCHANGED isRunning /\ Outside

Wake ==
  /\ child = "backoff" /\ child' = "loop"
  /\ UNCHANGED <<isRunning, isConnected, sock, link, asked, inbox>> /\ Outside

ChildStep ==
  \/ SetUp \/ Loop \/ Connect \/ Send \/ EnterRecv \/ Wake
  \/ Read \/ ReadError \/ Terminated

Next ==
  \/ ChildStep
  \/ Fork \/ StopFeed \/ Reap \/ ParentDies
  \/ Crash \/ Restart \/ \E s \in Socks : Answer(s)

Spec == Init /\ [][Next]_vars

\* Both processes are scheduled; the server promises nothing.
FairSpec == Spec /\ WF_vars(ChildStep) /\ WF_vars(Reap)

----------------------------------------------------------------------------
(* Properties. *)

TypeOK ==
  /\ parent \in {"login", "menu", "waiting", "done", "dead", "missed"}
  /\ child \in Points
  /\ isRunning \in BOOLEAN /\ isConnected \in BOOLEAN
  /\ sock \in Socks \cup {NoSock}
  /\ link \in [Socks -> Links]
  /\ asked \in [Socks -> Fates]
  /\ inbox \in [Socks -> Seq(Messages)]
  /\ serverUp \in BOOLEAN /\ crashes \in Nat /\ unheard \in BOOLEAN

\* The child never holds two connections, however often it has lost one, has
\* failed to connect or has run out of descriptors: the server would stream
\* every post to it twice (handleClientFeed opens a socket only when
\* isConnected is not set).
OneConnection ==
  \A s, t \in Socks : link[s] \in Connected /\ link[t] \in Connected => s = t

\* Only attempts to connect leak descriptors: one that is neither free nor
\* the current one is the socket of an attempt that failed, so that a
\* connection that was lost gives its descriptor back.  When a long outage has
\* used them all up (nobody looks at what start returns), a retry still has
\* the socket of the last attempt to go on with.
SocketAtHand ==
  /\ \A s \in Socks \ Free : s = sock \/ link[s] = "idle"
  /\ child = "connecting" => Free # {} \/ sock # NoSock

Ended == child = "ended"
Subscribed == \E s \in Socks : link[s] = "open" /\ asked[s] # "nothing"

\* When the server stays up the feed is requested again after every loss,
\* unless it is told to stop: also after a request that failed half-way, and
\* when the sockets of failed attempts have used up every descriptor.
Reconnects ==
  <>[]serverUp => (child \in Looping ~> Subscribed \/ ~ isRunning \/ Ended)

\* stopStreamFeed returns: the signal ends the child wherever it is.
StopReturns == parent = "waiting" ~> parent # "waiting"

\* A child that was refused ends, without any help of its parent, also when
\* the server goes down right after its refusal.
RefusalEnds == \A s \in Socks : "failure" \in ToSet(inbox[s]) ~> Ended

\* The server does not fall silent for ever on a connection it keeps open.
SomethingArrives ==
  []<>(\E s \in Socks : inbox[s] # <<>> \/ link[s] \in Connected \ {"open"})

\* Wherever the signal finds the child, two things alone can hold
\* stopStreamFeed up: a server that never says a word again, and a signal
\* between sigaction and isRunning = 1, which the code forgets.
StopReturnsUnlessSilent ==
  SomethingArrives => (parent = "waiting" ~> parent # "waiting" \/ unheard)

\* The feed does not outlive a Lodi client that it saw die (PR_SET_PDEATHSIG),
\* with the same two exceptions.
OrphanEndsUnlessSilent ==
  SomethingArrives => (parent = "dead" ~> Ended \/ unheard)

----------------------------------------------------------------------------
(* What the Lodi client sees of all this. *)

AskedOf(fate) == \E s \in Socks : asked[s] = fate

Life == INSTANCE FeedLife WITH
  process <- IF parent = "done" THEN "reaped"
             ELSE IF child \in {"none", "ended"} THEN child ELSE "running",
  stream <- IF AskedOf("pending") THEN "asked"
            ELSE IF AskedOf("admitted") THEN "admitted"
            ELSE IF AskedOf("refused") THEN "refused" ELSE "closed",
  told <- parent \in {"waiting", "done", "dead"}

\* The child with its sockets, signals and losses is the process that the
\* client counts on: it never ends unbidden, never drops a refusal to ask
\* again, and stopStreamFeed never returns before it has ended.
LifeSpec == Life!Spec
=============================================================================
