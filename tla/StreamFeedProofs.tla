-------------------------- MODULE StreamFeedProofs --------------------------
(***************************************************************************)
(* The safety of the feed process for any number of descriptors, crashes,  *)
(* messages and points at which the signal comes.                          *)
(***************************************************************************)
EXTENDS StreamFeed, TLAPS

\* What a live child knows of its sockets: only the current one is connected,
\* and isConnected says whether it is.
Sockets ==
  /\ \A s \in Socks : link[s] \in Connected => s = sock /\ isConnected
  /\ isConnected => sock # NoSock /\ link[sock] \in Connected
  /\ sock # NoSock => link[sock] # "free"
  /\ sock = NoSock => Free # {}
  /\ child = "connecting" => ~ isConnected
  /\ child \in {"sending", "receiving", "recv"} => isConnected

FeedInv ==
  /\ TypeOK
  /\ parent = "login" => child = "none"
  /\ child # "ended" => Sockets
  /\ child = "ended" => \A s \in Socks : link[s] = "free"

LEMMA SocksAreNumbers == Socks \subseteq Nat /\ NoSock \notin Socks /\ Socks # {}
BY MaxSocksAssumption DEF Socks, NoSock

LEMMA InitFeed == Init => FeedInv
<1> SUFFICES ASSUME Init PROVE FeedInv
  OBVIOUS
<1>1. TypeOK
  <2>2. link \in [Socks -> Links] /\ asked \in [Socks -> Fates]
    BY DEF Init, Links, Fates
  <2>3. inbox \in [Socks -> Seq(Messages)]
    <3>1. <<>> \in Seq(Messages)
      OBVIOUS
    <3> QED BY <3>1 DEF Init
  <2> QED BY <2>2, <2>3 DEF Init, TypeOK, Points
<1>2. Free = Socks
  BY DEF Init, Free
<1>3. Sockets
  BY <1>2, SocksAreNumbers DEF Init, Sockets, Connected
<1> QED BY <1>1, <1>3 DEF Init, FeedInv

\* The invariant sees the descriptors and the child only.
LEMMA Typing ==
  ASSUME FeedInv
  PROVE  /\ child \in Points /\ isRunning \in BOOLEAN /\ isConnected \in BOOLEAN
         /\ sock \in Socks \cup {NoSock}
         /\ link \in [Socks -> Links] /\ asked \in [Socks -> Fates]
         /\ inbox \in [Socks -> Seq(Messages)]
BY DEF FeedInv, TypeOK

LEMMA KillKeeps ==
  ASSUME FeedInv, Kill,
         parent' \in {"menu", "waiting", "done", "dead", "missed"},
         serverUp' \in BOOLEAN, crashes' \in Nat, unheard' \in BOOLEAN
  PROVE  FeedInv'
<1>1. TypeOK'
  <2>1. link' \in [Socks -> Links]
    BY DEF Kill, CloseAll, Links
  <2>2. asked' \in [Socks -> Fates]
    BY DEF Kill, CloseAll, Fates
  <2>3. inbox' \in [Socks -> Seq(Messages)]
    BY DEF Kill, CloseAll
  <2> QED BY <2>1, <2>2, <2>3, Typing DEF TypeOK, Kill, Points
<1>2. child' = "ended" /\ \A s \in Socks : link'[s] = "free"
  BY DEF Kill, CloseAll
<1> QED BY <1>1, <1>2 DEF FeedInv

LEMMA StopKeeps ==
  ASSUME FeedInv, child = "recv", Stop, isRunning' \in BOOLEAN,
         child' \in {"loop", "backoff"},
         parent' \in {"menu", "waiting", "done", "dead", "missed"},
         serverUp' \in BOOLEAN, crashes' \in Nat, unheard' \in BOOLEAN
  PROVE  FeedInv'
<1>1. sock \in Socks /\ isConnected
  BY Typing DEF FeedInv, Sockets
<1>2. TypeOK'
  <2>1. link' \in [Socks -> Links]
    BY <1>1, Typing DEF Stop, Links
  <2>2. asked' \in [Socks -> Fates]
    BY <1>1, Typing DEF Stop, Fates
  <2>3. inbox' \in [Socks -> Seq(Messages)]
    BY <1>1, Typing DEF Stop
  <2> QED BY <2>1, <2>2, <2>3 DEF TypeOK, Stop, Points, Looping
<1>3. link' = [link EXCEPT ![sock] = "free"] /\ sock' = NoSock /\ ~ isConnected'
  BY DEF Stop
<1>4. link'[sock] = "free" /\ \A s \in Socks \ {sock} : link'[s] = link[s]
  BY <1>1, <1>3, Typing
<1>5. \A s \in Socks : link'[s] \notin Connected
  BY <1>4 DEF FeedInv, Sockets, Connected
<1>6. Free' # {}
  BY <1>1, <1>4 DEF Free
<1>7. Sockets'
  BY <1>3, <1>5, <1>6 DEF Sockets
<1> QED BY <1>2, <1>7 DEF FeedInv

LEMMA SigtermKeeps ==
  ASSUME FeedInv, Sigterm, parent # "login",
         parent' \in {"waiting", "dead"}, UNCHANGED <<serverUp, crashes>>,
         unheard' \in BOOLEAN
  PROVE  FeedInv'
<1>1. serverUp' \in BOOLEAN /\ crashes' \in Nat
  BY DEF FeedInv, TypeOK
<1>2. CASE child \in {"forked", "armed"} /\ Kill
  BY <1>1, <1>2, KillKeeps
<1>3. CASE Blocked /\ isRunning' = FALSE /\ child' = "loop" /\ Stop
  BY <1>1, <1>3, StopKeeps DEF Blocked
<1>4. CASE /\ child \in Looping \cup {"handling"} /\ isRunning' = FALSE
           /\ UNCHANGED <<child, isConnected, sock, link, asked, inbox>>
  BY <1>1, <1>4 DEF FeedInv, TypeOK, Sockets, Free
<1>5. CASE child = "ended" /\ Ignored
  BY <1>1, <1>5 DEF FeedInv, TypeOK, Sockets, Free, Ignored, client
<1> QED BY <1>2, <1>3, <1>4, <1>5 DEF Sigterm

LEMMA ParentKeeps ==
  ASSUME FeedInv, Fork \/ StopFeed \/ Reap \/ ParentDies
  PROVE  FeedInv'
<1>1. CASE Fork
  BY <1>1 DEF Fork, FeedInv, TypeOK, Sockets, Free, Points, Starting
<1>2. CASE StopFeed
  BY <1>2, SigtermKeeps DEF StopFeed, FeedInv, TypeOK
<1>3. CASE Reap
  BY <1>3 DEF Reap, FeedInv, TypeOK, Sockets, Free, client
<1>4. CASE ParentDies
  <2>1. CASE parent' = "missed" /\ Ignored
    BY <1>4, <2>1 DEF ParentDies, Ignored, FeedInv, TypeOK, Sockets, Free, client
  <2>2. CASE parent' = "dead" /\ Sigterm
    BY <1>4, <2>2, SigtermKeeps DEF ParentDies
  <2> QED BY <1>4, <2>1, <2>2 DEF ParentDies
<1> QED BY <1>1, <1>2, <1>3, <1>4

LEMMA WorldKeeps ==
  ASSUME FeedInv, Crash \/ Restart \/ \E s \in Socks : Answer(s)
  PROVE  FeedInv'
<1>1. CASE Crash
  <2> PICK how \in {"fin", "rst"} :
        link' = [s \in Socks |-> IF link[s] = "open" THEN how ELSE link[s]]
    BY <1>1 DEF Crash
  <2>1. \A s \in Socks : /\ link'[s] \in Connected <=> link[s] \in Connected
                         /\ link'[s] = "free" <=> link[s] = "free"
    BY DEF Connected
  <2>2. link' \in [Socks -> Links]
    BY Typing DEF Links, Connected
  <2>3. UNCHANGED client /\ UNCHANGED <<parent, asked, inbox, unheard>>
    BY <1>1 DEF Crash
  <2>4. TypeOK'
    <3>1. serverUp' = FALSE /\ crashes' = crashes + 1
      BY <1>1 DEF Crash
    <3>2. crashes' \in Nat
      BY <3>1 DEF FeedInv, TypeOK
    <3> QED BY <2>2, <2>3, <3>1, <3>2 DEF FeedInv, TypeOK, client
  <2>5. Free' = Free
    BY <2>1 DEF Free
  <2>6. Sockets => Sockets'
    BY <2>1, <2>3, <2>5, Typing DEF Sockets, client
  <2> QED BY <2>1, <2>3, <2>4, <2>6 DEF FeedInv, client
<1>2. CASE Restart
  BY <1>2 DEF Restart, FeedInv, TypeOK, Sockets, Free, client
<1>3. ASSUME NEW s \in Socks, Answer(s) PROVE FeedInv'
  <2>1. PICK fate \in Fates, message \in {<<>>, <<"failure">>, <<"post">>} :
          Reply(s, fate, message)
    BY <1>3, Zenon DEF Answer, Fates
  <2>2. message \in Seq(Messages)
    <3>1. <<>> \in Seq(Messages) /\ <<"failure">> \in Seq(Messages)
          /\ <<"post">> \in Seq(Messages)
      BY DEF Messages
    <3> QED BY <3>1
  <2>3. asked' \in [Socks -> Fates] /\ inbox' \in [Socks -> Seq(Messages)]
    <3>1. inbox[s] \o message \in Seq(Messages)
      BY <2>2, Typing
    <3> QED BY <2>1, <3>1, Typing DEF Reply
  <2> QED BY <2>1, <2>3 DEF Reply, FeedInv, TypeOK, Sockets, Free, client
<1> QED BY <1>1, <1>2, <1>3

LEMMA ConnectKeeps == ASSUME FeedInv, Connect PROVE FeedInv'
<1>1. PICK s \in Socks : /\ Lowest(s) \/ (Free = {} /\ s = sock)
                         /\ sock' = s /\ ConnectOn(s)
  BY DEF Connect
<1>2. ~ isConnected /\ child = "connecting" /\ Sockets
  BY DEF Connect, FeedInv, Sockets
<1>3. \A t \in Socks : link[t] \notin Connected
  BY <1>2 DEF Sockets
<1>4. s # NoSock
  BY SocksAreNumbers
<1>5. UNCHANGED <<isRunning, asked, inbox, parent, serverUp, crashes, unheard>>
  BY DEF Connect, Outside
<1>6. ASSUME NEW l \in {"open", "idle"}, link' = [link EXCEPT ![s] = l]
      PROVE  /\ link' \in [Socks -> Links] /\ link'[s] = l
             /\ \A t \in Socks \ {s} : link'[t] = link[t]
  BY <1>6, Typing DEF Links, Connected
<1>7. CASE isConnected' = TRUE /\ child' = "sending" /\ link' = [link EXCEPT ![s] = "open"]
  <2>1. TypeOK'
    BY <1>1, <1>5, <1>6, <1>7 DEF FeedInv, TypeOK, Points, Looping
  <2>2. Sockets'
    BY <1>1, <1>3, <1>4, <1>6, <1>7 DEF Sockets, Connected
  <2> QED BY <1>2, <1>5, <1>7, <2>1, <2>2 DEF FeedInv
<1>8. CASE isConnected' = isConnected /\ child' = "backoff" /\ link' = [link EXCEPT ![s] = "idle"]
  <2>1. TypeOK'
    BY <1>1, <1>5, <1>6, <1>8 DEF FeedInv, TypeOK, Points, Looping
  <2>2. Sockets'
    BY <1>1, <1>2, <1>3, <1>4, <1>6, <1>8 DEF Sockets, Connected
  <2> QED BY <1>2, <1>5, <1>8, <2>1, <2>2 DEF FeedInv
<1> QED BY <1>1, <1>7, <1>8 DEF ConnectOn

LEMMA ChildKeeps == ASSUME FeedInv, ChildStep PROVE FeedInv'
<1>1. CASE SetUp
  BY <1>1 DEF SetUp, Outside, FeedInv, TypeOK, Sockets, Free, Points, Starting, Looping
<1>2. CASE Loop
  <2>1. CASE Kill
    BY <1>2, <2>1, KillKeeps DEF Loop, Outside, FeedInv, TypeOK
  <2>2. CASE /\ child' = IF isConnected THEN "receiving" ELSE "connecting"
             /\ UNCHANGED <<isRunning, isConnected, sock, link, asked, inbox>>
    BY <1>2, <2>2 DEF Loop, Outside, FeedInv, TypeOK, Sockets, Free, Points, Looping
  <2> QED BY <1>2, <2>1, <2>2 DEF Loop
<1>3. CASE Connect
  BY <1>3, ConnectKeeps
<1>4. CASE Send
  <2>1. sock \in Socks /\ isConnected /\ Sockets
    BY <1>4, Typing DEF Send, FeedInv, Sockets
  <2>2. asked' \in [Socks -> Fates]
    BY <1>4, Typing DEF Send, Fates
  <2>3. link' \in [Socks -> Links]
    BY <1>4, Typing DEF Send, Links, Connected
  <2>4. TypeOK'
    BY <1>4, <2>2, <2>3 DEF Send, Outside, FeedInv, TypeOK, Points, Looping
  <2>5. \A s \in Socks : /\ link'[s] \in Connected <=> link[s] \in Connected
                         /\ link'[s] = "free" <=> link[s] = "free"
    BY <1>4, <2>1, Typing DEF Send, Connected
  <2>6. Free' = Free
    BY <2>5 DEF Free
  <2>7. Sockets'
    BY <1>4, <2>1, <2>5, <2>6 DEF Send, Sockets
  <2> QED BY <1>4, <2>1, <2>4, <2>7 DEF Send, Outside, FeedInv
<1>5. CASE EnterRecv
  BY <1>5 DEF EnterRecv, Outside, FeedInv, TypeOK, Sockets, Free, Points, Looping
<1>6. CASE Wake
  BY <1>6 DEF Wake, Outside, FeedInv, TypeOK, Sockets, Free, Points, Looping
<1>7. CASE Read
  <2>1. sock \in Socks
    BY <1>7, Typing DEF Read, FeedInv, Sockets
  <2>2. inbox' \in [Socks -> Seq(Messages)]
    BY <1>7, <2>1, Typing DEF Read
  <2> QED BY <1>7, <2>2 DEF Read, Outside, FeedInv, TypeOK, Sockets, Free, Points, Looping
<1>8. CASE ReadError
  <2>1. sock \in Socks /\ Sockets
    BY <1>8, Typing DEF ReadError, FeedInv, Sockets
  <2>2. link' \in [Socks -> Links]
    BY <1>8, Typing DEF ReadError, Links, Connected
  <2>3. TypeOK'
    BY <1>8, <2>2 DEF ReadError, Outside, FeedInv, TypeOK, Points, Looping
  <2>4. \A s \in Socks : /\ link'[s] \in Connected <=> link[s] \in Connected
                         /\ link'[s] = "free" <=> link[s] = "free"
    BY <1>8, <2>1, Typing DEF ReadError, Connected
  <2>5. Free' = Free
    BY <2>4 DEF Free
  <2>6. Sockets'
    BY <1>8, <2>1, <2>4, <2>5 DEF ReadError, Sockets
  <2> QED BY <1>8, <2>3, <2>6 DEF ReadError, Outside, FeedInv
<1>9. CASE Terminated
  BY <1>9, StopKeeps DEF Terminated, Outside, FeedInv, TypeOK
<1> QED
  BY <1>1, <1>2, <1>3, <1>4, <1>5, <1>6, <1>7, <1>8, <1>9 DEF ChildStep

LEMMA FeedInvariant == Spec => []FeedInv
<1>1. FeedInv /\ [Next]_vars => FeedInv'
  <2> SUFFICES ASSUME FeedInv, [Next]_vars PROVE FeedInv'
    OBVIOUS
  <2>1. CASE Next
    BY <2>1, ChildKeeps, ParentKeeps, WorldKeeps DEF Next
  <2>2. CASE UNCHANGED vars
    BY <2>2 DEF vars, client, FeedInv, TypeOK, Sockets, Free
  <2> QED BY <2>1, <2>2
<1> QED BY <1>1, InitFeed, PTL DEF Spec

\* The child is never subscribed on two connections (handleClientFeed), for
\* any number of descriptors, losses and failed attempts.
THEOREM NeverTwoConnections == Spec => []OneConnection
<1>1. FeedInv => OneConnection
  BY DEF FeedInv, Sockets, OneConnection, Connected
<1> QED BY <1>1, FeedInvariant, PTL

\* Nothing but failed attempts to connect leaks descriptors, and a retry has
\* the socket of the last one when they are used up: startStreamClient may
\* then fail unnoticed.
THEOREM RetriesHaveASocket == Spec => []SocketAtHand
<1>1. FeedInv => SocketAtHand
  <2> SUFFICES ASSUME FeedInv PROVE SocketAtHand
    OBVIOUS
  <2>1. ASSUME NEW s \in Socks \ Free PROVE s = sock \/ link[s] = "idle"
    BY <2>1, Typing DEF FeedInv, Sockets, Free, Links
  <2> QED BY <2>1 DEF FeedInv, Sockets, SocketAtHand
<1> QED BY <1>1, FeedInvariant, PTL

----------------------------------------------------------------------------
(* The life the Lodi client sees (FeedLife).  A child ends only when it was *)
(* told to or refused: what is refused stays so until the failure is read,  *)
(* and what stops the loop is one of the two.                               *)

Unasked == \A s \in Socks : asked[s] = "nothing"
FailureIn(s) == \E k \in DOMAIN inbox[s] : inbox[s][k] = "failure"

Family ==
  /\ parent # "login" => child # "none"
  /\ parent = "done" => child = "ended"
  /\ parent = "waiting" => child \notin {"forked", "armed"}

Requests ==
  /\ \A s \in Socks : asked[s] # "nothing" => s = sock /\ isConnected
  /\ child \in Starting \cup {"none", "connecting", "sending", "ended"} => Unasked

Refusals ==
  /\ \A s \in Socks : FailureIn(s) => asked[s] = "refused"
  /\ \A s \in Socks : asked[s] = "refused" =>
       FailureIn(s) \/ (child = "loop" /\ ~ isRunning)
  /\ child \in Looping /\ ~ isRunning =>
       parent \in {"waiting", "dead"} \/ AskedOf("refused")

LifeInv == FeedInv /\ Family /\ Requests /\ Refusals

LEMMA InitLife == Init => LifeInv
<1> SUFFICES ASSUME Init PROVE LifeInv
  OBVIOUS
<1>1. Unasked
  BY DEF Init, Unasked
<1>2. \A s \in Socks : ~ FailureIn(s)
  BY DEF Init, FailureIn
<1>3. Family /\ Requests
  BY <1>1 DEF Init, Family, Requests, Unasked
<1>4. Refusals
  BY <1>1, <1>2 DEF Init, Refusals, Unasked, Looping
<1> QED BY <1>3, <1>4, InitFeed DEF LifeInv

\* What keeps the four variables the requests are in keeps the rest of it.
LEMMA QuietKeeps ==
  ASSUME LifeInv, UNCHANGED <<isConnected, sock, asked, inbox>>,
         child' \in Starting \cup {"none", "connecting", "sending", "ended"} => Unasked,
         \A s \in Socks : asked[s] = "refused" => FailureIn(s) \/ (child' = "loop" /\ ~ isRunning'),
         child' \in Looping /\ ~ isRunning' =>
           parent' \in {"waiting", "dead"} \/ AskedOf("refused")
  PROVE  Requests' /\ Refusals'
<1>1. Unasked' <=> Unasked
  BY DEF Unasked
<1>2. \A s \in Socks : FailureIn(s)' <=> FailureIn(s)
  BY DEF FailureIn
<1>3. AskedOf("refused")' <=> AskedOf("refused")
  BY DEF AskedOf
<1>4. Requests'
  BY <1>1 DEF LifeInv, Requests
<1> QED BY <1>2, <1>3, <1>4 DEF LifeInv, Refusals

LEMMA KillLife == ASSUME LifeInv, Kill PROVE Requests' /\ Refusals'
<1>1. Unasked' /\ child' = "ended"
  BY DEF Kill, CloseAll, Unasked
<1>2. \A s \in Socks : ~ FailureIn(s)'
  BY DEF Kill, CloseAll, FailureIn
<1> QED BY <1>1, <1>2 DEF Requests, Refusals, Unasked, Looping

\* Stop finds the request of the current socket and leaves none.
LEMMA StopLife ==
  ASSUME LifeInv, Stop, child = "recv"
  PROVE  Unasked' /\ \A s \in Socks : ~ FailureIn(s)'
<1>1. sock \in Socks
  BY Typing DEF LifeInv, FeedInv, Sockets
<1>2. \A s \in Socks : asked'[s] = IF s = sock THEN "nothing" ELSE asked[s]
  BY <1>1, Typing DEF Stop, LifeInv
<1>3. Unasked'
  BY <1>2 DEF LifeInv, Requests, Unasked
<1>4. \A s \in Socks : inbox'[s] = IF s = sock THEN <<>> ELSE inbox[s]
  BY <1>1, Typing DEF Stop, LifeInv
<1>5. \A s \in Socks : ~ FailureIn(s)'
  <2> TAKE s \in Socks
  <2>1. CASE s = sock
    BY <1>4, <2>1 DEF FailureIn
  <2>2. CASE s # sock
    <3>1. ~ FailureIn(s)
      BY <2>2 DEF LifeInv, Requests, Refusals
    <3> QED BY <1>4, <2>2, <3>1 DEF FailureIn
  <2> QED BY <2>1, <2>2
<1> QED BY <1>3, <1>5

LEMMA SigtermLife ==
  ASSUME LifeInv, Sigterm, parent # "login", parent' \in {"waiting", "dead"}
  PROVE  Family' /\ Requests' /\ Refusals'
<1>1. CASE child \in {"forked", "armed"} /\ Kill
  <2>1. Family'
    BY <1>1 DEF Kill, Family
  <2> QED BY <1>1, <2>1, KillLife
<1>2. CASE Blocked /\ isRunning' = FALSE /\ child' = "loop" /\ Stop
  <2>1. Unasked' /\ \A s \in Socks : ~ FailureIn(s)'
    BY <1>2, StopLife DEF Blocked
  <2> QED BY <1>2, <2>1 DEF Family, Requests, Refusals, Unasked, Starting
<1>3. CASE /\ child \in Looping \cup {"handling"} /\ isRunning' = FALSE
           /\ UNCHANGED <<child, isConnected, sock, link, asked, inbox>>
  <2>1. Family'
    BY <1>3 DEF Family, Looping
  <2> QED BY <1>3, <2>1, QuietKeeps DEF LifeInv, Requests, Refusals
<1>4. CASE child = "ended" /\ Ignored
  <2>1. Family'
    BY <1>4 DEF Family, Ignored, client
  <2> QED BY <1>4, <2>1, QuietKeeps DEF Ignored, client, LifeInv, Requests, Refusals, Looping
<1> QED BY <1>1, <1>2, <1>3, <1>4 DEF Sigterm

LEMMA ParentLife ==
  ASSUME LifeInv, Fork \/ StopFeed \/ Reap \/ ParentDies
  PROVE  Family' /\ Requests' /\ Refusals'
<1>1. CASE Fork
  <2>1. child = "none"
    BY <1>1 DEF Fork, LifeInv, FeedInv
  <2>2. Family'
    BY <1>1 DEF Fork, Family
  <2>3. Unasked
    BY <2>1 DEF LifeInv, Requests
  <2> QED BY <1>1, <2>2, <2>3, QuietKeeps DEF Fork, Unasked, Looping
<1>2. CASE StopFeed
  BY <1>2, SigtermLife DEF StopFeed
<1>3. CASE Reap
  <2>1. Family'
    BY <1>3 DEF Reap, Family, client
  <2> QED BY <1>3, <2>1, QuietKeeps DEF Reap, client, LifeInv, Requests, Refusals, Looping
<1>4. CASE ParentDies
  <2>1. CASE child = "forked" /\ parent' = "missed" /\ Ignored
    <3>1. Family'
      BY <2>1 DEF Family, Ignored, client
    <3> QED BY <2>1, <3>1, QuietKeeps
            DEF Ignored, client, LifeInv, Requests, Refusals, Looping
  <2>2. CASE parent' = "dead" /\ Sigterm
    BY <1>4, <2>2, SigtermLife DEF ParentDies
  <2> QED BY <1>4, <2>1, <2>2 DEF ParentDies
<1> QED BY <1>1, <1>2, <1>3, <1>4

LEMMA WorldLife ==
  ASSUME LifeInv, Crash \/ Restart \/ \E s \in Socks : Answer(s)
  PROVE  Family' /\ Requests' /\ Refusals'
<1>1. CASE Crash \/ Restart
  <2>1. UNCHANGED <<parent, child, isRunning, isConnected, sock, asked, inbox>>
    BY <1>1 DEF Crash, Restart, client
  <2>2. Family'
    BY <2>1 DEF LifeInv, Family
  <2> QED BY <2>1, <2>2, QuietKeeps DEF LifeInv, Requests, Refusals
<1>2. ASSUME NEW s \in Socks, Answer(s) PROVE Family' /\ Requests' /\ Refusals'
  <2>1. UNCHANGED <<parent, child, isRunning, isConnected, sock>>
    BY <1>2 DEF Answer, Reply, client
  <2>2. Family'
    BY <2>1 DEF LifeInv, Family
  <2>3. asked[s] \in {"pending", "admitted"}
    BY <1>2 DEF Answer
  <2>4. s = sock /\ isConnected /\ ~ Unasked /\ ~ FailureIn(s)
    BY <2>3 DEF LifeInv, Requests, Refusals, Unasked
  <2>5. \A t \in Socks \ {s} : asked[t] = "nothing" /\ ~ FailureIn(t)
    BY <2>4 DEF LifeInv, Requests, Refusals
  <2>6. ASSUME NEW fate \in Fates \ {"nothing"},
               NEW message \in {<<>>, <<"failure">>, <<"post">>},
               fate = "refused" <=> message = <<"failure">>, Reply(s, fate, message)
        PROVE  Requests' /\ Refusals'
    <3>1. asked'[s] = fate /\ \A t \in Socks \ {s} : asked'[t] = asked[t]
      BY <2>6, Typing DEF Reply, LifeInv
    <3>2. inbox'[s] = inbox[s] \o message /\ \A t \in Socks \ {s} : inbox'[t] = inbox[t]
      BY <2>6, Typing DEF Reply, LifeInv
    <3>3. \A t \in Socks \ {s} : ~ FailureIn(t)'
      BY <2>5, <3>2 DEF FailureIn
    <3>4. inbox[s] \in Seq(Messages)
      BY Typing DEF LifeInv
    <3>5. FailureIn(s)' <=> fate = "refused"
      <4>1. CASE message = <<"failure">>
        <5>1. Len(inbox[s]) + 1 \in DOMAIN inbox'[s]
              /\ inbox'[s][Len(inbox[s]) + 1] = "failure"
          BY <3>2, <3>4, <4>1
        <5> QED BY <2>6, <4>1, <5>1 DEF FailureIn
      <4>2. CASE message = <<"post">>
        <5>1. \A k \in DOMAIN inbox'[s] :
                inbox'[s][k] = "post" \/ (k \in DOMAIN inbox[s] /\ inbox'[s][k] = inbox[s][k])
          BY <3>2, <3>4, <4>2
        <5>2. ~ FailureIn(s)'
          BY <2>4, <5>1 DEF FailureIn
        <5>3. message # <<"failure">>
          BY <4>2
        <5> QED BY <2>6, <5>2, <5>3
      <4>3. CASE message = <<>>
        <5>1. inbox'[s] = inbox[s]
          BY <3>2, <3>4, <4>3
        <5>2. ~ FailureIn(s)'
          BY <2>4, <5>1 DEF FailureIn
        <5>3. message # <<"failure">>
          BY <4>3
        <5> QED BY <2>6, <5>2, <5>3
      <4> QED BY <2>6, <4>1, <4>2, <4>3
    <3>6. child \notin Starting \cup {"none", "connecting", "sending", "ended"}
      BY <2>4 DEF LifeInv, Requests
    <3>7. Requests'
      BY <2>1, <2>4, <2>5, <3>1, <3>6 DEF Requests
    <3>8. ~ AskedOf("refused")
      BY <2>3, <2>5 DEF AskedOf
    <3> QED BY <2>1, <2>5, <3>1, <3>3, <3>5, <3>7, <3>8 DEF LifeInv, Refusals
  <2>7. \/ Reply(s, "admitted", <<>>) \/ Reply(s, "refused", <<"failure">>)
        \/ Reply(s, "admitted", <<"post">>)
    BY <1>2, Zenon DEF Answer
  <2>8. <<"post">> # <<"failure">> /\ <<>> # <<"failure">>
    OBVIOUS
  <2> QED BY <2>2, <2>6, <2>7, <2>8 DEF Fates
<1> QED BY <1>1, <1>2

LEMMA TailElements ==
  ASSUME NEW S, NEW q \in Seq(S), q # <<>>
  PROVE  /\ \A k \in DOMAIN Tail(q) : k + 1 \in DOMAIN q /\ Tail(q)[k] = q[k + 1]
         /\ \A k \in DOMAIN q : k # 1 => k - 1 \in DOMAIN Tail(q) /\ Tail(q)[k - 1] = q[k]
         /\ Head(q) = q[1]
OBVIOUS

LEMMA ChildLife == ASSUME LifeInv, ChildStep PROVE Family' /\ Requests' /\ Refusals'
<1> USE DEF Outside
<1>1. child # "none" /\ child # "ended"
  BY DEF ChildStep, SetUp, Loop, Connect, Send, EnterRecv, Wake, Read, ReadError,
         Terminated
<1>2. Family'
  BY <1>1 DEF ChildStep, SetUp, Loop, Kill, Connect, ConnectOn, Send, EnterRecv, Wake,
              Read, ReadError, Terminated, LifeInv, Family
<1>3. CASE SetUp
  <2>1. Unasked
    BY <1>3 DEF SetUp, LifeInv, Requests, Starting
  <2> QED BY <1>2, <1>3, <2>1, QuietKeeps DEF SetUp, Unasked, Looping
<1>4. CASE Loop
  <2>1. CASE /\ isRunning
             /\ child' = IF isConnected THEN "receiving" ELSE "connecting"
             /\ UNCHANGED <<isRunning, isConnected, sock, link, asked, inbox>>
    <3>1. ~ isConnected => Unasked
      BY DEF LifeInv, Requests, Unasked
    <3>2. child' \in {"receiving", "connecting"} /\ (child' = "connecting" => ~ isConnected)
      BY <2>1
    <3>3. \A s \in Socks : asked[s] = "refused" => FailureIn(s)
      BY <2>1 DEF LifeInv, Refusals
    <3> QED BY <1>2, <2>1, <3>1, <3>2, <3>3, QuietKeeps DEF Starting
  <2> QED BY <1>2, <1>4, <2>1, KillLife DEF Loop
<1>5. CASE Connect
  <2>1. Unasked /\ UNCHANGED <<asked, inbox, isRunning, parent>>
    BY <1>5 DEF Connect, LifeInv, Requests
  <2>2. child' \in {"sending", "backoff"}
    BY <1>5 DEF Connect, ConnectOn
  <2>3. Unasked' /\ Requests'
    BY <2>1 DEF Unasked, Requests
  <2>4. \A s \in Socks : FailureIn(s)' <=> FailureIn(s)
    BY <2>1 DEF FailureIn
  <2>5. AskedOf("refused")' <=> AskedOf("refused")
    BY <2>1 DEF AskedOf
  <2> QED BY <1>2, <1>5, <2>1, <2>2, <2>3, <2>4, <2>5
          DEF Connect, LifeInv, Refusals, Unasked, Looping
<1>6. CASE Send
  <2>1. Unasked /\ sock \in Socks /\ isConnected
    BY <1>6, Typing DEF Send, LifeInv, FeedInv, Sockets, Requests
  <2>2. \A s \in Socks : asked'[s] \in {"nothing", "pending"} /\ (asked'[s] = "pending" => s = sock)
    BY <1>6, <2>1, Typing DEF Send, LifeInv, Unasked
  <2>3. \A s \in Socks : ~ FailureIn(s) /\ (FailureIn(s)' <=> FailureIn(s))
    BY <1>6, <2>1 DEF Send, LifeInv, Refusals, Unasked, FailureIn
  <2>4. ~ AskedOf("refused")
    BY <2>1 DEF AskedOf, Unasked
  <2>5. UNCHANGED <<sock, isConnected, isRunning, parent>> /\ child' \in {"receiving", "backoff"}
    BY <1>6 DEF Send
  <2>6. Requests'
    BY <2>1, <2>2, <2>5 DEF Requests, Starting
  <2>7. Refusals'
    BY <1>6, <2>2, <2>3, <2>4, <2>5 DEF Send, LifeInv, Refusals, Looping
  <2> QED BY <1>2, <2>6, <2>7
<1>7. CASE EnterRecv \/ Wake \/ ReadError
  <2>1. /\ child \in {"receiving", "backoff", "recv"} /\ child' \in {"recv", "loop"}
        /\ UNCHANGED <<parent, isRunning, isConnected, sock, asked, inbox>>
    BY <1>7 DEF EnterRecv, Wake, ReadError
  <2> QED BY <1>2, <2>1, QuietKeeps DEF LifeInv, Refusals, Looping, Starting
<1>8. CASE Read
  <2>1. sock \in Socks /\ inbox[sock] \in Seq(Messages) /\ inbox[sock] # <<>>
    BY <1>8, Typing DEF Read, LifeInv, FeedInv, Sockets
  <2>2. inbox'[sock] = Tail(inbox[sock]) /\ \A s \in Socks \ {sock} : inbox'[s] = inbox[s]
    BY <1>8, <2>1, Typing DEF Read, LifeInv
  <2>3. \A s \in Socks : FailureIn(s)' => FailureIn(s)
    <3>1. \A k \in DOMAIN inbox'[sock] :
            k + 1 \in DOMAIN inbox[sock] /\ inbox'[sock][k] = inbox[sock][k + 1]
      BY <2>1, <2>2, TailElements
    <3> TAKE s \in Socks
    <3>2. CASE s = sock
      BY <3>1, <3>2 DEF FailureIn
    <3>3. CASE s # sock
      BY <2>2, <3>3 DEF FailureIn
    <3> QED BY <3>2, <3>3
  <2>4. CASE Head(inbox[sock]) = "failure"
    <3>1. FailureIn(sock)
      BY <2>1, <2>4 DEF FailureIn
    <3>2. ~ isRunning' /\ asked[sock] = "refused"
      BY <1>8, <2>4, <3>1, <2>1 DEF Read, LifeInv, Refusals
    <3>3. Requests'
      BY <1>8, <3>2 DEF Read, LifeInv, Requests, Unasked, Starting
    <3> QED BY <1>2, <1>8, <2>1, <2>3, <3>2, <3>3 DEF Read, LifeInv, Refusals, AskedOf
  <2>5. CASE Head(inbox[sock]) # "failure"
    <3>1. \A k \in DOMAIN inbox[sock] : inbox[sock][k] = "failure" =>
            k - 1 \in DOMAIN inbox'[sock] /\ inbox'[sock][k - 1] = "failure"
      BY <2>1, <2>2, <2>5, TailElements
    <3>2. \A s \in Socks : FailureIn(s) => FailureIn(s)'
      <4> TAKE s \in Socks
      <4>1. CASE s = sock
        BY <3>1, <4>1 DEF FailureIn
      <4>2. CASE s # sock
        BY <2>2, <4>2 DEF FailureIn
      <4> QED BY <4>1, <4>2
    <3>3. isRunning' <=> isRunning
      BY <1>8, <2>5 DEF Read
    <3>4. Requests'
      BY <1>8 DEF Read, LifeInv, Requests, Starting
    <3> QED BY <1>2, <1>8, <2>3, <3>2, <3>3, <3>4
            DEF Read, LifeInv, Refusals, AskedOf, Looping
  <2> QED BY <2>4, <2>5
<1>9. CASE Terminated
  <2>1. Unasked' /\ \A s \in Socks : ~ FailureIn(s)'
    BY <1>9, StopLife DEF Terminated
  <2>2. ~ AskedOf("refused")
    <3>1. ~ FailureIn(sock)
      BY <1>9 DEF Terminated, FailureIn
    <3> QED BY <1>9, <3>1 DEF Terminated, AskedOf, LifeInv, Requests, Refusals
  <2>3. isRunning \/ parent' \in {"waiting", "dead"}
    BY <1>9, <2>2 DEF Terminated, LifeInv, Refusals, Looping
  <2> QED BY <1>2, <1>9, <2>1, <2>3 DEF Terminated, Requests, Refusals, Unasked
<1> QED BY <1>3, <1>4, <1>5, <1>6, <1>7, <1>8, <1>9 DEF ChildStep

LEMMA LifeInvariant == Spec => []LifeInv
<1>1. LifeInv /\ [Next]_vars => (FeedInv' => LifeInv')
  <2> SUFFICES ASSUME LifeInv, [Next]_vars, FeedInv' PROVE LifeInv'
    OBVIOUS
  <2>1. CASE UNCHANGED vars
    <3>1. Family'
      BY <2>1 DEF vars, client, LifeInv, Family
    <3> QED BY <2>1, <3>1, QuietKeeps DEF vars, client, LifeInv, Requests, Refusals
  <2> QED BY <2>1, ChildLife, ParentLife, WorldLife DEF Next, LifeInv
<1> QED BY <1>1, InitLife, FeedInvariant, PTL DEF Spec

\* What FeedLife's variables stand for.
Process == IF parent = "done" THEN "reaped"
           ELSE IF child \in {"none", "ended"} THEN child ELSE "running"
Stream == IF AskedOf("pending") THEN "asked"
          ELSE IF AskedOf("admitted") THEN "admitted"
          ELSE IF AskedOf("refused") THEN "refused" ELSE "closed"
Told == parent \in {"waiting", "done", "dead"}

\* Only the current socket has a request.
LEMMA StreamIsRequest ==
  ASSUME LifeInv
  PROVE  /\ Unasked => Stream = "closed"
         /\ \A s \in Socks : asked[s] = "pending" => Stream = "asked"
         /\ \A s \in Socks : asked[s] = "admitted" => Stream = "admitted"
         /\ \A s \in Socks : asked[s] = "refused" => Stream = "refused"
BY DEF LifeInv, Requests, Unasked, Stream, AskedOf

LEMMA StreamSame ==
  ASSUME asked' = asked PROVE Stream' = Stream
BY DEF Stream, AskedOf

LEMMA StreamClosed ==
  ASSUME Unasked' PROVE Stream' = "closed"
BY DEF Stream, AskedOf, Unasked

LEMMA SigtermRefines ==
  ASSUME LifeInv, Sigterm, parent \in {"menu", "waiting"}, parent' \in {"waiting", "dead"}
  PROVE  Life!Tell
<1>1. Told' /\ Process \in {"running", "ended"}
  BY DEF Told, Process, LifeInv, FeedInv, Family
<1>2. CASE child \in {"forked", "armed"} /\ Kill
  <2>1. Unasked' /\ Process' = "ended"
    BY <1>2 DEF Kill, CloseAll, Unasked, Process
  <2> QED BY <1>1, <2>1, StreamClosed DEF Life!Tell, Process, Stream, Told
<1>3. CASE Blocked /\ isRunning' = FALSE /\ child' = "loop" /\ Stop
  <2>1. Unasked' /\ Process' = Process
    BY <1>3, StopLife DEF Blocked, Process
  <2> QED BY <1>1, <2>1, StreamClosed DEF Life!Tell, Process, Stream, Told
<1>4. CASE child' = child /\ asked' = asked
  <2>1. Process' = Process
    BY <1>4 DEF Process
  <2> QED BY <1>1, <1>4, <2>1, StreamSame DEF Life!Tell, Process, Stream, Told
<1> QED BY <1>2, <1>3, <1>4 DEF Sigterm, Ignored, client

LEMMA ParentRefines ==
  ASSUME LifeInv, Fork \/ StopFeed \/ Reap \/ ParentDies
  PROVE  Life!Next \/ UNCHANGED <<Process, Stream, Told>>
<1>1. CASE Fork
  <2>1. child = "none" /\ Unasked /\ asked' = asked
    BY <1>1 DEF Fork, LifeInv, FeedInv, Requests
  <2>2. Process = "none" /\ Process' = "running" /\ ~ Told'
    BY <1>1, <2>1 DEF Fork, Process, Told
  <2>3. Stream' = "closed"
    BY <2>1, StreamSame, StreamIsRequest
  <2> QED BY <2>2, <2>3 DEF Life!Next, Life!Start, Process, Stream, Told
<1>2. CASE StopFeed
  BY <1>2, SigtermRefines DEF StopFeed, Life!Next
<1>3. CASE Reap
  <2>1. Process = "ended" /\ Process' = "reaped" /\ Told /\ Told' /\ asked' = asked
    BY <1>3 DEF Reap, Process, Told
  <2> QED BY <2>1, StreamSame DEF Life!Next, Life!Reap, Process, Stream, Told
<1>4. CASE ParentDies
  <2>1. CASE child = "forked" /\ parent' = "missed" /\ Ignored
    <3>1. parent = "menu" /\ asked' = asked /\ child' = child
      BY <1>4, <2>1 DEF ParentDies, Ignored, client, LifeInv, Family
    <3>2. Process' = Process /\ Told' = Told
      BY <2>1, <3>1 DEF Process, Told
    <3> QED BY <3>1, <3>2, StreamSame
  <2>2. CASE parent' = "dead" /\ Sigterm
    BY <1>4, <2>2, SigtermRefines DEF ParentDies, Life!Next
  <2> QED BY <1>4, <2>1, <2>2 DEF ParentDies
<1> QED BY <1>1, <1>2, <1>3, <1>4

LEMMA WorldRefines ==
  ASSUME LifeInv, Crash \/ Restart \/ \E s \in Socks : Answer(s)
  PROVE  Life!Next \/ UNCHANGED <<Process, Stream, Told>>
<1>1. parent' = parent /\ child' = child
  BY DEF Crash, Restart, Answer, Reply, client
<1>2. Process' = Process /\ Told' = Told
  BY <1>1 DEF Process, Told
<1>3. CASE asked' = asked
  BY <1>2, <1>3, StreamSame
<1>4. ASSUME NEW s \in Socks, Answer(s), asked' # asked
      PROVE  Life!Admit \/ Life!Refuse
  <2>1. PICK fate \in {"admitted", "refused"} :
          /\ asked[s] = "pending" \/ (asked[s] = "admitted" /\ fate = "admitted")
          /\ asked' = [asked EXCEPT ![s] = fate]
    BY <1>4, Zenon DEF Answer, Reply
  <2>2. asked[s] = "pending"
    <3>1. asked[s] = "admitted" => asked' = asked
      BY <2>1, Typing DEF LifeInv
    <3> QED BY <1>4, <2>1, <3>1
  <2>3. asked'[s] = fate /\ \A t \in Socks \ {s} : asked'[t] = "nothing"
    BY <2>1, <2>2, Typing DEF LifeInv, Requests
  <2>4. Stream = "asked" /\ Stream' = fate
    BY <2>2, <2>3 DEF Stream, AskedOf
  <2> QED BY <1>2, <2>4 DEF Life!Admit, Life!Refuse, Process, Stream, Told
<1> QED BY <1>3, <1>4 DEF Life!Next, Crash, Restart

LEMMA ChildRefines ==
  ASSUME LifeInv, ChildStep
  PROVE  Life!Next \/ UNCHANGED <<Process, Stream, Told>>
<1> USE DEF Outside
<1>1. parent' = parent /\ Told' = Told
  BY DEF ChildStep, SetUp, Loop, Connect, Send, EnterRecv, Wake, Read, ReadError,
         Terminated, Told
<1>2. parent # "done" /\ Process = "running"
  BY DEF ChildStep, SetUp, Loop, Connect, Send, EnterRecv, Wake, Read, ReadError,
         Terminated, LifeInv, Family, Process
<1>3. CASE /\ SetUp \/ Connect \/ EnterRecv \/ Wake \/ Read \/ ReadError
           /\ asked' = asked
  <2>1. Process' = "running"
    BY <1>1, <1>2, <1>3 DEF SetUp, Connect, ConnectOn, EnterRecv, Wake, Read, ReadError, Process
  <2> QED BY <1>1, <1>2, <1>3, <2>1, StreamSame
<1>4. CASE Loop
  <2>1. CASE /\ child' = IF isConnected THEN "receiving" ELSE "connecting"
             /\ UNCHANGED <<isRunning, isConnected, sock, link, asked, inbox>>
    <3>1. Process' = "running"
      BY <1>1, <1>2, <2>1 DEF Process
    <3>2. Stream' = Stream
      BY <2>1, StreamSame
    <3> QED BY <1>1, <1>2, <3>1, <3>2
  <2>2. CASE ~ isRunning /\ Kill
    <3>1. Told \/ Stream = "refused"
      <4>1. parent \in {"waiting", "dead"} \/ AskedOf("refused")
        <5>1. child \in Looping /\ ~ isRunning
          BY <1>4, <2>2 DEF Loop, Looping
        <5> QED BY <5>1 DEF LifeInv, Refusals
      <4>2. ASSUME NEW s \in Socks, asked[s] = "refused" PROVE Stream = "refused"
        BY <4>2, StreamIsRequest
      <4> QED BY <4>1, <4>2 DEF Told, AskedOf
    <3>2. Process' = "ended" /\ Unasked'
      BY <1>1, <1>2, <2>2 DEF Kill, CloseAll, Unasked, Process
    <3> QED BY <1>1, <1>2, <3>1, <3>2, StreamClosed
            DEF Life!Next, Life!End, Process, Stream, Told
  <2> QED BY <1>4, <2>1, <2>2 DEF Loop
<1>5. CASE Send
  <2>1. Unasked /\ sock \in Socks
    BY <1>5, Typing DEF Send, LifeInv, FeedInv, Sockets, Requests
  <2>2. Process' = "running"
    BY <1>1, <1>2, <1>5 DEF Send, Process
  <2>3. CASE asked' = asked
    BY <1>1, <1>2, <2>2, <2>3, StreamSame
  <2>4. CASE asked' = [asked EXCEPT ![sock] = "pending"]
    <3>1. Stream = "closed"
      BY <2>1, StreamIsRequest
    <3>2. asked'[sock] = "pending"
      BY <2>1, <2>4, Typing DEF LifeInv
    <3>3. Stream' = "asked"
      BY <2>1, <3>2 DEF Stream, AskedOf
    <3> QED BY <1>1, <1>2, <2>2, <3>1, <3>3 DEF Life!Next, Life!Ask, Process, Stream, Told
  <2> QED BY <1>5, <2>3, <2>4 DEF Send
<1>6. CASE Terminated
  <2>1. Stream' = "closed" /\ Process' = "running"
    BY <1>1, <1>2, <1>6, StopLife, StreamClosed DEF Terminated, Process
  <2>2. ~ AskedOf("refused")
    <3>1. ~ FailureIn(sock)
      BY <1>6 DEF Terminated, FailureIn
    <3> QED BY <1>6, <3>1 DEF Terminated, AskedOf, LifeInv, Requests, Refusals
  <2>3. Stream \in {"asked", "admitted", "closed"}
    BY <2>2 DEF Stream
  <2> QED BY <1>1, <1>2, <2>1, <2>3 DEF Life!Next, Life!Lose, Process, Stream, Told
<1> QED BY <1>3, <1>4, <1>5, <1>6
        DEF ChildStep, SetUp, Connect, EnterRecv, Wake, Read, ReadError

\* The child with its descriptors, signals and losses implements the process
\* the Lodi client counts on (stream_feed.c, stopStreamFeed, handleClientFeed),
\* for any number of descriptors, crashes and messages.
THEOREM FeedImplementsLife == Spec => LifeSpec
<1>1. Init => Life!Init
  BY SocksAreNumbers DEF Init, Life!Init, AskedOf
<1>2. LifeInv /\ [Next]_vars => [Life!Next]_<<Process, Stream, Told>>
  <2> SUFFICES ASSUME LifeInv, [Next]_vars
               PROVE  Life!Next \/ UNCHANGED <<Process, Stream, Told>>
    OBVIOUS
  <2>1. CASE UNCHANGED vars
    BY <2>1, StreamSame DEF vars, client, Process, Told
  <2> QED BY <2>1, ParentRefines, WorldRefines, ChildRefines DEF Next
<1>3. LifeInv /\ [Next]_vars =>
        [Life!Next]_<<IF parent = "done" THEN "reaped"
                      ELSE IF child \in {"none", "ended"} THEN child ELSE "running",
                      IF AskedOf("pending") THEN "asked"
                      ELSE IF AskedOf("admitted") THEN "admitted"
                      ELSE IF AskedOf("refused") THEN "refused" ELSE "closed",
                      parent \in {"waiting", "done", "dead"}>>
  BY <1>2 DEF Process, Stream, Told
<1> QED BY <1>1, <1>3, LifeInvariant, PTL DEF Spec, LifeSpec, Life!Spec
=============================================================================
