--------------------------- MODULE ClientSession ---------------------------
(***************************************************************************)
(* One run of the Lodi client (lodi_client.c): the menu, a login, the      *)
(* session menu with its feed process, a logout.  Every operation is one   *)
(* call of lodiClientSend: a connection of its own, one request, an answer *)
(* or the end of a time limit, after which the request may still be on its *)
(* way.  Around the client: its feed process, as FeedLife promises it, and *)
(* the server, of which only the session of this user at this host counts, *)
(* and which forgets it in a crash.                                        *)
(***************************************************************************)
EXTENDS Naturals

CONSTANTS MaxLate,      \* bound: requests given up and still under way
          MaxCrashes,   \* bound: how often the server goes down
          Verdicts      \* what authentication and confirmation may say

ASSUME SessionAssumption ==
  MaxLate \in Nat /\ MaxCrashes \in Nat /\ Verdicts \subseteq BOOLEAN

\* Where the client is: its two menus, lodiLogin before and after the answer,
\* an operation of the session, stopStreamFeed, lodiLogout; ended by choice,
\* or dead.
Views == {"main", "login", "fork", "session", "work", "stop", "logout", "quit", "dead"}

VARIABLES view,
          answer,      \* of the current call: "none", "ack", "failure"
          late,        \* late[r]: requests r given up and not served yet
          serverUp, crashes,
          loggedIn,    \* login_repository: the user is logged in from here
          disturbed,   \* history: an operation ended without an answer, ...
          process, stream, told,
          severed      \* the server that the stream was opened to is gone

feed == <<process, stream, told, severed>>
server == <<serverUp, crashes, loggedIn>>
vars == <<view, answer, late, server, disturbed, feed>>

Feed == INSTANCE FeedLife

StillSevered == severed' = (severed /\ stream' # "closed")

\* Sessions change by these; "work" stands for post, follow and unfollow.
Calls == {"login", "work", "logout"}
Calling == view \in Calls

NothingLate == late["login"] = 0 /\ late["logout"] = 0

Init ==
  /\ view = "main" /\ answer = "none"
  /\ late = [r \in Calls |-> 0]
  /\ serverUp = TRUE /\ crashes = 0 /\ loggedIn = FALSE
  /\ disturbed = FALSE
  /\ Feed!Init /\ severed = FALSE

----------------------------------------------------------------------------
(* The server. *)

\* What a request does to the session, and its answer.
Handled(r, ack) ==
  \E valid \in Verdicts :
    \/ /\ r = "login" /\ ack = (IF valid THEN "ack" ELSE "failure")
       /\ loggedIn' = (loggedIn \/ valid)
    \/ /\ r = "work" /\ ack = (IF valid /\ loggedIn THEN "ack" ELSE "failure")
       /\ UNCHANGED loggedIn
    \* The second authentication of a logout decides its answer only.
    \/ /\ r = "logout" /\ valid /\ loggedIn
       /\ loggedIn' = FALSE
       /\ \E again \in Verdicts : ack = (IF again THEN "ack" ELSE "failure")
    \/ /\ r = "logout" /\ (~ valid \/ ~ loggedIn)
       /\ ack = "failure" /\ UNCHANGED loggedIn

\* An acknowledged login or logout settles what is so, unless an older
\* request is still on its way.
Serve ==
  /\ serverUp /\ Calling /\ answer = "none"
  /\ \E ack \in {"ack", "failure"} : Handled(view, ack) /\ answer' = ack
  /\ disturbed' = (disturbed /\ ~ (view # "work" /\ answer' = "ack" /\ NothingLate))
  /\ UNCHANGED <<view, late, serverUp, crashes, feed>>

ServeLate(r) ==
  /\ serverUp /\ late[r] > 0
  /\ \E ack \in {"ack", "failure"} : Handled(r, ack)
  /\ late' = [late EXCEPT ![r] = @ - 1]
  /\ UNCHANGED <<view, answer, serverUp, crashes, disturbed, feed>>

\* handleFeed or handleFailure.
ServeFeed ==
  /\ serverUp /\ ~ severed
  /\ \/ loggedIn /\ TRUE \in Verdicts /\ Feed!Admit
     \/ (~ loggedIn \/ FALSE \in Verdicts) /\ Feed!Refuse
  /\ UNCHANGED <<view, answer, late, server, disturbed, severed>>

\* Everything the server knew is gone, also the connections.
Crash ==
  /\ serverUp /\ crashes < MaxCrashes
  /\ serverUp' = FALSE /\ crashes' = crashes + 1
  /\ loggedIn' = FALSE /\ late' = [r \in Calls |-> 0]
  /\ disturbed' = (disturbed \/ loggedIn)
  /\ severed' = (stream \in {"asked", "admitted"})
  /\ UNCHANGED <<view, answer, process, stream, told>>

Restart ==
  /\ ~ serverUp /\ serverUp' = TRUE
  /\ UNCHANGED <<view, answer, late, crashes, loggedIn, disturbed, feed>>

----------------------------------------------------------------------------
(* The feed process. *)

FeedStep ==
  /\ \/ serverUp /\ Feed!Ask
     \/ severed /\ Feed!Lose
     \/ Feed!End
  /\ StillSevered
  /\ UNCHANGED <<view, answer, late, server, disturbed>>

----------------------------------------------------------------------------
(* The client. *)

\* The user chooses; the operation begins.
Choose ==
  /\ \/ view = "main" /\ view' \in {"login", "quit"}
     \/ view = "session" /\ view' = "work"
  /\ UNCHANGED <<answer, late, server, disturbed, feed>>

\* Mutant: the message type of the answer is not looked at.
AfterReadingNothing(got) ==
  CASE view = "login" -> IF got = "none" THEN "main" ELSE "fork"
    [] view = "work" -> "session"
    [] view = "logout" -> "main"

\* Where the client goes with an answer, or with none.
After(got) ==
  CASE view = "login" -> IF got = "ack" THEN "fork" ELSE "main"
    [] view = "work" -> "session"
    [] view = "logout" -> "main"

\* The answer arrives.  A logout that was refused leaves open what it did.
Return ==
  /\ Calling /\ answer # "none"
  /\ view' = After(answer) /\ answer' = "none"
  /\ disturbed' = (disturbed \/ (view = "logout" /\ answer = "failure"))
  /\ UNCHANGED <<late, server, feed>>

\* lodiClientSend returns ERROR: the server cannot be reached, has gone down
\* meanwhile, or has not answered within the time limit.  The request may
\* still be on its way.
GiveUp ==
  /\ Calling
  /\ \/ UNCHANGED late
     \/ /\ serverUp /\ answer = "none" /\ late[view] < MaxLate
        /\ late' = [late EXCEPT ![view] = @ + 1]
  /\ view' = After("none") /\ answer' = "none"
  /\ disturbed' = (disturbed \/ view # "work")
  /\ UNCHANGED <<server, feed>>

\* startStreamFeed, and what lodiLogin does when fork fails: it returns, and
\* the server keeps the session.
Fork ==
  /\ view = "fork"
  /\ \/ Feed!Start /\ view' = "session" /\ UNCHANGED <<disturbed, severed>>
     \/ view' = "main" /\ disturbed' = TRUE /\ UNCHANGED feed
  /\ UNCHANGED <<answer, late, server>>

\* Mutant: the logout is sent before the feed is stopped.
LogoutFirst ==
  /\ view = "session" /\ view' = "logout"
  /\ UNCHANGED <<answer, late, server, disturbed, feed>>

\* LODI_LOGOUT: stopStreamFeed signals the feed process.
StopFeed ==
  /\ view = "session" /\ view' = "stop"
  /\ Feed!Tell /\ StillSevered
  /\ UNCHANGED <<answer, late, server, disturbed>>

\* stopStreamFeed has waited; lodiLogout sends its request.
Logout ==
  /\ view = "stop" /\ view' = "logout"
  /\ Feed!Reap /\ UNCHANGED severed
  /\ UNCHANGED <<answer, late, server, disturbed>>

\* The client dies in its session; the kernel signals the feed process.
Die ==
  /\ view \in {"session", "work", "stop"} /\ view' = "dead"
  /\ answer' = "none"
  /\ Feed!Tell /\ StillSevered
  /\ UNCHANGED <<late, server, disturbed>>

ClientStep == Return \/ Fork \/ Logout \/ GiveUp

Next ==
  \/ Serve \/ ServeFeed \/ Crash \/ Restart \/ FeedStep
  \/ Choose \/ ClientStep \/ StopFeed \/ Die
  \/ \E r \in Calls : ServeLate(r)

Spec == Init /\ [][Next]_vars

\* What the feed process is sure to do: it notices a loss, ends after a refusal
\* and, without a stream, ends or asks for one.  That it was told does not end
\* it: the signal may come just before recv, on a stream that stays silent.
FeedProgress ==
  FeedStep /\ (severed \/ stream = "refused" \/ (stream = "closed" /\ serverUp))

\* The three processes run.
FairSpec ==
  /\ Spec
  /\ WF_vars(ClientStep) /\ WF_vars(FeedProgress)
  /\ WF_vars(Serve) /\ WF_vars(ServeFeed)

----------------------------------------------------------------------------
(* Properties. *)

TypeOK ==
  /\ view \in Views /\ answer \in {"none", "ack", "failure"}
  /\ late \in [Calls -> Nat]
  /\ serverUp \in BOOLEAN /\ crashes \in Nat
  /\ loggedIn \in BOOLEAN /\ disturbed \in BOOLEAN
  /\ process \in {"none", "running", "ended", "reaped"}
  /\ stream \in {"closed", "asked", "admitted", "refused"}
  /\ told \in BOOLEAN /\ severed \in BOOLEAN

InSession == view \in {"fork", "session", "work", "stop"}

\* What the client shows is what the server thinks, whatever happened in
\* earlier sessions: after a disturbance (an answer that was given up, a
\* crash of the server, a fork that failed, an unclear answer to a logout)
\* from the next acknowledged login or logout on, once no older request is
\* under way any more.
ViewRight ==
  ~ disturbed /\ NothingLate =>
    /\ InSession => loggedIn
    /\ view \in {"main", "quit"} => ~ loggedIn

\* A feed process runs in a session and nowhere else, also after sessions
\* that were cut short, so that there are never two; and its stream is
\* closed before the logout is sent, so that the server never pushes to a
\* user it has logged out.
FeedWithinSession ==
  /\ process = "running" => view \in {"session", "work", "stop", "dead"}
  /\ view = "logout" => stream = "closed"
  /\ view \in {"main", "login", "fork", "quit"} => process \in {"none", "reaped"}

\* With the server up for good, every session comes to stream its feed, or
\* the feed process has ended because it was refused, even though the server
\* forgot the session in a crash; and a client that stops its feed gets back to
\* its menu unless the process has a stream that was admitted, whose silence
\* may hold it, and the client, for ever.
FeedSettles ==
  <>[]serverUp =>
    /\ view = "session" ~>
         \/ stream = "admitted" /\ ~ severed
         \/ process = "ended" \/ ~ InSession
    /\ view = "stop" ~>
         \/ view \in {"main", "dead"}
         \/ stream = "admitted" /\ ~ severed
=============================================================================
