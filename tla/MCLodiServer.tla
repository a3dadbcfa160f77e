---------------------------- MODULE MCLodiServer ----------------------------
(***************************************************************************)
(* TLC instances of LodiServer.  A workload gives each connection the      *)
(* requests it may carry; the orders in which connections are opened,      *)
(* served and closed are all explored.                                     *)
(***************************************************************************)
EXTENDS LodiServer, TLC

CONSTANTS u1, u2, h1, h2, c1, c2, c3, c4, c5, c6

\* Bound: at most MaxBacklog connections wait for accept at a time.
CONSTANT MaxBacklog
BacklogBound == Len(backlog) <= MaxBacklog

R(t, u, h, i) == [type |-> t, user |-> u, host |-> h, target |-> i]

\* The part of a workload that the connections of an instance carry out.
Carried(w) == [c \in Conns |-> w[c]]

\* One user: two logins, the second perhaps from another host, a logout, a
\* post or a request the server does not know.
Sessions == Carried(
  c1 :> {R("login", u1, h1, u1)} @@
  c2 :> {R("login", u1, h1, u1), R("login", u1, h2, u1)} @@
  c3 :> {R("logout", u1, h1, u1)} @@
  c4 :> {R("post", u1, h1, u1), R("unknown", u1, h1, u1)})

\* An idol that follows itself and streams its own posts: two posts, before,
\* between and after the follow and the feed's registration.
OwnFeed == Carried(
  c1 :> {R("login", u1, h1, u1)} @@ c2 :> {R("follow", u1, h1, u1)} @@
  c3 :> {R("feed", u1, h1, u1)} @@
  c4 :> {R("post", u1, h1, u1)} @@ c5 :> {R("post", u1, h1, u1)})

\* An idol and a follower, each at a host of its own; the follower may stop
\* following, log out or open a second feed between two posts.
IdolAndFan == Carried(
  c1 :> {R("login", u1, h1, u1)} @@ c2 :> {R("login", u2, h2, u2)} @@
  c3 :> {R("follow", u2, h2, u1)} @@ c4 :> {R("feed", u2, h2, u2)} @@
  c5 :> {R("post", u1, h1, u1)} @@
  c6 :> {R("unfollow", u2, h2, u1), R("logout", u2, h2, u2),
         R("feed", u2, h2, u2), R("post", u1, h1, u1)})
=============================================================================
