------------------------ MODULE ClientSessionProofs ------------------------
(***************************************************************************)
(* Proofs about ClientSession, for any number of late requests and crashes *)
(* and any verdicts.  Neither property is inductive: what the client shows *)
(* depends on calls that are under way, and the place of the feed process  *)
(* on its stream.                                                          *)
(***************************************************************************)
EXTENDS ClientSession, TLAPS

USE DEF Calls, Calling, NothingLate, InSession, StillSevered, server, feed

\* An older login or logout is only ever under way after a disturbance, and
\* only a call has an answer.
LateIsDisturbed == ~ NothingLate => disturbed
AnswersAreOfCalls == ~ Calling => answer = "none"

\* ViewRight at every point of a call: before the answer the server is as the
\* menu said, after it as the answer says.
CallRight ==
  ~ disturbed =>
    /\ InSession => loggedIn
    /\ view \in {"main", "quit"} => ~ loggedIn
    /\ view = "login" => (loggedIn <=> answer = "ack")
    /\ view = "logout" /\ answer = "none" => loggedIn
    /\ view = "logout" /\ answer = "ack" => ~ loggedIn

ViewInv == TypeOK /\ LateIsDisturbed /\ AnswersAreOfCalls /\ CallRight

\* FeedWithinSession with what the feed process takes with it.
FeedInv ==
  /\ process = "running" => view \in {"session", "work", "stop", "dead"}
  /\ view \in {"main", "login", "fork", "quit", "logout"} => process \in {"none", "reaped"}
  /\ process # "running" => stream = "closed"

----------------------------------------------------------------------------
(* Types. *)

LEMMA FeedTyped ==
  ASSUME TypeOK, Feed!Next
  PROVE  /\ process' \in {"none", "running", "ended", "reaped"}
         /\ stream' \in {"closed", "asked", "admitted", "refused"}
         /\ told' \in BOOLEAN
BY DEF TypeOK, Feed!Next, Feed!Start, Feed!Ask, Feed!Admit, Feed!Refuse,
       Feed!Lose, Feed!Tell, Feed!End, Feed!Reap

LEMMA ClientTyped ==
  ASSUME TypeOK, Choose \/ Return \/ GiveUp \/ Fork \/ StopFeed \/ Logout \/ Die
  PROVE  TypeOK'
<1>1. CASE Choose
  BY <1>1 DEF Choose, TypeOK, Views
<1>2. CASE Return
  BY <1>2 DEF Return, After, TypeOK, Views
<1>3. CASE GiveUp
  <2>1. late' \in [Calls -> Nat]
    BY <1>3 DEF GiveUp, TypeOK
  <2>2. view' \in Views
    BY <1>3 DEF GiveUp, After, Views
  <2> QED BY <1>3, <2>1, <2>2 DEF GiveUp, TypeOK
<1>4. CASE Fork
  BY <1>4 DEF Fork, Feed!Start, TypeOK, Views
<1>5. CASE StopFeed
  BY <1>5 DEF StopFeed, Feed!Tell, TypeOK, Views
<1>6. CASE Logout
  BY <1>6 DEF Logout, Feed!Reap, TypeOK, Views
<1>7. CASE Die
  BY <1>7 DEF Die, Feed!Tell, TypeOK, Views
<1> QED BY <1>1, <1>2, <1>3, <1>4, <1>5, <1>6, <1>7

LEMMA ServerTyped ==
  ASSUME TypeOK,
         Serve \/ ServeFeed \/ Crash \/ Restart \/ FeedStep \/ \E r \in Calls : ServeLate(r)
  PROVE  TypeOK'
<1>1. CASE Serve
  <2>1. PICK ack \in {"ack", "failure"} : Handled(view, ack) /\ answer' = ack
    BY <1>1 DEF Serve
  <2>2. loggedIn' \in BOOLEAN
    BY <2>1, SessionAssumption DEF Handled, TypeOK
  <2>3. /\ UNCHANGED <<view, late, serverUp, crashes, feed>>
        /\ disturbed' \in BOOLEAN
    BY <1>1 DEF Serve, TypeOK
  <2> QED BY <2>1, <2>2, <2>3 DEF feed, TypeOK
<1>2. CASE ServeFeed
  BY <1>2 DEF ServeFeed, Feed!Admit, Feed!Refuse, TypeOK
<1>3. CASE Crash
  <2>1. disturbed' \in BOOLEAN
    BY <1>3, Zenon DEF Crash
  <2>2. severed' \in BOOLEAN
    <3>1. severed' = (stream \in {"asked", "admitted"})
      BY <1>3, Zenon DEF Crash
    <3>2. (stream \in {"asked", "admitted"}) \in BOOLEAN
      OBVIOUS
    <3> QED BY <3>1, <3>2, Zenon
  <2>3. late' \in [Calls -> Nat]
    BY <1>3 DEF Crash
  <2>4. /\ UNCHANGED <<view, answer, process, stream, told>>
        /\ serverUp' = FALSE /\ crashes' = crashes + 1 /\ loggedIn' = FALSE
    BY <1>3, Zenon DEF Crash
  <2>5. crashes' \in Nat
    BY <2>4 DEF TypeOK
  <2>6. /\ view' \in Views /\ answer' \in {"none", "ack", "failure"}
        /\ serverUp' \in BOOLEAN /\ loggedIn' \in BOOLEAN
        /\ process' \in {"none", "running", "ended", "reaped"}
        /\ stream' \in {"closed", "asked", "admitted", "refused"}
        /\ told' \in BOOLEAN
    BY <2>4, Zenon DEF TypeOK
  <2> QED BY <2>1, <2>2, <2>3, <2>5, <2>6, Zenon DEF TypeOK
<1>4. CASE Restart
  BY <1>4 DEF Restart, TypeOK
<1>5. CASE FeedStep
  <2>1. Feed!Ask \/ Feed!Lose \/ Feed!End
    BY <1>5 DEF FeedStep
  <2> QED BY <1>5, <2>1 DEF FeedStep, Feed!Ask, Feed!Lose, Feed!End, TypeOK
<1>6. ASSUME NEW r \in Calls, ServeLate(r) PROVE TypeOK'
  <2>1. late' \in [Calls -> Nat]
    BY <1>6 DEF ServeLate, TypeOK
  <2>2. loggedIn' \in BOOLEAN
    <3>1. PICK ack \in {"ack", "failure"} : Handled(r, ack)
      BY <1>6 DEF ServeLate
    <3> QED BY <3>1, SessionAssumption DEF Handled, TypeOK
  <2>3. UNCHANGED <<view, answer, serverUp, crashes, disturbed, feed>>
    BY <1>6 DEF ServeLate
  <2> QED BY <2>1, <2>2, <2>3 DEF feed, TypeOK
<1> QED BY <1>1, <1>2, <1>3, <1>4, <1>5, <1>6

LEMMA SessionInit == Init => TypeOK /\ ViewInv /\ FeedInv
<1> SUFFICES ASSUME Init PROVE TypeOK /\ ViewInv /\ FeedInv
  OBVIOUS
<1>1. TypeOK
  <2>1. late \in [Calls -> Nat]
    BY DEF Init
  <2> QED BY <2>1 DEF Init, Feed!Init, TypeOK, Views
<1> QED BY <1>1 DEF Init, Feed!Init, ViewInv, LateIsDisturbed, AnswersAreOfCalls,
                    CallRight, FeedInv

\* Every action of the module belongs to the client or to what is around it.
LEMMA StepTyped == TypeOK /\ [Next]_vars => TypeOK'
<1> SUFFICES ASSUME TypeOK, [Next]_vars PROVE TypeOK'
  OBVIOUS
<1>1. CASE UNCHANGED vars
  BY <1>1 DEF vars, TypeOK
<1> QED BY <1>1, ClientTyped, ServerTyped DEF Next, ClientStep

----------------------------------------------------------------------------
(* The view of the client. *)

LEMMA ClientView ==
  ASSUME ViewInv, Choose \/ Return \/ GiveUp \/ Fork \/ StopFeed \/ Logout \/ Die
  PROVE  ViewInv'
<1>1. TypeOK'
  BY ClientTyped DEF ViewInv
<1>2. CASE Choose
  BY <1>1, <1>2 DEF Choose, ViewInv, LateIsDisturbed, AnswersAreOfCalls, CallRight
<1>3. CASE Return
  BY <1>1, <1>3 DEF Return, After, ViewInv, TypeOK, LateIsDisturbed, AnswersAreOfCalls, CallRight
<1>4. CASE GiveUp
  <2>1. CASE view = "work"
    <3>1. late'["login"] = late["login"] /\ late'["logout"] = late["logout"]
      BY <1>4, <2>1 DEF GiveUp, ViewInv, TypeOK
    <3> QED BY <1>1, <1>4, <2>1, <3>1
            DEF GiveUp, After, ViewInv, LateIsDisturbed, AnswersAreOfCalls, CallRight
  <2>2. CASE view # "work"
    BY <1>1, <1>4, <2>2
    DEF GiveUp, After, ViewInv, LateIsDisturbed, AnswersAreOfCalls, CallRight
  <2> QED BY <2>1, <2>2
<1>5. CASE Fork
  BY <1>1, <1>5 DEF Fork, ViewInv, LateIsDisturbed, AnswersAreOfCalls, CallRight
<1>6. CASE StopFeed
  BY <1>1, <1>6 DEF StopFeed, ViewInv, LateIsDisturbed, AnswersAreOfCalls, CallRight
<1>7. CASE Logout
  BY <1>1, <1>7 DEF Logout, ViewInv, LateIsDisturbed, AnswersAreOfCalls, CallRight
<1>8. CASE Die
  BY <1>1, <1>8 DEF Die, ViewInv, LateIsDisturbed, AnswersAreOfCalls, CallRight
<1> QED BY <1>2, <1>3, <1>4, <1>5, <1>6, <1>7, <1>8

LEMMA ServerView ==
  ASSUME ViewInv,
         Serve \/ ServeFeed \/ Crash \/ Restart \/ FeedStep \/ \E r \in Calls : ServeLate(r)
  PROVE  ViewInv'
<1>1. TypeOK'
  BY ServerTyped DEF ViewInv
<1>2. CASE Serve
  BY <1>1, <1>2, SessionAssumption
  DEF Serve, Handled, ViewInv, TypeOK, LateIsDisturbed, AnswersAreOfCalls, CallRight
<1>3. CASE ServeFeed
  BY <1>1, <1>3 DEF ServeFeed, ViewInv, LateIsDisturbed, AnswersAreOfCalls, CallRight
<1>4. CASE Crash
  BY <1>1, <1>4 DEF Crash, ViewInv, TypeOK, LateIsDisturbed, AnswersAreOfCalls, CallRight
<1>5. CASE Restart
  BY <1>1, <1>5 DEF Restart, ViewInv, LateIsDisturbed, AnswersAreOfCalls, CallRight
<1>6. CASE FeedStep
  BY <1>1, <1>6 DEF FeedStep, ViewInv, LateIsDisturbed, AnswersAreOfCalls, CallRight
<1>7. ASSUME NEW r \in Calls, ServeLate(r) PROVE ViewInv'
  \* A login or logout that is still under way was given up, which disturbs.
  <2>1. CASE r = "work"
    <3>1. /\ UNCHANGED <<view, answer, loggedIn, disturbed>>
          /\ late'["login"] = late["login"] /\ late'["logout"] = late["logout"]
      BY <1>7, <2>1 DEF ServeLate, Handled, ViewInv, TypeOK
    <3> QED BY <1>1, <3>1 DEF ViewInv, LateIsDisturbed, AnswersAreOfCalls, CallRight
  <2>2. CASE r # "work"
    <3>1. disturbed /\ disturbed' /\ UNCHANGED <<view, answer>>
      BY <1>7, <2>2 DEF ServeLate, ViewInv, TypeOK, LateIsDisturbed
    <3> QED BY <1>1, <3>1 DEF ViewInv, LateIsDisturbed, AnswersAreOfCalls, CallRight
  <2> QED BY <2>1, <2>2
<1> QED BY <1>2, <1>3, <1>4, <1>5, <1>6, <1>7

LEMMA StepView == ViewInv /\ [Next]_vars => ViewInv'
<1> SUFFICES ASSUME ViewInv, [Next]_vars PROVE ViewInv'
  OBVIOUS
<1>1. CASE UNCHANGED vars
  BY <1>1 DEF vars, ViewInv, TypeOK, LateIsDisturbed, AnswersAreOfCalls, CallRight
<1> QED BY <1>1, ClientView, ServerView DEF Next, ClientStep

\* The client's menus agree with the server's session after every crash,
\* late request and refusal, from the next acknowledged login or logout on,
\* for any bounds and verdicts (lodi_client.c main, lodiLogin, lodiLogout).
THEOREM TheViewIsRight == Spec => []ViewRight
<1>1. Init => ViewInv
  BY SessionInit
<1>2. ViewInv => ViewRight
  BY DEF ViewInv, CallRight, ViewRight
<1> QED BY <1>1, <1>2, StepView, PTL DEF Spec

----------------------------------------------------------------------------
(* The feed process in its session. *)

LEMMA StepFeed == TypeOK /\ FeedInv /\ [Next]_vars => FeedInv'
<1> SUFFICES ASSUME TypeOK, FeedInv, [Next]_vars PROVE FeedInv'
  OBVIOUS
<1>1. CASE Choose
  BY <1>1 DEF Choose, FeedInv
<1>2. CASE Return
  BY <1>2 DEF Return, After, FeedInv
<1>3. CASE GiveUp
  BY <1>3 DEF GiveUp, After, FeedInv
<1>4. CASE Fork
  BY <1>4 DEF Fork, Feed!Start, FeedInv
<1>5. CASE StopFeed
  BY <1>5 DEF StopFeed, Feed!Tell, FeedInv
<1>6. CASE Logout
  BY <1>6 DEF Logout, Feed!Reap, FeedInv
<1>7. CASE Die
  BY <1>7 DEF Die, Feed!Tell, FeedInv
<1>8. CASE Serve \/ Crash \/ Restart \/ \E r \in Calls : ServeLate(r)
  BY <1>8 DEF Serve, Crash, Restart, ServeLate, FeedInv
<1>9. CASE ServeFeed
  BY <1>9 DEF ServeFeed, Feed!Admit, Feed!Refuse, FeedInv
<1>10. CASE FeedStep
  <2>1. Feed!Ask \/ Feed!Lose \/ Feed!End
    BY <1>10 DEF FeedStep
  <2> QED BY <1>10, <2>1 DEF FeedStep, Feed!Ask, Feed!Lose, Feed!End, FeedInv
<1>11. CASE UNCHANGED vars
  BY <1>11 DEF vars, FeedInv
<1> QED BY <1>1, <1>2, <1>3, <1>4, <1>5, <1>6, <1>7, <1>8, <1>9, <1>10, <1>11
        DEF Next, ClientStep

\* However sessions are cut short, there is one feed process, in a session,
\* and its stream is closed before the logout is sent (lodi_client.c:243).
THEOREM FeedStaysWithinSession == Spec => []FeedWithinSession
<1>1. Init => TypeOK /\ FeedInv
  BY SessionInit
<1>2. TypeOK /\ FeedInv /\ [Next]_vars => (TypeOK /\ FeedInv)'
  BY StepTyped, StepFeed
<1>3. TypeOK /\ FeedInv => FeedWithinSession
  BY DEF FeedInv, FeedWithinSession
<1> QED BY <1>1, <1>2, <1>3, PTL DEF Spec

\* Types, for any bounds.
THEOREM SessionTyped == Spec => []TypeOK
<1> QED BY SessionInit, StepTyped, PTL DEF Spec
=============================================================================
