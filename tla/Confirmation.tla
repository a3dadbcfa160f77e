---------------------------- MODULE Confirmation ----------------------------
(***************************************************************************)
(* The push confirmation of a login: the TFA server (tfa_server.c,         *)
(* registration_repository.c), the TFA clients or devices (tfa_client.c),  *)
(* which register once and then confirm pushes, and the Lodi server's      *)
(* sendPushRequest, one at a time.                                         *)
(*                                                                         *)
(* They talk in datagrams, which may be lost, late and out of order.  The  *)
(* TFA server has one socket for everything: while it waits for the answer *)
(* of one device, the next datagram of anybody is that answer.  Nobody     *)
(* checks whom a datagram is from.                                         *)
(***************************************************************************)
EXTENDS Integers, Sequences, SequencesExt

CONSTANTS Users, Devices,
          Owner,       \* the user of each device
          Lodi,        \* the address of the Lodi server's client socket
          NoUser,
          Verdicts,    \* what the check of a registration's signature may say
          Mortal,      \* devices that may be switched off
          MaxLogins,   \* bound: logins the Lodi server asks about
          MaxLost      \* bound: datagrams lost

ASSUME OwnerAssumption == Owner \in [Devices -> Users]
ASSUME AddressAssumption == Lodi \notin Devices /\ NoUser \notin Users
ASSUME VerdictAssumption == Verdicts \subseteq BOOLEAN

Peers == Devices \cup {Lodi}

ToServer == [type : {"registerTFA", "ackRegTFA", "ackPushTFA", "requestAuth"},
             user : Users, from : Peers]
FromServer == [type : {"confirmTFA", "pushTFA", "tfaFailure", "responseAuth"},
               user : Users, to : Peers]
Message == ToServer \cup FromServer

\* The datagrams of a login.
LoginMail ==
  {m \in Message : m.type \in {"requestAuth", "pushTFA", "ackPushTFA", "responseAuth"}}

VARIABLES
  net,           \* the datagrams under way or unread
  lost, logins,  \* counters for the bounds
  dev,           \* where each device is
  clientStore,   \* registration_repository: addresses per user, oldest first
  tfa,           \* the TFA server: in "main", or in a nested receive
  tfaUser,       \* request->userID while it waits
  tfaPeer,       \* clientHandle while it waits: whom it answers in the end
  asking,        \* the user sendPushRequest waits for
  askedAbout,    \* the users it has ever asked about
  answered,      \* the devices that confirmed a push since it asked
  \* What the properties remember.
  ready,         \* the devices that served when it asked
  mailLost,      \* whether a datagram of a login was lost since it asked
  mistaken       \* whether a datagram was ever taken for another one, or
                 \* given up while it was under way

INSTANCE Datagrams

vars == <<net, lost, logins, dev, clientStore, tfa, tfaUser, tfaPeer,
          asking, askedAbout, answered, ready, mailLost, mistaken>>
server == <<clientStore, tfa, tfaUser, tfaPeer>>
lodi == <<asking, askedAbout, answered, logins, ready>>
losses == <<lost, mailLost>>

Init ==
  /\ net = NoMessage
  /\ lost = 0 /\ logins = 0
  /\ dev = [d \in Devices |-> "off"]
  /\ clientStore = [u \in Users |-> <<>>]
  /\ tfa = "main" /\ tfaUser = NoUser /\ tfaPeer = Lodi
  /\ asking = NoUser /\ askedAbout = {} /\ answered = {}
  /\ ready = {} /\ mailLost = FALSE /\ mistaken = FALSE

----------------------------------------------------------------------------
(* Datagrams. *)

Up(type, user, from) == [type |-> type, user |-> user, from |-> from]
Down(type, user, to) == [type |-> type, user |-> user, to |-> to]

Lose ==
  /\ lost < MaxLost /\ lost' = lost + 1
  /\ \E m \in Message : /\ Receive(m)
                         /\ mailLost' = (mailLost \/ m \in LoginMail)
  /\ UNCHANGED <<dev, server, lodi, mistaken>>

Mistaken(wrong) == mistaken' = (mistaken \/ wrong)

\* A closed socket takes no datagrams.
Drop ==
  /\ \E m \in FromServer : /\ m.to \in Devices /\ dev[m.to] = "dead"
                           /\ Receive(m)
  /\ UNCHANGED <<losses, dev, server, lodi, mistaken>>

----------------------------------------------------------------------------
(* The TFA client of a user. *)

\* registerTFAClient: the request.
Register(d) ==
  /\ dev[d] = "off"
  /\ dev' = [dev EXCEPT ![d] = "registering"]
  /\ Send(Up("registerTFA", Owner[d], d))
  /\ UNCHANGED <<losses, server, lodi, mistaken>>

\* Mutant: the device takes the first answer for the last one.
FirstAnswerOnce(d, m) ==
  /\ dev[d] = "registering" /\ m.to = d
  /\ \/ /\ m.type = "tfaFailure" /\ Receive(m)
        /\ dev' = [dev EXCEPT ![d] = "dead"]
     \/ /\ m.type # "tfaFailure"
        /\ Exchange(m, Up("ackRegTFA", Owner[d], d))
        /\ dev' = [dev EXCEPT ![d] = "serving"]
  /\ Mistaken(m.type = "pushTFA")
  /\ UNCHANGED <<losses, server, lodi>>

\* Its first answer: whatever is no failure is acknowledged.
FirstAnswer(d, m) ==
  /\ dev[d] = "registering" /\ m.to = d
  /\ \/ /\ m.type = "tfaFailure" /\ Receive(m)
        /\ dev' = [dev EXCEPT ![d] = "dead"]
     \/ /\ m.type # "tfaFailure"
        /\ Exchange(m, Up("ackRegTFA", Owner[d], d))
        /\ dev' = [dev EXCEPT ![d] = "acking"]
  /\ Mistaken(m.type = "pushTFA")
  /\ UNCHANGED <<losses, server, lodi>>

\* Its second answer: whatever is no failure completes the registration.
SecondAnswer(d, m) ==
  /\ dev[d] = "acking" /\ m.to = d /\ Receive(m)
  /\ dev' = [dev EXCEPT ![d] = IF m.type = "tfaFailure" THEN "dead" ELSE "serving"]
  /\ Mistaken(m.type = "pushTFA")
  /\ UNCHANGED <<losses, server, lodi>>

\* No answer in time: the process exits.
GiveUp(d) ==
  /\ dev[d] \in {"registering", "acking"}
  /\ dev' = [dev EXCEPT ![d] = "dead"]
  /\ UNCHANGED <<net, losses, server, lodi, mistaken>>

\* Mutant: what is no registration answer is discarded, the pushes too.
ConfirmNothing(d, m) ==
  /\ dev[d] = "serving" /\ m.to = d /\ Receive(m)
  /\ Mistaken(m.type # "pushTFA")
  /\ UNCHANGED <<losses, dev, server, lodi>>

\* handleTFAPush: every message is acknowledged, also one that is no push.
Confirm(d, m) ==
  /\ dev[d] = "serving" /\ m.to = d
  /\ Exchange(m, Up("ackPushTFA", m.user, d))
  /\ answered' = IF asking = m.user /\ m.type = "pushTFA"
                 THEN answered \cup {d} ELSE answered
  /\ Mistaken(m.type # "pushTFA")
  /\ UNCHANGED <<losses, logins, dev, server, asking, askedAbout, ready>>

SwitchOff(d) ==
  /\ d \in Mortal /\ dev[d] = "serving"
  /\ dev' = [dev EXCEPT ![d] = "dead"]
  /\ UNCHANGED <<net, losses, server, lodi, mistaken>>

----------------------------------------------------------------------------
(* The TFA server, and its registration repository. *)

registerClient(user, address) ==
  clientStore' = [clientStore EXCEPT ![user] = Append(@, address)]

\* getClient returns the stored registration itself: its caller may overwrite
\* it.
getClient(user) == Head(clientStore[user])
overwriteClient(user, address) ==
  clientStore' = [clientStore EXCEPT ![user][1] = address]

\* A registration in main: the signature is checked, and the device is asked
\* to acknowledge.
handleRegisterTfa(m) ==
  /\ tfa = "main" /\ m.type = "registerTFA"
  /\ \/ /\ FALSE \in Verdicts
        /\ Exchange(m, Down("tfaFailure", m.user, m.from))
        /\ UNCHANGED <<tfa, tfaUser, tfaPeer>>
     \/ /\ TRUE \in Verdicts
        /\ Exchange(m, Down("confirmTFA", m.user, m.from))
        /\ tfa' = "registration" /\ tfaUser' = m.user /\ tfaPeer' = m.from
  /\ UNCHANGED <<losses, dev, clientStore, lodi, mistaken>>

\* Mutant: the user stored is the one that was verified.
RegistrationAnswerVerified(m) ==
  /\ tfa = "registration" /\ tfa' = "main"
  /\ \/ /\ m.type = "ackRegTFA"
        /\ registerClient(tfaUser, m.from)
        /\ Exchange(m, Down("confirmTFA", tfaUser, m.from))
     \/ /\ m.type # "ackRegTFA"
        /\ Exchange(m, Down("tfaFailure", tfaUser, m.from))
        /\ UNCHANGED clientStore
  /\ tfaUser' = NoUser /\ tfaPeer' = Lodi
  /\ Mistaken(m.type = "requestAuth")
  /\ UNCHANGED <<losses, dev, lodi>>

\* The nested receive of handleRegisterTfa puts what comes, from whomever,
\* into request and clientHandle; that sender is stored under the user it
\* names, or told of the failure.
RegistrationAnswer(m) ==
  /\ tfa = "registration" /\ tfa' = "main"
  /\ \/ /\ m.type = "ackRegTFA"
        /\ registerClient(m.user, m.from)
        /\ Exchange(m, Down("confirmTFA", tfaUser, m.from))
     \/ /\ m.type # "ackRegTFA"
        /\ Exchange(m, Down("tfaFailure", tfaUser, m.from))
        /\ UNCHANGED clientStore
  /\ tfaUser' = NoUser /\ tfaPeer' = Lodi
  /\ Mistaken(m.type = "requestAuth")
  /\ UNCHANGED <<losses, dev, lodi>>

\* It times out, which the comparison with ERROR does not see; but request
\* still holds the registration and is no acknowledgement.
RegistrationTimeout ==
  /\ tfa = "registration" /\ tfa' = "main"
  /\ Send(Down("tfaFailure", tfaUser, tfaPeer))
  /\ tfaUser' = NoUser /\ tfaPeer' = Lodi
  /\ UNCHANGED <<losses, dev, clientStore, lodi, mistaken>>

\* Mutant: a user without a registration needs no confirmation.
handlePushTfaUnregistered(m) ==
  /\ tfa = "main" /\ m.type = "requestAuth"
  /\ \/ /\ clientStore[m.user] = <<>>
        /\ Exchange(m, Down("responseAuth", m.user, m.from))
        /\ UNCHANGED <<tfa, tfaUser, tfaPeer>>
     \/ /\ clientStore[m.user] # <<>>
        /\ Exchange(m, Down("pushTFA", m.user, getClient(m.user)))
        /\ tfa' = "push" /\ tfaUser' = m.user /\ tfaPeer' = m.from
  /\ UNCHANGED <<losses, dev, clientStore, lodi, mistaken>>

\* A push request in main, for the oldest registration of the user; if there
\* is none nobody is answered.
handlePushTfa(m) ==
  /\ tfa = "main" /\ m.type = "requestAuth"
  /\ \/ /\ clientStore[m.user] = <<>> /\ Receive(m)
        /\ UNCHANGED <<tfa, tfaUser, tfaPeer>>
     \/ /\ clientStore[m.user] # <<>>
        /\ Exchange(m, Down("pushTFA", m.user, getClient(m.user)))
        /\ tfa' = "push" /\ tfaUser' = m.user /\ tfaPeer' = m.from
  /\ UNCHANGED <<losses, dev, clientStore, lodi, mistaken>>

\* Mutant: the device is told of its own confirmation, not the Lodi server.
PushAnswerBack(m) ==
  /\ tfa = "push" /\ tfa' = "main"
  /\ overwriteClient(tfaUser, m.from)
  /\ \/ /\ m.type = "ackPushTFA"
        /\ Exchange(m, Down("responseAuth", tfaUser, m.from))
     \/ m.type # "ackPushTFA" /\ Receive(m)
  /\ tfaUser' = NoUser /\ tfaPeer' = Lodi
  /\ Mistaken(m.type # "ackPushTFA" \/ m.user # tfaUser \/ m.from # getClient(tfaUser))
  /\ UNCHANGED <<losses, dev, lodi>>

\* The nested receive of handlePushTfa has no time limit and puts the sender
\* of what comes into the stored registration itself.
PushAnswer(m) ==
  /\ tfa = "push" /\ tfa' = "main"
  /\ overwriteClient(tfaUser, m.from)
  /\ \/ /\ m.type = "ackPushTFA"
        /\ Exchange(m, Down("responseAuth", tfaUser, tfaPeer))
     \/ m.type # "ackPushTFA" /\ Receive(m)
  /\ tfaUser' = NoUser /\ tfaPeer' = Lodi
  /\ Mistaken(m.type # "ackPushTFA" \/ m.user # tfaUser \/ m.from # getClient(tfaUser))
  /\ UNCHANGED <<losses, dev, lodi>>

\* Acknowledgements that main did not wait for.
Ignore(m) ==
  /\ tfa = "main" /\ m.type \in {"ackRegTFA", "ackPushTFA"} /\ Receive(m)
  /\ UNCHANGED <<losses, dev, server, lodi, mistaken>>

----------------------------------------------------------------------------
(* sendPushRequest of the Lodi server. *)

sendPushRequest(u) ==
  /\ asking = NoUser /\ logins < MaxLogins
  /\ asking' = u /\ answered' = {} /\ logins' = logins + 1
  /\ askedAbout' = askedAbout \cup {u}
  /\ ready' = {d \in Devices : dev[d] = "serving"} /\ mailLost' = FALSE
  /\ Send(Up("requestAuth", u, Lodi))
  /\ UNCHANGED <<lost, dev, server, mistaken>>

\* Any datagram is the confirmation: neither its type nor its user is looked
\* at.
Confirmed(m) ==
  /\ asking # NoUser /\ m.to = Lodi /\ Receive(m)
  /\ asking' = NoUser
  /\ UNCHANGED <<losses, logins, dev, server, askedAbout, answered, ready, mistaken>>

\* No answer in time.
Refused ==
  /\ asking # NoUser
  /\ asking' = NoUser
  /\ Mistaken(~ Silent(LoginMail))
  /\ UNCHANGED <<net, losses, logins, dev, server, askedAbout, answered, ready>>

----------------------------------------------------------------------------
DeviceStep(d) ==
  \E m \in FromServer : FirstAnswer(d, m) \/ SecondAnswer(d, m) \/ Confirm(d, m)

TfaStep ==
  \E m \in ToServer : \/ handleRegisterTfa(m) \/ RegistrationAnswer(m)
                      \/ handlePushTfa(m) \/ PushAnswer(m) \/ Ignore(m)

LodiStep == \E m \in FromServer : Confirmed(m)

Next ==
  \/ TfaStep \/ RegistrationTimeout
  \/ \E d \in Devices : \/ Register(d) \/ DeviceStep(d) \/ GiveUp(d)
                        \/ SwitchOff(d)
  \/ \E u \in Users : sendPushRequest(u)
  \/ LodiStep \/ Refused
  \/ Lose \/ Drop

Spec == Init /\ [][Next]_vars

\* The TFA server and the devices take the datagrams that are there.
FairSpec ==
  Spec /\ WF_vars(TfaStep) /\ \A d \in Devices : WF_vars(DeviceStep(d))

----------------------------------------------------------------------------
(* Properties. *)

TypeOK ==
  /\ net \in Traffic
  /\ lost \in Nat /\ logins \in Nat
  /\ dev \in [Devices -> {"off", "registering", "acking", "serving", "dead"}]
  /\ clientStore \in [Users -> Seq(Peers)]
  /\ tfa \in {"main", "registration", "push"}
  /\ tfaUser \in Users \cup {NoUser} /\ tfaPeer \in Peers
  /\ (tfa = "main") <=> (tfaUser = NoUser)
  /\ tfa = "push" => clientStore[tfaUser] # <<>>
  /\ asking \in Users \cup {NoUser}
  /\ askedAbout \in SUBSET Users /\ answered \in SUBSET Devices
  /\ ready \in SUBSET Devices /\ mailLost \in BOOLEAN /\ mistaken \in BOOLEAN

\* Every address stored for a user is that of a device of that user, however
\* registrations of several users overlap, time out and answer late
\* (handleRegisterTfa), with one exception: a push may put another address in
\* the place of the user's oldest one (handlePushTfa), and only there.
HandlesOwned ==
  \A u \in Users : \A k \in DOMAIN clientStore[u] :
    \/ clientStore[u][k] \in Devices /\ Owner[clientStore[u][k]] = u
    \/ k = 1 /\ u \in askedAbout

\* As long as no push was asked for, a device that believes its registration
\* complete is registered, whatever answers were lost, late or not meant for
\* it (registerTFAClient).
ServingIsStored ==
  askedAbout = {} =>
    \A d \in Devices : dev[d] = "serving" => Contains(clientStore[Owner[d]], d)

\* The TFA server waits for a device that is gone.
PushedGone == tfa = "push" /\ dev[getClient(tfaUser)] = "dead"

\* Until a datagram is taken for another one (a push by a device that still
\* registers, what is no push by one that serves, a login request for the
\* acknowledgement of a registration, anything for the answer to a push) or a
\* login is refused with its datagrams still under way, a login is confirmed
\* only when a device of its user has confirmed a push for it since it was
\* asked about, however logins and registrations overlap, datagrams are lost,
\* time limits strike and devices go away (sendPushRequest, handlePushTfa).
ConfirmedByDevice ==
  [][\A u \in Users :
       /\ asking = u /\ asking' = NoUser /\ ~ mistaken
       /\ \E m \in FromServer : Confirmed(m)
       => \E d \in answered : Owner[d] = u]_vars

\* Until then, when a login of a user with a device that served is refused,
\* its datagrams are late or one was lost, or the push went to the user's
\* oldest device and that one is gone (sendPushRequest, handlePushTfa).
RegisteredAreConfirmed ==
  [][Refused /\ ~ mistaken /\ (\E d \in ready : Owner[d] = asking)
       => \/ ~ Silent(LoginMail) \/ mailLost
          \/ PushedGone /\ tfaUser = asking]_vars

\* The TFA server comes back from its wait for the answer to a push
\* (handlePushTfa), which has no time limit, or a datagram of the login was
\* lost or taken for another one, or the device asked is gone.
PushReturns ==
  tfa = "push" ~> \/ tfa = "main" \/ mailLost \/ mistaken
                   \/ PushedGone
=============================================================================
