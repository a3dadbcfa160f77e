------------------------ MODULE ConfirmationProofs ------------------------
(***************************************************************************)
(* Registrations and logins for any users and devices: with datagrams lost *)
(* and late, time limits at any moment and devices that go away.           *)
(***************************************************************************)
EXTENDS Confirmation, SequenceTheorems, TLAPS

USE DEF losses, Mistaken

(* What the operations of Datagrams do to the traffic. *)

\* A send adds nothing but its message.
LEMMA SendTraffic ==
  ASSUME net \in Traffic, NEW m \in Message, Send(m)
  PROVE  /\ net' \in Traffic /\ net'[m] = net[m] + 1
         /\ \A n \in Message : n # m => net'[n] = net[n]
BY DEF Send, Traffic

\* A receipt adds nothing.
LEMMA ReceiveTraffic ==
  ASSUME net \in Traffic, NEW m \in Message, Receive(m)
  PROVE  /\ net' \in Traffic /\ net[m] > 0 /\ net'[m] = net[m] - 1
         /\ \A n \in Message : n # m => net'[n] = net[n]
BY DEF Receive, Traffic

\* An exchange adds nothing but the reply.
LEMMA ExchangeTraffic ==
  ASSUME net \in Traffic, NEW m \in Message, NEW reply \in Message,
         m # reply, Exchange(m, reply)
  PROVE  /\ net' \in Traffic /\ net[m] > 0 /\ net'[m] = net[m] - 1
         /\ net'[reply] = net[reply] + 1
         /\ \A n \in Message : n \notin {m, reply} => net'[n] = net[n]
BY DEF Exchange, Traffic

LEMMA Typed ==
  ASSUME TypeOK
  PROVE  /\ net \in Traffic /\ lost \in Nat /\ logins \in Nat
         /\ clientStore \in [Users -> Seq(Peers)]
         /\ tfaUser \in Users \cup {NoUser} /\ tfaPeer \in Peers
BY DEF TypeOK

\* All addresses are messages' addresses.
LEMMA Envelopes ==
  /\ \A type \in {"registerTFA", "ackRegTFA", "ackPushTFA", "requestAuth"},
        u \in Users, p \in Peers :
       Up(type, u, p) \in ToServer
  /\ \A type \in {"confirmTFA", "pushTFA", "tfaFailure", "responseAuth"},
        u \in Users, p \in Peers :
       Down(type, u, p) \in FromServer
  /\ \A d \in Devices : Owner[d] \in Users
  /\ Devices \subseteq Peers /\ Lodi \in Peers
  /\ ToServer \subseteq Message /\ FromServer \subseteq Message
BY OwnerAssumption DEF Up, Down, ToServer, FromServer, Message, Peers

LEMMA Directions ==
  \A m \in ToServer, n \in FromServer : m # n
BY DEF ToServer, FromServer

\* A user's address list can be changed at its head and extended at its end.
LEMMA Stores ==
  ASSUME TypeOK, NEW u \in Users, NEW p \in Peers
  PROVE  /\ [clientStore EXCEPT ![u] = Append(@, p)] \in [Users -> Seq(Peers)]
         /\ clientStore[u] # <<>> =>
              /\ [clientStore EXCEPT ![u][1] = p] \in [Users -> Seq(Peers)]
              /\ Head(clientStore[u]) \in Peers
<1>1. clientStore[u] \in Seq(Peers)
  BY DEF TypeOK
<1>2. Append(clientStore[u], p) \in Seq(Peers)
  BY <1>1, AppendProperties
<1>3. ASSUME clientStore[u] # <<>>
      PROVE  /\ [clientStore[u] EXCEPT ![1] = p] \in Seq(Peers)
             /\ Head(clientStore[u]) \in Peers
  <2>1. 1 \in 1 .. Len(clientStore[u])
    BY <1>1, <1>3, EmptySeq
  <2>2. [clientStore[u] EXCEPT ![1] = p] \in Seq(Peers)
    BY <1>1, <2>1, ExceptSeq
  <2> QED BY <1>1, <1>3, <2>2, HeadTailProperties
<1> QED BY <1>2, <1>3 DEF TypeOK

\* The steps of a device.
LEMMA DeviceTyped ==
  ASSUME TypeOK, NEW d \in Devices, NEW m \in FromServer,
         \/ Register(d) \/ FirstAnswer(d, m) \/ SecondAnswer(d, m)
         \/ GiveUp(d) \/ Confirm(d, m) \/ SwitchOff(d)
  PROVE  TypeOK'
<1>1. m \in Message /\ m.user \in Users
  BY DEF Message, FromServer
<1>2. CASE Register(d)
  BY <1>2, Typed, Envelopes, SendTraffic DEF Register, TypeOK, server, lodi
<1>3. CASE FirstAnswer(d, m)
  <2>1. net' \in Traffic
    <3>1. CASE m.type = "tfaFailure" /\ Receive(m)
      BY <1>1, <3>1, Typed, ReceiveTraffic
    <3>2. CASE Exchange(m, Up("ackRegTFA", Owner[d], d))
      BY <1>1, <3>2, Typed, Envelopes, Directions, ExchangeTraffic
    <3> QED BY <1>3, <3>1, <3>2 DEF FirstAnswer
  <2> QED BY <1>3, <2>1 DEF FirstAnswer, TypeOK, server, lodi
<1>4. CASE SecondAnswer(d, m)
  BY <1>1, <1>4, Typed, ReceiveTraffic DEF SecondAnswer, TypeOK, server, lodi
<1>5. CASE GiveUp(d)
  BY <1>5 DEF GiveUp, TypeOK, server, lodi
<1>6. CASE Confirm(d, m)
  <2>1. net' \in Traffic
    BY <1>1, <1>6, Typed, Envelopes, Directions, ExchangeTraffic DEF Confirm
  <2> QED BY <1>6, <2>1 DEF Confirm, TypeOK, server
<1>7. CASE SwitchOff(d)
  BY <1>7 DEF SwitchOff, TypeOK, server, lodi
<1> QED BY <1>2, <1>3, <1>4, <1>5, <1>6, <1>7

\* The steps of the TFA server.
LEMMA TfaTyped ==
  ASSUME TypeOK, NEW m \in ToServer,
         \/ handleRegisterTfa(m) \/ RegistrationAnswer(m)
         \/ handlePushTfa(m) \/ PushAnswer(m) \/ Ignore(m)
  PROVE  TypeOK'
<1>1. m \in Message /\ m.user \in Users /\ m.from \in Peers /\ Lodi \in Peers
  BY DEF Message, ToServer, Peers
<1>2. NoUser \notin Users
  BY AddressAssumption
<1>3. CASE handleRegisterTfa(m)
  <2>1. net' \in Traffic
    BY <1>1, <1>3, Typed, Envelopes, Directions, ExchangeTraffic
    DEF handleRegisterTfa
  <2> QED BY <1>1, <1>2, <1>3, <2>1 DEF handleRegisterTfa, TypeOK, lodi
<1>4. CASE RegistrationAnswer(m)
  <2>1. tfaUser \in Users
    BY <1>4 DEF TypeOK, RegistrationAnswer
  <2>2. net' \in Traffic
    BY <1>1, <1>4, <2>1, Typed, Envelopes, Directions, ExchangeTraffic
    DEF RegistrationAnswer, registerClient
  <2>3. clientStore' \in [Users -> Seq(Peers)]
    <3>1. CASE clientStore' = [clientStore EXCEPT ![m.user] = Append(@, m.from)]
      BY <1>1, <3>1, Stores
    <3>2. CASE clientStore' = clientStore
      BY <3>2, Typed
    <3> QED BY <1>4, <3>1, <3>2 DEF RegistrationAnswer, registerClient
  <2> QED BY <1>1, <1>4, <2>2, <2>3 DEF RegistrationAnswer, TypeOK, lodi
<1>5. CASE handlePushTfa(m)
  <2>1. CASE clientStore[m.user] = <<>>
    <3>1. net' \in Traffic
      BY <1>1, <1>5, <2>1, Typed, ReceiveTraffic DEF handlePushTfa
    <3> QED BY <1>5, <2>1, <3>1 DEF handlePushTfa, TypeOK, lodi
  <2>2. CASE clientStore[m.user] # <<>>
    <3>1. Head(clientStore[m.user]) \in Peers
      BY <1>1, <2>2, Stores
    <3>2. net' \in Traffic
      BY <1>1, <1>5, <2>2, <3>1, Typed, Envelopes, Directions, ExchangeTraffic
      DEF handlePushTfa, getClient
    <3> QED BY <1>1, <1>2, <1>5, <2>2, <3>2 DEF handlePushTfa, TypeOK, lodi
  <2> QED BY <2>1, <2>2
<1>6. CASE PushAnswer(m)
  <2>1. tfaUser \in Users /\ clientStore[tfaUser] # <<>>
    BY <1>6 DEF TypeOK, PushAnswer
  <2>2. net' \in Traffic
    BY <1>1, <1>6, <2>1, Typed, Envelopes, Directions, ExchangeTraffic,
       ReceiveTraffic
    DEF PushAnswer, overwriteClient
  <2>3. clientStore' \in [Users -> Seq(Peers)]
    BY <1>1, <1>6, <2>1, Stores DEF PushAnswer, overwriteClient
  <2> QED BY <1>1, <1>6, <2>2, <2>3 DEF PushAnswer, TypeOK, lodi
<1>7. CASE Ignore(m)
  BY <1>1, <1>7, Typed, ReceiveTraffic DEF Ignore, TypeOK, server, lodi
<1> QED BY <1>3, <1>4, <1>5, <1>6, <1>7

\* The other steps.
LEMMA OthersTyped ==
  ASSUME TypeOK,
         \/ RegistrationTimeout \/ Refused \/ Lose \/ Drop
         \/ \E u \in Users : sendPushRequest(u)
         \/ \E m \in FromServer : Confirmed(m)
  PROVE  TypeOK'
<1>1. CASE RegistrationTimeout
  <2>1. tfaUser \in Users
    BY <1>1 DEF TypeOK, RegistrationTimeout
  <2>2. net' \in Traffic
    BY <1>1, <2>1, Typed, Envelopes, SendTraffic DEF RegistrationTimeout
  <2> QED BY <1>1, <2>2 DEF RegistrationTimeout, TypeOK, lodi, Peers
<1>2. CASE Refused
  BY <1>2 DEF Refused, TypeOK, server
<1>3. CASE Lose
  BY <1>3, Typed, ReceiveTraffic DEF Lose, TypeOK, server, lodi
<1>4. CASE Drop
  BY <1>4, Typed, ReceiveTraffic, Envelopes DEF Drop, TypeOK, server, lodi
<1>5. ASSUME NEW u \in Users, sendPushRequest(u)
      PROVE  TypeOK'
  <2>1. mailLost' \in BOOLEAN /\ mistaken' \in BOOLEAN
    BY <1>5, Zenon DEF sendPushRequest, TypeOK
  <2>2. ready' \in SUBSET Devices
    BY <1>5 DEF sendPushRequest
  <2> QED BY <1>5, <2>1, <2>2, Typed, Envelopes, SendTraffic
       DEF sendPushRequest, TypeOK, server
<1>6. ASSUME NEW m \in FromServer, Confirmed(m)
      PROVE  TypeOK'
  BY <1>6, Typed, Envelopes, ReceiveTraffic DEF Confirmed, TypeOK, server
<1> QED BY <1>1, <1>2, <1>3, <1>4, <1>5, <1>6

LEMMA StepTyped == TypeOK /\ [Next]_vars => TypeOK'
<1> SUFFICES ASSUME TypeOK, [Next]_vars PROVE TypeOK'
  OBVIOUS
<1>1. CASE TfaStep
  BY <1>1, TfaTyped DEF TfaStep
<1>2. ASSUME NEW d \in Devices,
             Register(d) \/ DeviceStep(d) \/ GiveUp(d) \/ SwitchOff(d)
      PROVE  TypeOK'
  <2>1. \E m : m \in FromServer
    BY Envelopes
  <2> QED BY <1>2, <2>1, DeviceTyped DEF DeviceStep
<1>3. CASE \/ RegistrationTimeout \/ LodiStep \/ Refused \/ Lose \/ Drop
           \/ \E u \in Users : sendPushRequest(u)
  BY <1>3, OthersTyped DEF LodiStep
<1>4. CASE UNCHANGED vars
  BY <1>4 DEF TypeOK, vars
<1> QED BY <1>1, <1>2, <1>3, <1>4 DEF Next

LEMMA ConfirmationInit == Init => TypeOK
<1>1. <<>> \in Seq(Peers)
  OBVIOUS
<1>2. Init => mailLost \in BOOLEAN /\ mistaken \in BOOLEAN
  BY Zenon DEF Init
<1> QED BY <1>1, <1>2 DEF Init, TypeOK, Traffic, NoMessage, Peers

\* The types hold, and with them: a wait of the TFA server for a push always
\* has a registration to answer into (handlePushTfa).
THEOREM ConfirmationTyped == Spec => []TypeOK
BY ConfirmationInit, StepTyped, PTL DEF Spec

----------------------------------------------------------------------------
(* Addresses stay with their users.                                        *)

\* A push is only ever under way for a user the Lodi server has asked about.
PushAsked ==
  /\ tfa = "push" => tfaUser \in askedAbout
  /\ \A m \in ToServer :
       m.type = "requestAuth" /\ net[m] > 0 => m.user \in askedAbout

\* An acknowledgement on its way names the user of its sender.
AcksOwned ==
  \A m \in ToServer : m.type = "ackRegTFA" /\ net[m] > 0 =>
    m.from \in Devices /\ m.user = Owner[m.from]

RegInv == TypeOK /\ PushAsked /\ AcksOwned /\ HandlesOwned

\* What may come into the traffic without harm.
Harmless(m) ==
  /\ m \in Message
  /\ m \in ToServer => /\ m.type = "requestAuth" => m.user \in askedAbout'
                       /\ m.type = "ackRegTFA" =>
                            m.from \in Devices /\ m.user = Owner[m.from]

LEMMA TrafficOwned ==
  ASSUME RegInv, NEW m, NEW reply,
         \/ m \in Message /\ Receive(m)
         \/ Harmless(reply) /\ Send(reply)
         \/ m \in Message /\ Harmless(reply) /\ m # reply /\ Exchange(m, reply),
         askedAbout \subseteq askedAbout', tfa' = "push" => tfaUser' \in askedAbout'
  PROVE  PushAsked' /\ AcksOwned'
<1>1. ToServer \subseteq Message /\ net \in Traffic
  BY Typed DEF RegInv, Message
<1>2. \A n \in ToServer : net'[n] > 0 => net[n] > 0 \/ (n = reply /\ Harmless(reply))
  <2>1. CASE m \in Message /\ Receive(m)
    BY <1>1, <2>1, ReceiveTraffic DEF Traffic
  <2>2. CASE Harmless(reply) /\ Send(reply)
    BY <1>1, <2>2, SendTraffic DEF Harmless
  <2>3. CASE m \in Message /\ Harmless(reply) /\ m # reply /\ Exchange(m, reply)
    BY <1>1, <2>3, ExchangeTraffic DEF Harmless, Traffic
  <2> QED BY <2>1, <2>2, <2>3
<1> QED BY <1>2 DEF RegInv, PushAsked, AcksOwned, Harmless

\* A step that stores nothing leaves the addresses to their users.
LEMMA StoreUnchanged ==
  ASSUME RegInv, clientStore' = clientStore, askedAbout \subseteq askedAbout'
  PROVE  HandlesOwned'
BY DEF RegInv, HandlesOwned

\* What devices and the TFA server send.
LEMMA Replies ==
  /\ \A d \in Devices :
       /\ Harmless(Up("registerTFA", Owner[d], d))
       /\ Harmless(Up("ackRegTFA", Owner[d], d))
  /\ \A d \in Devices, u \in Users : Harmless(Up("ackPushTFA", u, d))
  /\ \A type \in {"confirmTFA", "pushTFA", "tfaFailure", "responseAuth"},
        u \in Users, p \in Peers :
       Harmless(Down(type, u, p))
BY Envelopes, Directions DEF Harmless, Up, Down

LEMMA DeviceOwned ==
  ASSUME RegInv, NEW d \in Devices, NEW m \in FromServer,
         \/ Register(d) \/ FirstAnswer(d, m) \/ SecondAnswer(d, m)
         \/ GiveUp(d) \/ Confirm(d, m) \/ SwitchOff(d)
  PROVE  RegInv'
<1>1. m \in Message /\ m.user \in Users /\ m \notin ToServer
  BY Directions DEF Message, FromServer
<1>2. \A u \in Users, type \in {"registerTFA", "ackRegTFA", "ackPushTFA"} :
        m # Up(type, u, d)
  BY <1>1, Envelopes
<1>3. Owner[d] \in Users
  BY OwnerAssumption
<1>4. /\ askedAbout' = askedAbout /\ clientStore' = clientStore
      /\ tfa' = "push" => tfaUser' \in askedAbout'
  BY DEF RegInv, PushAsked, Register, FirstAnswer, SecondAnswer, GiveUp, Confirm,
         SwitchOff, server, lodi
<1>5. PushAsked' /\ AcksOwned'
  <2>1. CASE Register(d)
    BY <1>4, <2>1, Replies, TrafficOwned DEF Register
  <2>2. CASE FirstAnswer(d, m)
    <3>1. CASE Receive(m)
      BY <1>1, <1>4, <3>1, TrafficOwned
    <3>2. CASE Exchange(m, Up("ackRegTFA", Owner[d], d))
      BY <1>1, <1>2, <1>3, <1>4, <3>2, Replies, TrafficOwned
    <3> QED BY <2>2, <3>1, <3>2 DEF FirstAnswer
  <2>3. CASE SecondAnswer(d, m)
    BY <1>1, <1>4, <2>3, TrafficOwned DEF SecondAnswer
  <2>4. CASE Confirm(d, m)
    BY <1>1, <1>2, <1>4, <2>4, Replies, TrafficOwned DEF Confirm
  <2>5. CASE GiveUp(d) \/ SwitchOff(d)
    BY <1>4, <2>5 DEF GiveUp, SwitchOff, RegInv, PushAsked, AcksOwned
  <2> QED BY <2>1, <2>2, <2>3, <2>4, <2>5
<1>6. TypeOK'
  BY DeviceTyped DEF RegInv
<1> QED BY <1>4, <1>5, <1>6, StoreUnchanged DEF RegInv

\* The one step that stores: what it stores is the sender of an
\* acknowledgement under the user the acknowledgement names.
LEMMA AnswerOwned ==
  ASSUME RegInv, NEW m \in ToServer, RegistrationAnswer(m)
  PROVE  HandlesOwned'
<1>0. askedAbout' = askedAbout
  BY DEF RegistrationAnswer, lodi
<1>1. CASE clientStore' = clientStore
  BY <1>0, <1>1, StoreUnchanged
<1>2. CASE /\ m.type = "ackRegTFA" /\ net[m] > 0
           /\ clientStore' = [clientStore EXCEPT ![m.user] = Append(@, m.from)]
  <2>1. m.from \in Devices /\ m.user = Owner[m.from] /\ m.from \in Peers
    BY <1>2 DEF RegInv, AcksOwned, Peers
  <2> SUFFICES ASSUME NEW u \in Users, NEW k \in DOMAIN clientStore'[u]
               PROVE  \/ /\ clientStore'[u][k] \in Devices
                         /\ Owner[clientStore'[u][k]] = u
                      \/ k = 1 /\ u \in askedAbout'
    BY DEF HandlesOwned
  <2>2. clientStore \in [Users -> Seq(Peers)] /\ clientStore[u] \in Seq(Peers)
    BY DEF RegInv, TypeOK
  <2>3. CASE u # m.user
    BY <1>0, <1>2, <2>2, <2>3 DEF RegInv, HandlesOwned
  <2>4. CASE u = m.user
    <3>1. clientStore'[u] = Append(clientStore[u], m.from)
      BY <1>2, <2>2, <2>4
    <3>2. /\ Len(clientStore[u]) \in Nat
          /\ DOMAIN clientStore[u] = 1 .. Len(clientStore[u])
          /\ DOMAIN clientStore'[u] = 1 .. Len(clientStore[u]) + 1
          /\ \A i \in 1 .. Len(clientStore[u]) :
               clientStore'[u][i] = clientStore[u][i]
          /\ clientStore'[u][Len(clientStore[u]) + 1] = m.from
      BY <2>1, <2>2, <3>1, AppendProperties, LenProperties
    <3>3. CASE k \in 1 .. Len(clientStore[u])
      BY <1>0, <3>2, <3>3 DEF RegInv, HandlesOwned
    <3>4. CASE k = Len(clientStore[u]) + 1
      BY <2>1, <2>4, <3>2, <3>4
    <3> QED BY <3>2, <3>3, <3>4
  <2> QED BY <2>3, <2>4
<1> QED BY <1>1, <1>2 DEF RegistrationAnswer, registerClient, Exchange

\* The one step that overwrites: it changes the oldest address of the user the
\* push was for, and that user was asked about.
LEMMA PushOwned ==
  ASSUME RegInv, NEW m \in ToServer, PushAnswer(m)
  PROVE  HandlesOwned'
<1>1. /\ tfa = "push" /\ askedAbout' = askedAbout
      /\ clientStore' = [clientStore EXCEPT ![tfaUser][1] = m.from]
  BY DEF PushAnswer, overwriteClient, lodi
<1>2. tfaUser \in Users /\ tfaUser \in askedAbout
  BY <1>1, AddressAssumption DEF RegInv, TypeOK, PushAsked
<1>3. clientStore \in [Users -> Seq(Peers)]
  BY DEF RegInv, TypeOK
<1> SUFFICES ASSUME NEW u \in Users, NEW k \in DOMAIN clientStore'[u], k # 1 \/ u # tfaUser
             PROVE  \/ /\ clientStore'[u][k] \in Devices
                       /\ Owner[clientStore'[u][k]] = u
                    \/ k = 1 /\ u \in askedAbout'
  BY <1>1, <1>2 DEF HandlesOwned
<1>4. k \in DOMAIN clientStore[u] /\ clientStore'[u][k] = clientStore[u][k]
  BY <1>1, <1>2, <1>3
<1> QED BY <1>1, <1>4 DEF RegInv, HandlesOwned

LEMMA TfaOwned ==
  ASSUME RegInv, NEW m \in ToServer,
         \/ handleRegisterTfa(m) \/ RegistrationAnswer(m)
         \/ handlePushTfa(m) \/ PushAnswer(m) \/ Ignore(m)
  PROVE  RegInv'
<1>1. m \in Message /\ m.user \in Users /\ m.from \in Peers
  BY DEF Message, ToServer
<1>2. TypeOK'
  BY TfaTyped DEF RegInv
<1>3. \A type \in {"confirmTFA", "pushTFA", "tfaFailure", "responseAuth"},
         u \in Users, p \in Peers : m # Down(type, u, p)
  BY Envelopes, Directions
<1>4. askedAbout' = askedAbout
  BY DEF handleRegisterTfa, RegistrationAnswer, handlePushTfa, PushAnswer, Ignore,
         lodi
<1>5. CASE handleRegisterTfa(m)
  <2>1. tfa' = "push" => tfaUser' \in askedAbout'
    BY <1>5 DEF handleRegisterTfa
  <2>2. PushAsked' /\ AcksOwned'
    BY <1>1, <1>3, <1>4, <1>5, <2>1, Replies, TrafficOwned DEF handleRegisterTfa
  <2> QED BY <1>2, <1>4, <1>5, <2>2, StoreUnchanged DEF RegInv, handleRegisterTfa
<1>6. CASE RegistrationAnswer(m)
  <2>1. tfaUser \in Users /\ tfa' = "main"
    BY <1>6 DEF RegInv, TypeOK, RegistrationAnswer
  <2>2. PushAsked' /\ AcksOwned'
    BY <1>1, <1>3, <1>4, <1>6, <2>1, Replies, TrafficOwned DEF RegistrationAnswer
  <2> QED BY <1>2, <1>6, <2>2, AnswerOwned DEF RegInv
<1>7. CASE handlePushTfa(m)
  <2>1. m.user \in askedAbout
    BY <1>7 DEF RegInv, PushAsked, handlePushTfa, Receive, Exchange
  <2>2. tfa' = "push" => tfaUser' \in askedAbout'
    BY <1>4, <1>7, <2>1 DEF handlePushTfa
  <2>3. clientStore[m.user] # <<>> => Head(clientStore[m.user]) \in Peers
    BY <1>1, Stores DEF RegInv
  <2>4. PushAsked' /\ AcksOwned'
    <3>1. CASE Receive(m)
      BY <1>1, <1>4, <2>2, <3>1, TrafficOwned
    <3>2. CASE /\ clientStore[m.user] # <<>>
               /\ Exchange(m, Down("pushTFA", m.user, Head(clientStore[m.user])))
      BY <1>1, <1>3, <1>4, <2>2, <2>3, <3>2, Replies, TrafficOwned
    <3> QED BY <1>7, <3>1, <3>2 DEF handlePushTfa, getClient
  <2> QED BY <1>2, <1>4, <1>7, <2>4, StoreUnchanged DEF RegInv, handlePushTfa
<1>8. CASE PushAnswer(m)
  <2>1. tfaUser \in Users /\ tfaPeer \in Peers /\ tfa' = "main"
    BY <1>8 DEF RegInv, TypeOK, PushAnswer
  <2>2. PushAsked' /\ AcksOwned'
    BY <1>1, <1>3, <1>4, <1>8, <2>1, Replies, TrafficOwned DEF PushAnswer
  <2> QED BY <1>2, <1>8, <2>2, PushOwned DEF RegInv
<1>9. CASE Ignore(m)
  <2>1. tfa' = "push" => tfaUser' \in askedAbout'
    BY <1>9 DEF Ignore, server
  <2>2. PushAsked' /\ AcksOwned'
    BY <1>1, <1>4, <1>9, <2>1, TrafficOwned DEF Ignore
  <2> QED BY <1>2, <1>4, <1>9, <2>2, StoreUnchanged DEF RegInv, Ignore, server
<1> QED BY <1>5, <1>6, <1>7, <1>8, <1>9

LEMMA OthersOwned ==
  ASSUME RegInv,
         \/ RegistrationTimeout \/ Refused \/ Lose \/ Drop
         \/ \E u \in Users : sendPushRequest(u)
         \/ \E m \in FromServer : Confirmed(m)
  PROVE  RegInv'
<1>1. TypeOK'
  BY OthersTyped DEF RegInv
<1>2. FromServer \subseteq Message
  BY Envelopes
<1>3. CASE RegistrationTimeout
  <2>1. tfaUser \in Users /\ tfaPeer \in Peers /\ tfa' = "main"
    BY <1>3 DEF RegInv, TypeOK, RegistrationTimeout
  <2>2. askedAbout' = askedAbout /\ clientStore' = clientStore
    BY <1>3 DEF RegistrationTimeout, lodi
  <2>3. PushAsked' /\ AcksOwned'
    BY <1>3, <2>1, <2>2, Replies, TrafficOwned DEF RegistrationTimeout
  <2> QED BY <1>1, <2>2, <2>3, StoreUnchanged DEF RegInv
<1>4. CASE Refused
  BY <1>1, <1>4
  DEF Refused, RegInv, PushAsked, AcksOwned, HandlesOwned, server
<1>5. CASE Lose \/ Drop
  <2>1. \E m \in Message : Receive(m)
    BY <1>2, <1>5 DEF Lose, Drop
  <2>2. /\ askedAbout' = askedAbout /\ clientStore' = clientStore
        /\ tfa' = "push" => tfaUser' \in askedAbout'
    BY <1>5 DEF Lose, Drop, server, lodi, RegInv, PushAsked
  <2>3. PushAsked' /\ AcksOwned'
    BY <2>1, <2>2, TrafficOwned
  <2> QED BY <1>1, <2>2, <2>3, StoreUnchanged DEF RegInv
<1>6. ASSUME NEW u \in Users, sendPushRequest(u)
      PROVE  RegInv'
  <2>1. /\ askedAbout' = askedAbout \cup {u} /\ clientStore' = clientStore
        /\ tfa' = "push" => tfaUser' \in askedAbout'
    BY <1>6 DEF sendPushRequest, server, RegInv, PushAsked
  <2>2. Harmless(Up("requestAuth", u, Lodi))
    BY <2>1, Envelopes DEF Harmless, Up
  <2>3. PushAsked' /\ AcksOwned'
    BY <1>6, <2>1, <2>2, TrafficOwned DEF sendPushRequest
  <2> QED BY <1>1, <2>1, <2>3, StoreUnchanged DEF RegInv
<1>7. ASSUME NEW m \in FromServer, Confirmed(m)
      PROVE  RegInv'
  <2>1. /\ askedAbout' = askedAbout /\ clientStore' = clientStore
        /\ tfa' = "push" => tfaUser' \in askedAbout'
    BY <1>7 DEF Confirmed, server, RegInv, PushAsked
  <2>2. PushAsked' /\ AcksOwned'
    BY <1>2, <1>7, <2>1, TrafficOwned DEF Confirmed
  <2> QED BY <1>1, <2>1, <2>2, StoreUnchanged DEF RegInv
<1> QED BY <1>3, <1>4, <1>5, <1>6, <1>7

LEMMA StepOwned == RegInv /\ [Next]_vars => RegInv'
<1> SUFFICES ASSUME RegInv, [Next]_vars PROVE RegInv'
  OBVIOUS
<1>1. CASE TfaStep
  BY <1>1, TfaOwned DEF TfaStep
<1>2. ASSUME NEW d \in Devices,
             Register(d) \/ DeviceStep(d) \/ GiveUp(d) \/ SwitchOff(d)
      PROVE  RegInv'
  <2>1. \E m : m \in FromServer
    BY Envelopes
  <2> QED BY <1>2, <2>1, DeviceOwned DEF DeviceStep
<1>3. CASE \/ RegistrationTimeout \/ LodiStep \/ Refused \/ Lose \/ Drop
           \/ \E u \in Users : sendPushRequest(u)
  BY <1>3, OthersOwned DEF LodiStep
<1>4. CASE UNCHANGED vars
  BY <1>4 DEF RegInv, TypeOK, PushAsked, AcksOwned, HandlesOwned, vars
<1> QED BY <1>1, <1>2, <1>3, <1>4 DEF Next

\* Every address stored for a user is that of a device of the user, but for
\* the oldest one of a user that was asked about, however registrations and
\* logins overlap, time out and answer late: storing the sender of whatever
\* acknowledgement arrives under the user it names is right
\* (handleRegisterTfa, registerClient), and a push can only spoil the address
\* it was sent to (handlePushTfa).
THEOREM RegistrationsOwned == Spec => []HandlesOwned
<1>1. Init => RegInv
  <2>1. Init => TypeOK
    BY ConfirmationInit
  <2> QED BY <2>1, Envelopes
       DEF Init, RegInv, PushAsked, AcksOwned, HandlesOwned, NoMessage
<1>2. RegInv => HandlesOwned
  BY DEF RegInv
<1> QED BY <1>1, <1>2, StepOwned, PTL DEF Spec
----------------------------------------------------------------------------
(* Who sends what to whom.                                                  *)

\* Only the Lodi server asks for pushes, and only it is told of them.
Addressed ==
  /\ tfa = "push" => tfaPeer = Lodi
  /\ tfa = "registration" => tfaPeer \in Devices
  /\ \A m \in ToServer : net[m] > 0 => (m.type = "requestAuth" <=> m.from = Lodi)
  /\ \A m \in FromServer : net[m] > 0 /\ m.type = "responseAuth" => m.to = Lodi

WellAddressed(m) ==
  /\ m \in Message
  /\ m \in ToServer => (m.type = "requestAuth" <=> m.from = Lodi)
  /\ m \in FromServer /\ m.type = "responseAuth" => m.to = Lodi

LEMMA TrafficAddressed ==
  ASSUME TypeOK, Addressed, NEW m, NEW reply,
         \/ net' = net
         \/ m \in Message /\ Receive(m)
         \/ WellAddressed(reply) /\ Send(reply)
         \/ m \in Message /\ WellAddressed(reply) /\ m # reply /\ Exchange(m, reply),
         tfa' = "push" => tfaPeer' = Lodi,
         tfa' = "registration" => tfaPeer' \in Devices
  PROVE  Addressed'
<1>1. ToServer \subseteq Message /\ FromServer \subseteq Message /\ net \in Traffic
  BY Typed DEF Message
<1>2. \A n \in Message :
        net'[n] > 0 => net[n] > 0 \/ (n = reply /\ WellAddressed(reply))
  <2>1. CASE m \in Message /\ Receive(m)
    BY <1>1, <2>1, ReceiveTraffic DEF Traffic
  <2>2. CASE WellAddressed(reply) /\ Send(reply)
    BY <1>1, <2>2, SendTraffic DEF WellAddressed
  <2>3. CASE m \in Message /\ WellAddressed(reply) /\ m # reply /\ Exchange(m, reply)
    BY <1>1, <2>3, ExchangeTraffic DEF WellAddressed, Traffic
  <2> QED BY <2>1, <2>2, <2>3
<1> QED BY <1>1, <1>2 DEF Addressed, WellAddressed

LEMMA Envelopers ==
  /\ \A type \in {"registerTFA", "ackRegTFA", "ackPushTFA"}, u \in Users,
        d \in Devices : WellAddressed(Up(type, u, d))
  /\ \A u \in Users : WellAddressed(Up("requestAuth", u, Lodi))
  /\ \A type \in {"confirmTFA", "pushTFA", "tfaFailure"}, u \in Users, p \in Peers :
       WellAddressed(Down(type, u, p))
  /\ \A u \in Users : WellAddressed(Down("responseAuth", u, Lodi))
BY Envelopes, Directions, AddressAssumption DEF WellAddressed, Up, Down

LEMMA DeviceAddressed ==
  ASSUME TypeOK, Addressed, NEW d \in Devices, NEW m \in FromServer,
         \/ Register(d) \/ FirstAnswer(d, m) \/ SecondAnswer(d, m)
         \/ GiveUp(d) \/ Confirm(d, m) \/ SwitchOff(d)
  PROVE  Addressed'
<1>1. /\ m \in Message /\ m.user \in Users /\ Owner[d] \in Users
      /\ \A u \in Users, type \in {"registerTFA", "ackRegTFA", "ackPushTFA"} :
           m # Up(type, u, d)
  BY Envelopes, Directions DEF FromServer
<1>2. /\ tfa' = "push" => tfaPeer' = Lodi
      /\ tfa' = "registration" => tfaPeer' \in Devices
  BY DEF Register, FirstAnswer, SecondAnswer, GiveUp, Confirm, SwitchOff, server,
         Addressed
<1>3. CASE Register(d)
  BY <1>1, <1>2, <1>3, Envelopers, TrafficAddressed DEF Register
<1>4. CASE Receive(m)
  BY <1>1, <1>2, <1>4, TrafficAddressed
<1>5. CASE Exchange(m, Up("ackRegTFA", Owner[d], d))
  BY <1>1, <1>2, <1>5, Envelopers, TrafficAddressed
<1>6. CASE Exchange(m, Up("ackPushTFA", m.user, d))
  BY <1>1, <1>2, <1>6, Envelopers, TrafficAddressed
<1>7. CASE net' = net
  BY <1>2, <1>7, TrafficAddressed
<1> QED BY <1>3, <1>4, <1>5, <1>6, <1>7
     DEF FirstAnswer, SecondAnswer, GiveUp, Confirm, SwitchOff

LEMMA TfaAddressed ==
  ASSUME TypeOK, Addressed, NEW m \in ToServer,
         \/ handleRegisterTfa(m) \/ RegistrationAnswer(m)
         \/ handlePushTfa(m) \/ PushAnswer(m) \/ Ignore(m)
  PROVE  Addressed'
<1>1. /\ m \in Message /\ m.user \in Users /\ m.from \in Peers
      /\ \A type \in {"confirmTFA", "pushTFA", "tfaFailure", "responseAuth"},
            u \in Users, p \in Peers : m # Down(type, u, p)
  BY Envelopes, Directions DEF ToServer
<1>2. net[m] > 0 /\ (m.type = "requestAuth" <=> m.from = Lodi)
  BY DEF handleRegisterTfa, RegistrationAnswer, handlePushTfa, PushAnswer, Ignore,
         Exchange, Receive, Addressed
<1>3. CASE handleRegisterTfa(m)
  <2>1. m.from \in Devices
    BY <1>1, <1>2, <1>3 DEF handleRegisterTfa, Peers
  <2>2. /\ tfa' = "push" => tfaPeer' = Lodi
        /\ tfa' = "registration" => tfaPeer' \in Devices
    BY <1>3, <2>1 DEF handleRegisterTfa
  <2> QED BY <1>1, <1>3, <2>2, Envelopers, TrafficAddressed DEF handleRegisterTfa
<1>4. CASE RegistrationAnswer(m)
  <2>1. tfaUser \in Users /\ tfa' = "main"
    BY <1>4 DEF RegistrationAnswer, TypeOK
  <2> QED BY <1>1, <1>4, <2>1, Envelopers, TrafficAddressed DEF RegistrationAnswer
<1>5. CASE handlePushTfa(m)
  <2>1. /\ tfa' = "push" => tfaPeer' = Lodi
        /\ tfa' = "registration" => tfaPeer' \in Devices
    BY <1>2, <1>5 DEF handlePushTfa, Addressed
  <2>2. CASE Receive(m)
    BY <1>1, <2>1, <2>2, TrafficAddressed
  <2>3. CASE /\ clientStore[m.user] # <<>>
             /\ Exchange(m, Down("pushTFA", m.user, Head(clientStore[m.user])))
    <3>1. Head(clientStore[m.user]) \in Peers
      BY <1>1, <2>3, Stores
    <3> QED BY <1>1, <2>1, <2>3, <3>1, Envelopers, TrafficAddressed
  <2> QED BY <1>5, <2>2, <2>3 DEF handlePushTfa, getClient
<1>6. CASE PushAnswer(m)
  <2>1. tfaUser \in Users /\ tfaPeer = Lodi /\ tfa' = "main"
    BY <1>6 DEF PushAnswer, TypeOK, Addressed
  <2> QED BY <1>1, <1>6, <2>1, Envelopes, Envelopers, TrafficAddressed DEF PushAnswer
<1>7. CASE Ignore(m)
  BY <1>1, <1>7, TrafficAddressed DEF Ignore, server, Addressed
<1> QED BY <1>3, <1>4, <1>5, <1>6, <1>7

LEMMA OthersAddressed ==
  ASSUME TypeOK, Addressed,
         \/ RegistrationTimeout \/ Refused \/ Lose \/ Drop
         \/ \E u \in Users : sendPushRequest(u)
         \/ \E m \in FromServer : Confirmed(m)
  PROVE  Addressed'
<1>1. /\ tfa' = "push" => tfaPeer' = Lodi
      /\ tfa' = "registration" => tfaPeer' \in Devices
  BY DEF RegistrationTimeout, Refused, Lose, Drop, sendPushRequest, Confirmed,
         server, Addressed
<1>2. CASE RegistrationTimeout
  <2>1. tfaUser \in Users /\ tfaPeer \in Peers
    BY <1>2 DEF RegistrationTimeout, TypeOK
  <2> QED BY <1>1, <1>2, <2>1, Envelopers, TrafficAddressed DEF RegistrationTimeout
<1>3. CASE \E m \in Message : Receive(m)
  BY <1>1, <1>3, TrafficAddressed
<1>4. CASE \E u \in Users : sendPushRequest(u)
  BY <1>1, <1>4, Envelopers, TrafficAddressed DEF sendPushRequest
<1>5. CASE Refused
  BY <1>1, <1>5, TrafficAddressed DEF Refused
<1> QED BY <1>2, <1>3, <1>4, <1>5, Envelopes DEF Lose, Drop, Confirmed

LEMMA StepAddressed == TypeOK /\ Addressed /\ [Next]_vars => Addressed'
<1> SUFFICES ASSUME TypeOK, Addressed, [Next]_vars PROVE Addressed'
  OBVIOUS
<1>1. CASE TfaStep
  BY <1>1, TfaAddressed DEF TfaStep
<1>2. ASSUME NEW d \in Devices,
             Register(d) \/ DeviceStep(d) \/ GiveUp(d) \/ SwitchOff(d)
      PROVE  Addressed'
  <2>1. \E m : m \in FromServer
    BY Envelopes
  <2> QED BY <1>2, <2>1, DeviceAddressed DEF DeviceStep
<1>3. CASE \/ RegistrationTimeout \/ LodiStep \/ Refused \/ Lose \/ Drop
           \/ \E u \in Users : sendPushRequest(u)
  BY <1>3, OthersAddressed DEF LodiStep
<1>4. CASE UNCHANGED vars
  BY <1>4 DEF Addressed, vars
<1> QED BY <1>1, <1>2, <1>3, <1>4 DEF Next

----------------------------------------------------------------------------
(* A device that serves is registered, as long as no login was asked about  *)
(* or no datagram was taken for another one.                                *)

Stored(d) == Contains(clientStore[Owner[d]], d)

\* The datagrams a registration begins with, and the acknowledgements.
Firsts(d) == {m \in ToServer : m.type = "registerTFA" /\ m.from = d}
             \cup {m \in FromServer : m.type = "confirmTFA" /\ m.to = d}
Acks(d) == {m \in ToServer : m.type = "ackRegTFA" /\ m.from = d}

\* Until the device acknowledges, its request or the one answer to it is under
\* way; after that a confirmation is only sent once its address is stored.
DeviceRight(d) ==
  /\ dev[d] = "off" => \A m \in Firsts(d) \cup Acks(d) : net[m] = 0
  /\ dev[d] = "registering" =>
       /\ \A m \in Acks(d) : net[m] = 0
       /\ \A m, n \in Firsts(d) : net[m] > 0 /\ net[n] > 0 => m = n /\ net[m] = 1
  /\ dev[d] = "acking" =>
       \A m \in Firsts(d) : net[m] > 0 => m \in FromServer /\ Stored(d)
  /\ dev[d] = "serving" => Stored(d)

\* Devices are sent nothing but confirmations and failures.
NoPushMail ==
  \A m \in FromServer :
    net[m] > 0 => m.type \in {"confirmTFA", "tfaFailure"}

ServeInv ==
  /\ askedAbout = {} => NoPushMail
  /\ askedAbout = {} \/ ~ mistaken => \A d \in Devices : DeviceRight(d)

LEMMA Mails ==
  \A d \in Devices :
    /\ Firsts(d) \subseteq Message /\ Acks(d) \subseteq Message
    /\ \A m \in Firsts(d) \cap ToServer : m \notin FromServer
    /\ \A m \in Acks(d) : m \notin Firsts(d)
BY Directions DEF Firsts, Acks, Message

\* A device is right as long as its own datagrams only get fewer.
LEMMA FewerMails ==
  ASSUME TypeOK, TypeOK', NEW d \in Devices, DeviceRight(d), dev'[d] = dev[d],
         Stored(d) => Stored(d)',
         \A m \in Firsts(d) \cup Acks(d) : net'[m] <= net[m]
  PROVE  DeviceRight(d)'
<1>1. \A m \in Firsts(d) \cup Acks(d) : net[m] \in Nat /\ net'[m] \in Nat
  BY Mails DEF TypeOK, Traffic
<1>2. \A m \in Firsts(d) \cup Acks(d) : net'[m] > 0 => net[m] > 0
  BY <1>1
<1>3. \A m \in Firsts(d) \cup Acks(d) : net[m] = 0 => net'[m] = 0
  BY <1>1
<1>4. \A m \in Firsts(d) : net[m] = 1 /\ net'[m] > 0 => net'[m] = 1
  BY <1>1
<1>5. Firsts(d)' = Firsts(d) /\ Acks(d)' = Acks(d)
  BY DEF Firsts, Acks
<1> QED BY <1>2, <1>3, <1>4, <1>5 DEF DeviceRight

LEMMA DeviceServes ==
  ASSUME RegInv, Addressed, ServeInv, NEW d \in Devices, NEW m \in FromServer,
         \/ Register(d) \/ FirstAnswer(d, m) \/ SecondAnswer(d, m)
         \/ GiveUp(d) \/ Confirm(d, m) \/ SwitchOff(d)
  PROVE  ServeInv'
<1>0. TypeOK /\ TypeOK' /\ net \in Traffic
  BY DeviceTyped, Typed DEF RegInv
<1> DEFINE request == Up("registerTFA", Owner[d], d)
           ack == Up("ackRegTFA", Owner[d], d)
           pushed == Up("ackPushTFA", m.user, d)
<1>1. /\ m \in Message /\ m \notin ToServer
      /\ request \in ToServer /\ ack \in ToServer /\ pushed \in ToServer
      /\ ToServer \subseteq Message /\ FromServer \subseteq Message
  BY Envelopes, Directions DEF FromServer
<1>2. /\ request \in Firsts(d) /\ request \notin Acks(d)
      /\ ack \in Acks(d) /\ ack \notin Firsts(d)
      /\ pushed \notin Firsts(d) \cup Acks(d)
      /\ \A e \in Devices : e # d =>
           {request, ack, pushed} \cap (Firsts(e) \cup Acks(e)) = {}
  BY <1>1, Directions DEF Firsts, Acks, Up
<1>3. \A n \in Message : n \notin {request, ack, pushed} => net'[n] <= net[n]
  <2>1. net \in [Message -> Nat]
    BY <1>0 DEF Traffic
  <2>2. CASE Register(d)
    BY <1>0, <1>1, <2>1, <2>2, SendTraffic DEF Register
  <2>3. CASE Receive(m)
    BY <1>0, <1>1, <2>1, <2>3, ReceiveTraffic
  <2>4. CASE Exchange(m, ack)
    BY <1>0, <1>1, <2>1, <2>4, ExchangeTraffic
  <2>5. CASE Exchange(m, pushed)
    BY <1>0, <1>1, <2>1, <2>5, ExchangeTraffic
  <2>6. CASE net' = net
    BY <2>1, <2>6
  <2> QED BY <2>2, <2>3, <2>4, <2>5, <2>6
       DEF FirstAnswer, SecondAnswer, GiveUp, Confirm, SwitchOff
<1>4. askedAbout' = askedAbout /\ (mistaken => mistaken')
  <2>1. askedAbout' = askedAbout
    BY DEF Register, FirstAnswer, SecondAnswer, GiveUp, Confirm, SwitchOff, lodi
  <2>2. mistaken => mistaken'
    BY Zenon DEF Register, FirstAnswer, SecondAnswer, GiveUp, Confirm, SwitchOff
  <2> QED BY <2>1, <2>2
<1>9. askedAbout' = {} => NoPushMail'
  <2>1. \A n \in FromServer : net'[n] <= net[n]
    BY <1>1, <1>3, Directions
  <2>2. \A n \in FromServer : net[n] \in Nat /\ net'[n] \in Nat
    BY <1>0, <1>1 DEF TypeOK, Traffic
  <2> QED BY <1>4, <2>1, <2>2 DEF ServeInv, NoPushMail
<1> SUFFICES ASSUME askedAbout = {} \/ ~ mistaken'
             PROVE  \A e \in Devices : DeviceRight(e)'
  BY <1>4, <1>9 DEF ServeInv
<1>10. \A e \in Devices : DeviceRight(e)
  BY <1>4 DEF ServeInv
<1>11. FirstAnswer(d, m) \/ SecondAnswer(d, m) =>
         net[m] > 0 /\ m.to = d /\ m.type \in {"confirmTFA", "tfaFailure"}
  <2> SUFFICES ASSUME FirstAnswer(d, m) \/ SecondAnswer(d, m)
               PROVE  net[m] > 0 /\ m.to = d /\ m.type \in {"confirmTFA", "tfaFailure"}
    OBVIOUS
  <2>1. net[m] > 0 /\ m.to = d
    BY DEF FirstAnswer, SecondAnswer, Receive, Exchange
  <2>2. CASE askedAbout = {}
    BY <2>1, <2>2 DEF ServeInv, NoPushMail
  <2>3. CASE ~ mistaken'
    <3>1. m.type # "pushTFA"
      BY <2>3 DEF FirstAnswer, SecondAnswer
    <3>2. m.type # "responseAuth"
      BY <2>1, AddressAssumption DEF Addressed
    <3> QED BY <2>1, <3>1, <3>2 DEF FromServer
  <2> QED BY <2>2, <2>3
<1>5. clientStore' = clientStore /\ \A e \in Devices : Stored(e)' = Stored(e)
  BY DEF Register, FirstAnswer, SecondAnswer, GiveUp, Confirm, SwitchOff, server,
         Stored
<1>6. ASSUME NEW e \in Devices, e # d
      PROVE  DeviceRight(e)'
  <2>1. dev'[e] = dev[e]
    BY <1>0, <1>6
    DEF Register, FirstAnswer, SecondAnswer, GiveUp, Confirm, SwitchOff, TypeOK
  <2>2. \A n \in Firsts(e) \cup Acks(e) : net'[n] <= net[n]
    BY <1>2, <1>3, <1>6, Mails
  <2> QED BY <1>0, <1>5, <1>10, <2>1, <2>2, FewerMails
<1>7. DeviceRight(d)
  BY <1>10
<1>8. DeviceRight(d)'
  <2>0. Firsts(d)' = Firsts(d) /\ Acks(d)' = Acks(d)
    BY DEF Firsts, Acks
  <2>1. CASE Register(d)
    <3>1. \A n \in Firsts(d) \cup Acks(d) : net[n] = 0
      BY <1>7, <2>1 DEF DeviceRight, Register
    <3>2. net'[request] = net[request] + 1
          /\ \A n \in Message : n # request => net'[n] = net[n]
      BY <1>0, <1>1, <2>1, SendTraffic DEF Register
    <3>3. net'[request] = 1
          /\ \A n \in Firsts(d) \cup Acks(d) : n # request => net'[n] = 0
      BY <1>2, <3>1, <3>2, Mails
    <3>4. dev'[d] = "registering"
      BY <1>0, <2>1 DEF Register, TypeOK
    <3> QED BY <1>2, <2>0, <3>3, <3>4 DEF DeviceRight
  <2>2. CASE FirstAnswer(d, m)
    <3>1. CASE dev'[d] = "dead"
      BY <3>1 DEF DeviceRight
    <3>2. CASE /\ m.type # "tfaFailure" /\ Exchange(m, ack)
               /\ dev[d] = "registering" /\ dev'[d] = "acking" /\ m.to = d
      <4>1. net[m] > 0 /\ m \in Firsts(d)
        BY <1>11, <2>2, <3>2 DEF Firsts
      <4>2. /\ net'[m] = net[m] - 1
            /\ \A n \in Message : n \notin {m, ack} => net'[n] = net[n]
        BY <1>0, <1>1, <3>2, ExchangeTraffic
      <4>3. net[m] = 1 /\ \A n \in Firsts(d) : n # m => ~ net[n] > 0
        BY <1>7, <3>2, <4>1 DEF DeviceRight
      <4>4. \A n \in Firsts(d) : ~ net'[n] > 0
        BY <1>2, <4>2, <4>3, Mails
      <4> QED BY <2>0, <3>2, <4>4 DEF DeviceRight
    <3> QED BY <1>0, <2>2, <3>1, <3>2 DEF FirstAnswer, TypeOK
  <2>3. CASE SecondAnswer(d, m)
    <3>1. CASE m.type = "tfaFailure"
      BY <1>0, <2>3, <3>1 DEF SecondAnswer, TypeOK, DeviceRight
    <3>2. CASE m.type # "tfaFailure"
      <4>1. net[m] > 0 /\ m \in Firsts(d)
        BY <1>11, <2>3, <3>2 DEF Firsts
      <4>2. Stored(d)
        BY <1>7, <2>3, <4>1 DEF DeviceRight, SecondAnswer
      <4>3. dev'[d] = "serving"
        BY <1>0, <2>3, <3>2 DEF SecondAnswer, TypeOK
      <4> QED BY <1>5, <4>2, <4>3 DEF DeviceRight
    <3> QED BY <3>1, <3>2
  <2>4. CASE GiveUp(d) \/ SwitchOff(d)
    BY <1>0, <2>4 DEF GiveUp, SwitchOff, TypeOK, DeviceRight
  <2>5. CASE Confirm(d, m)
    BY <1>5, <1>7, <2>5 DEF Confirm, DeviceRight
  <2> QED BY <2>1, <2>2, <2>3, <2>4, <2>5
<1> QED BY <1>6, <1>8

\* What is added to a list leaves in it what was there.
LEMMA StillStored ==
  ASSUME TypeOK, NEW u \in Users, NEW p \in Peers,
         clientStore' = [clientStore EXCEPT ![u] = Append(@, p)]
  PROVE  /\ \A e \in Devices : Stored(e) => Stored(e)'
         /\ Contains(clientStore'[u], p)
<1>1. \A v \in Users : clientStore[v] \in Seq(Peers)
  BY DEF TypeOK
<1>2. clientStore'[u] = Append(clientStore[u], p)
      /\ \A v \in Users : v # u => clientStore'[v] = clientStore[v]
  BY DEF TypeOK
<1>3. /\ Len(clientStore[u]) \in Nat
      /\ Len(clientStore'[u]) = Len(clientStore[u]) + 1
      /\ \A i \in 1 .. Len(clientStore[u]) :
           clientStore'[u][i] = clientStore[u][i]
      /\ clientStore'[u][Len(clientStore[u]) + 1] = p
  BY <1>1, <1>2, AppendProperties, LenProperties
<1>4. Contains(clientStore'[u], p)
  BY <1>3 DEF Contains
<1>5. \A x : Contains(clientStore[u], x) => Contains(clientStore'[u], x)
  BY <1>3 DEF Contains
<1>6. \A e \in Devices : Stored(e) => Stored(e)'
  BY <1>2, <1>5, OwnerAssumption DEF Stored
<1> QED BY <1>4, <1>6

\* An address written in the place of itself changes nothing.
LEMMA SameHead ==
  ASSUME TypeOK, NEW u \in Users, clientStore[u] # <<>>,
         clientStore' = [clientStore EXCEPT ![u][1] = Head(clientStore[u])]
  PROVE  clientStore' = clientStore
<1>1. clientStore \in [Users -> Seq(Peers)] /\ clientStore[u] \in Seq(Peers)
  BY DEF TypeOK
<1>2. Head(clientStore[u]) = clientStore[u][1] /\ 1 \in DOMAIN clientStore[u]
  BY <1>1, EmptySeq, HeadTailProperties
<1>3. [clientStore[u] EXCEPT ![1] = clientStore[u][1]] = clientStore[u]
  BY <1>1, <1>2
<1> QED BY <1>1, <1>2, <1>3

LEMMA TfaServes ==
  ASSUME RegInv, ServeInv, NEW m \in ToServer,
         \/ handleRegisterTfa(m) \/ RegistrationAnswer(m)
         \/ handlePushTfa(m) \/ PushAnswer(m) \/ Ignore(m)
  PROVE  ServeInv'
<1>0. /\ TypeOK /\ TypeOK' /\ net \in Traffic
      /\ \A n \in Message : net[n] \in Nat /\ net'[n] \in Nat
  BY TfaTyped, Typed DEF RegInv, TypeOK, Traffic
<1>1. /\ m \in Message /\ m.user \in Users /\ m.from \in Peers /\ m \notin FromServer
      /\ FromServer \subseteq Message
  BY Directions DEF Message, ToServer
<1>2. dev' = dev /\ net[m] > 0
  BY DEF handleRegisterTfa, RegistrationAnswer, handlePushTfa, PushAnswer, Ignore,
         Receive, Exchange
<1>3. askedAbout = {} => m.type # "requestAuth" /\ tfa # "push"
  BY <1>2 DEF RegInv, PushAsked
<1>13. askedAbout' = askedAbout /\ (mistaken => mistaken')
  <2>1. askedAbout' = askedAbout
    BY DEF handleRegisterTfa, RegistrationAnswer, handlePushTfa, PushAnswer, Ignore,
           lodi
  <2>2. mistaken => mistaken'
    BY Zenon
    DEF handleRegisterTfa, RegistrationAnswer, handlePushTfa, PushAnswer, Ignore
  <2> QED BY <2>1, <2>2
<1>14. askedAbout = {} \/ ~ mistaken' => \A e \in Devices : DeviceRight(e)
  BY <1>13 DEF ServeInv
<1>4. ASSUME \A n \in Message : net'[n] > net[n] =>
               /\ n \in FromServer /\ n.type # "confirmTFA"
               /\ askedAbout = {} => n.type = "tfaFailure",
             askedAbout = {} \/ ~ mistaken' => clientStore' = clientStore
      PROVE  ServeInv'
  <2>1. askedAbout = {} => NoPushMail'
    BY <1>0, <1>1, <1>4 DEF ServeInv, NoPushMail
  <2>2. \A e \in Devices : \A n \in Firsts(e) \cup Acks(e) : net'[n] <= net[n]
    BY <1>0, <1>4, Mails, Directions DEF Firsts, Acks
  <2>3. askedAbout = {} \/ ~ mistaken' => \A e \in Devices : Stored(e) => Stored(e)'
    BY <1>4 DEF Stored
  <2>4. askedAbout = {} \/ ~ mistaken' => \A e \in Devices : DeviceRight(e)'
    BY <1>0, <1>2, <1>14, <2>2, <2>3, FewerMails
  <2> QED BY <1>13, <2>1, <2>4 DEF ServeInv
<1>5. ASSUME NEW u \in Users, NEW p \in Peers,
             NEW type \in {"tfaFailure", "pushTFA", "responseAuth"},
             Exchange(m, Down(type, u, p)),
             askedAbout = {} => type = "tfaFailure",
             askedAbout = {} \/ ~ mistaken' => clientStore' = clientStore
      PROVE  ServeInv'
  <2> DEFINE reply == Down(type, u, p)
  <2>1. reply \in FromServer /\ reply.type = type /\ reply # m
    BY <1>1, Envelopes DEF Down
  <2>2. \A n \in Message : n # reply => net'[n] <= net[n]
    BY <1>0, <1>1, <1>5, <2>1, ExchangeTraffic
  <2>3. type # "confirmTFA"
    OBVIOUS
  <2> QED BY <1>0, <1>4, <1>5, <2>1, <2>2, <2>3
<1>6. ASSUME NEW u \in Users, Exchange(m, Down("confirmTFA", u, m.from)),
             \A e \in Devices : Stored(e) => Stored(e)',
             \/ m.type = "registerTFA"
             \/ /\ m.type = "ackRegTFA"
                /\ m.from \in Devices => Stored(m.from)'
      PROVE  ServeInv'
  <2> DEFINE reply == Down("confirmTFA", u, m.from)
  <2>1. /\ reply \in FromServer /\ reply.type = "confirmTFA" /\ reply.to = m.from
        /\ reply # m /\ reply \in Message /\ reply \notin ToServer
    BY <1>1, Envelopes, Directions DEF Down
  <2>2. /\ net'[m] = net[m] - 1 /\ net'[reply] = net[reply] + 1
        /\ \A n \in Message : n \notin {m, reply} => net'[n] = net[n]
    BY <1>0, <1>1, <1>6, <2>1, ExchangeTraffic
  <2>3. askedAbout = {} => NoPushMail'
    BY <1>0, <1>1, <2>1, <2>2 DEF ServeInv, NoPushMail
  <2> SUFFICES ASSUME askedAbout = {} \/ ~ mistaken'
               PROVE  \A e \in Devices : DeviceRight(e)'
    BY <1>13, <2>3 DEF ServeInv
  <2>4. ASSUME NEW e \in Devices, e # m.from
        PROVE  DeviceRight(e)'
    <3>1. reply \notin Firsts(e) \cup Acks(e)
      BY <2>1, <2>4 DEF Firsts, Acks
    <3>2. \A n \in Firsts(e) \cup Acks(e) : net'[n] <= net[n]
      BY <1>0, <2>2, <3>1, Mails
    <3> QED BY <1>0, <1>2, <1>6, <1>14, <3>2, FewerMails
  <2>5. ASSUME NEW e \in Devices, e = m.from
        PROVE  DeviceRight(e)'
    <3>0. Firsts(e)' = Firsts(e) /\ Acks(e)' = Acks(e) /\ DeviceRight(e)
      BY <1>14 DEF Firsts, Acks
    <3>1. CASE m.type = "registerTFA"
      <4>1. m \in Firsts(e) /\ m \notin Acks(e) /\ reply \in Firsts(e)
            /\ reply \notin Acks(e)
        BY <2>1, <2>5, <3>1 DEF Firsts, Acks
      <4>2. dev[e] \notin {"off", "acking"}
        BY <1>1, <1>2, <3>0, <4>1 DEF DeviceRight
      <4>3. CASE dev[e] = "registering"
        <5>1. /\ net[m] = 1 /\ \A n \in Firsts(e) : n # m => ~ net[n] > 0
              /\ \A n \in Acks(e) : net[n] = 0
          BY <1>2, <3>0, <4>1, <4>3 DEF DeviceRight
        <5>2. /\ \A n \in Acks(e) : net'[n] = 0
              /\ \A n \in Firsts(e) : net'[n] > 0 => n = reply /\ net'[n] = 1
          BY <1>0, <2>1, <2>2, <4>1, <5>1, Mails
        <5> QED BY <1>2, <3>0, <4>3, <5>2 DEF DeviceRight
      <4>4. CASE dev[e] = "serving"
        BY <1>2, <1>6, <3>0, <4>4 DEF DeviceRight
      <4> QED BY <1>0, <1>2, <4>2, <4>3, <4>4 DEF DeviceRight
    <3>2. CASE m.type = "ackRegTFA"
      <4>1. m \in Acks(e) /\ m \notin Firsts(e)
        BY <1>1, <2>5, <3>2 DEF Firsts, Acks
      <4>2. dev[e] \notin {"off", "registering"}
        BY <1>2, <3>0, <4>1 DEF DeviceRight
      <4>3. Stored(e)'
        BY <1>6, <2>5, <3>2
      <4>4. dev[e] = "acking" => \A n \in Firsts(e) : net'[n] > 0 => n \in FromServer
        BY <1>0, <2>1, <2>2, <3>0, Mails DEF DeviceRight
      <4> QED BY <1>2, <3>0, <4>2, <4>3, <4>4 DEF DeviceRight
    <3> QED BY <1>6, <3>1, <3>2
  <2> QED BY <2>4, <2>5
<1>7. CASE handleRegisterTfa(m)
  <2>1. clientStore' = clientStore /\ \A e \in Devices : Stored(e) => Stored(e)'
    BY <1>7 DEF handleRegisterTfa, Stored
  <2> QED BY <1>1, <1>5, <1>6, <1>7, <2>1 DEF handleRegisterTfa
<1>8. CASE RegistrationAnswer(m)
  <2>1. tfaUser \in Users
    BY <1>8 DEF RegInv, TypeOK, RegistrationAnswer
  <2>2. CASE m.type = "ackRegTFA"
    <3>1. m.user = Owner[m.from] /\ m.from \in Devices
      BY <1>2, <2>2 DEF RegInv, AcksOwned
    <3>2. (\A e \in Devices : Stored(e) => Stored(e)') /\ Stored(m.from)'
      BY <1>0, <1>1, <1>8, <2>2, <3>1, StillStored
      DEF RegistrationAnswer, registerClient, Stored
    <3> QED BY <1>6, <1>8, <2>1, <2>2, <3>2 DEF RegistrationAnswer
  <2>3. CASE m.type # "ackRegTFA"
    BY <1>1, <1>5, <1>8, <2>1, <2>3 DEF RegistrationAnswer
  <2> QED BY <2>2, <2>3
<1>9. CASE Ignore(m)
  <2>1. \A n \in Message : net'[n] <= net[n]
    BY <1>0, <1>1, <1>9, ReceiveTraffic DEF Ignore
  <2> QED BY <1>0, <1>4, <1>9, <2>1 DEF Ignore, server
<1>10. CASE handlePushTfa(m)
  <2>1. clientStore' = clientStore /\ askedAbout # {}
    BY <1>3, <1>10 DEF handlePushTfa
  <2>2. CASE Receive(m)
    <3>1. \A n \in Message : net'[n] <= net[n]
      BY <1>0, <1>1, <2>2, ReceiveTraffic
    <3> QED BY <1>0, <1>4, <2>1, <3>1
  <2>3. CASE /\ clientStore[m.user] # <<>>
             /\ Exchange(m, Down("pushTFA", m.user, Head(clientStore[m.user])))
    <3>1. Head(clientStore[m.user]) \in Peers
      BY <1>0, <1>1, <2>3, Stores
    <3> QED BY <1>1, <1>5, <2>1, <2>3, <3>1
  <2> QED BY <1>10, <2>2, <2>3 DEF handlePushTfa, getClient
<1>11. CASE PushAnswer(m)
  <2>1. tfaUser \in Users /\ tfaPeer \in Peers /\ askedAbout # {}
    BY <1>3, <1>11 DEF PushAnswer, RegInv, TypeOK
  <2>2. ~ mistaken' => clientStore' = clientStore
    BY <1>0, <1>11, <2>1, SameHead DEF PushAnswer, overwriteClient, getClient, RegInv,
       TypeOK
  <2>3. CASE Receive(m)
    <3>1. \A n \in Message : net'[n] <= net[n]
      BY <1>0, <1>1, <2>3, ReceiveTraffic
    <3> QED BY <1>0, <1>4, <2>1, <2>2, <3>1
  <2>4. CASE Exchange(m, Down("responseAuth", tfaUser, tfaPeer))
    BY <1>5, <2>1, <2>2, <2>4
  <2> QED BY <1>11, <2>3, <2>4 DEF PushAnswer
<1> QED BY <1>7, <1>8, <1>9, <1>10, <1>11

LEMMA OthersServe ==
  ASSUME RegInv, ServeInv,
         \/ RegistrationTimeout \/ Refused \/ Lose \/ Drop
         \/ \E u \in Users : sendPushRequest(u)
         \/ \E m \in FromServer : Confirmed(m)
  PROVE  ServeInv'
<1>0. /\ TypeOK /\ TypeOK' /\ net \in Traffic /\ FromServer \subseteq Message
      /\ \A n \in Message : net[n] \in Nat /\ net'[n] \in Nat
  BY OthersTyped, Typed, Envelopes DEF RegInv, TypeOK, Traffic
<1>1. /\ dev' = dev /\ clientStore' = clientStore
      /\ mistaken => mistaken'
      /\ askedAbout \subseteq askedAbout' /\ (askedAbout' = {} => askedAbout = {})
  <2>1. mistaken => mistaken'
    BY Zenon
    DEF RegistrationTimeout, Refused, Lose, Drop, sendPushRequest, Confirmed
  <2> QED BY <2>1
       DEF RegistrationTimeout, Refused, Lose, Drop, sendPushRequest, Confirmed, server,
           lodi
<1>2. \A n \in Message : net'[n] > net[n] =>
        \/ n \in FromServer /\ n.type = "tfaFailure"
        \/ n \in ToServer /\ n.type = "requestAuth" /\ askedAbout' # {}
  <2>1. CASE RegistrationTimeout
    <3> DEFINE reply == Down("tfaFailure", tfaUser, tfaPeer)
    <3>1. reply \in FromServer /\ reply.type = "tfaFailure"
      BY <1>0, <2>1, Envelopes DEF RegistrationTimeout, TypeOK, Down
    <3>2. \A n \in Message : n # reply => net'[n] = net[n]
      BY <1>0, <2>1, <3>1, SendTraffic DEF RegistrationTimeout
    <3> QED BY <1>0, <3>1, <3>2
  <2>2. ASSUME NEW m \in Message, Receive(m)
        PROVE  \A n \in Message : ~ net'[n] > net[n]
    BY <1>0, <2>2, ReceiveTraffic
  <2>3. CASE net' = net
    BY <1>0, <2>3
  <2>4. ASSUME NEW u \in Users, sendPushRequest(u)
        PROVE  \A n \in Message : net'[n] > net[n] =>
                 n \in ToServer /\ n.type = "requestAuth" /\ askedAbout' # {}
    <3> DEFINE request == Up("requestAuth", u, Lodi)
    <3>1. request \in ToServer /\ request.type = "requestAuth" /\ request \in Message
      BY Envelopes DEF Up
    <3>2. \A n \in Message : n # request => net'[n] = net[n]
      BY <1>0, <2>4, <3>1, SendTraffic DEF sendPushRequest
    <3>3. askedAbout' # {}
      BY <2>4 DEF sendPushRequest
    <3> QED BY <1>0, <3>1, <3>2, <3>3
  <2> QED BY <1>0, <2>1, <2>2, <2>3, <2>4 DEF Refused, Lose, Drop, Confirmed
<1>3. askedAbout' = {} => NoPushMail'
  <2> SUFFICES ASSUME askedAbout' = {}, NEW m \in FromServer, net'[m] > 0
               PROVE  m.type \in {"confirmTFA", "tfaFailure"}
    BY DEF NoPushMail
  <2>1. net[m] > 0 \/ net'[m] > net[m]
    BY <1>0
  <2> QED BY <1>0, <1>1, <1>2, <2>1, Directions DEF ServeInv, NoPushMail
<1>4. \A e \in Devices : \A n \in Firsts(e) \cup Acks(e) : net'[n] <= net[n]
  BY <1>0, <1>2, Mails, Directions DEF Firsts, Acks
<1>5. \A e \in Devices : Stored(e) => Stored(e)'
  BY <1>1 DEF Stored
<1>6. askedAbout' = {} \/ ~ mistaken' => \A e \in Devices : DeviceRight(e)
  BY <1>1 DEF ServeInv
<1>7. askedAbout' = {} \/ ~ mistaken' => \A e \in Devices : DeviceRight(e)'
  BY <1>0, <1>1, <1>4, <1>5, <1>6, FewerMails
<1> QED BY <1>3, <1>7 DEF ServeInv

LEMMA StepServes == RegInv /\ Addressed /\ ServeInv /\ [Next]_vars => ServeInv'
<1> SUFFICES ASSUME RegInv, Addressed, ServeInv, [Next]_vars
             PROVE  ServeInv'
  OBVIOUS
<1>1. CASE TfaStep
  BY <1>1, TfaServes DEF TfaStep
<1>2. ASSUME NEW d \in Devices,
             Register(d) \/ DeviceStep(d) \/ GiveUp(d) \/ SwitchOff(d)
      PROVE  ServeInv'
  <2>1. \E m : m \in FromServer
    BY Envelopes
  <2> QED BY <1>2, <2>1, DeviceServes DEF DeviceStep
<1>3. CASE \/ RegistrationTimeout \/ LodiStep \/ Refused \/ Lose \/ Drop
           \/ \E u \in Users : sendPushRequest(u)
  BY <1>3, OthersServe DEF LodiStep
<1>4. CASE UNCHANGED vars
  BY <1>4 DEF vars, ServeInv, NoPushMail, DeviceRight, Stored, Firsts, Acks
<1> QED BY <1>1, <1>2, <1>3, <1>4 DEF Next

LEMMA ServeInit == Init => RegInv /\ Addressed /\ ServeInv
<1>1. Init => TypeOK
  BY ConfirmationInit
<1>2. Init => \A m \in Message : net[m] = 0
  BY DEF Init, NoMessage
<1>3. Init => PushAsked /\ AcksOwned /\ HandlesOwned /\ Addressed
  BY <1>2, Envelopes DEF Init, PushAsked, AcksOwned, HandlesOwned, Addressed
<1>4. Init => NoPushMail /\ \A d \in Devices : DeviceRight(d)
  BY <1>2, Mails, Envelopes DEF Init, NoPushMail, DeviceRight
<1> QED BY <1>1, <1>3, <1>4 DEF RegInv, ServeInv

\* As long as no login was asked about, a device that serves is stored with
\* its user, however the registrations of any devices overlap, whatever is
\* lost or late and however early time limits strike: the only confirmation a
\* device can take for the last one is sent after its address was stored
\* (registerTFAClient, handleRegisterTfa).
THEOREM ServingDevicesStored == Spec => []ServingIsStored
<1>1. RegInv /\ ServeInv => ServingIsStored
  BY DEF ServeInv, DeviceRight, Stored, ServingIsStored
<1>2. RegInv => TypeOK
  BY DEF RegInv
<1> QED BY <1>1, <1>2, ServeInit, StepOwned, StepAddressed, StepServes, PTL DEF Spec
----------------------------------------------------------------------------
(* Logins, until a datagram is taken for another one.                       *)

\* The oldest address of a user, where pushes go, is that of a device of the
\* user.
HeadsOwned ==
  \A u \in Users : clientStore[u] # <<>> =>
    getClient(u) \in Devices /\ Owner[getClient(u)] = u

\* The Lodi server is sent nothing but confirmations.
ToLodi ==
  \A m \in FromServer : net[m] > 0 /\ m.to = Lodi => m.type = "responseAuth"

\* A datagram of the login that is asked about, at the place it belongs to.
Bears(m) ==
  /\ asking # NoUser
  /\ \/ m = Up("requestAuth", asking, Lodi)
     \/ /\ tfa = "push" /\ tfaUser = asking
        /\ \/ m = Down("pushTFA", asking, getClient(asking))
           \/ /\ m = Up("ackPushTFA", asking, getClient(asking))
              /\ getClient(asking) \in answered
     \/ /\ m = Down("responseAuth", asking, Lodi)
        /\ \E d \in answered : Owner[d] = asking

\* A login has at most one datagram under way.
OneToken ==
  \A m \in LoginMail : net[m] > 0 =>
    Bears(m) /\ net[m] = 1 /\ \A n \in LoginMail : net[n] > 0 => n = m

\* It has one as long as none was lost, or its device is gone.
Held ==
  ~ mailLost /\ asking # NoUser /\ (\E d \in ready : Owner[d] = asking) =>
    /\ clientStore[asking] # <<>>
    /\ (\E m \in LoginMail : net[m] > 0) \/ (PushedGone /\ tfaUser = asking)

Undisturbed == HeadsOwned /\ ToLodi /\ OneToken /\ Held
LoginInv == ~ mistaken => Undisturbed

LEMMA LoginKinds ==
  /\ LoginMail \subseteq Message
  /\ \A type \in {"requestAuth", "ackPushTFA"}, u \in Users, p \in Peers :
       Up(type, u, p) \in LoginMail
  /\ \A type \in {"pushTFA", "responseAuth"}, u \in Users, p \in Peers :
       Down(type, u, p) \in LoginMail
  /\ \A type \in {"registerTFA", "ackRegTFA"}, u \in Users, p \in Peers :
       Up(type, u, p) \in Message \ LoginMail
  /\ \A type \in {"confirmTFA", "tfaFailure"}, u \in Users, p \in Peers :
       Down(type, u, p) \in Message \ LoginMail
<1>1. \A type \in {"registerTFA", "ackRegTFA", "ackPushTFA", "requestAuth"},
         u \in Users, p \in Peers :
        Up(type, u, p) \in Message /\ Up(type, u, p).type = type
  BY Envelopes DEF Up
<1>2. \A type \in {"confirmTFA", "pushTFA", "tfaFailure", "responseAuth"},
         u \in Users, p \in Peers :
        Down(type, u, p) \in Message /\ Down(type, u, p).type = type
  BY Envelopes DEF Down
<1> QED BY <1>1, <1>2 DEF LoginMail

LEMMA Counts ==
  ASSUME TypeOK
  PROVE  net \in Traffic /\ \A m \in Message : net[m] \in Nat
BY DEF TypeOK, Traffic

\* What is no part of a login and not for the Lodi server.
Aside(m) == m \in Message \ LoginMail /\ (m \in FromServer => m.to # Lodi)

LEMMA OtherMail ==
  ASSUME TypeOK, ToLodi, NEW m, NEW reply,
         \/ net' = net
         \/ m \in Message \ LoginMail /\ Receive(m)
         \/ Aside(reply) /\ Send(reply)
         \/ /\ m \in Message \ LoginMail /\ Aside(reply) /\ m # reply
            /\ Exchange(m, reply)
  PROVE  ToLodi' /\ \A n \in LoginMail : net'[n] = net[n]
<1>1. FromServer \subseteq Message /\ LoginMail \subseteq Message
  BY LoginKinds, Envelopes
<1>2. /\ \A n \in LoginMail : net'[n] = net[n]
      /\ \A n \in Message : net'[n] > 0 => net[n] > 0 \/ (n = reply /\ Aside(reply))
  <2>1. CASE m \in Message \ LoginMail /\ Receive(m)
    BY <1>1, <2>1, Counts, ReceiveTraffic
  <2>2. CASE Aside(reply) /\ Send(reply)
    BY <1>1, <2>2, Counts, SendTraffic DEF Aside
  <2>3. CASE /\ m \in Message \ LoginMail /\ Aside(reply) /\ m # reply
             /\ Exchange(m, reply)
    BY <1>1, <2>3, Counts, ExchangeTraffic DEF Aside
  <2> QED BY <2>1, <2>2, <2>3
<1> QED BY <1>1, <1>2 DEF ToLodi, Aside

\* Steps that leave the datagrams of the login alone.
LEMMA LoginKept ==
  ASSUME TypeOK, HeadsOwned, OneToken, Held,
         asking' = asking, ready' = ready, answered' = answered,
         mailLost => mailLost',
         tfa = "push" => tfa' = "push" /\ tfaUser' = tfaUser,
         \A u \in Users : clientStore[u] # <<>> =>
           clientStore'[u] # <<>> /\ Head(clientStore'[u]) = Head(clientStore[u]),
         \A d \in Devices : dev[d] = "dead" => dev'[d] = "dead",
         \A m \in LoginMail : net'[m] = net[m]
  PROVE  OneToken' /\ Held'
<1>1. asking # NoUser => asking \in Users
  BY DEF TypeOK
<1>2. tfa = "push" => tfaUser \in Users /\ clientStore[tfaUser] # <<>>
  BY DEF TypeOK
<1>3. \A m \in LoginMail : Bears(m) => Bears(m)'
  BY <1>1, <1>2 DEF Bears, getClient, Up, Down
<1>4. OneToken'
  BY <1>3 DEF OneToken, LoginMail
<1>5. PushedGone => PushedGone'
  BY <1>2 DEF PushedGone, HeadsOwned, getClient
<1>6. tfa = "push" => tfaUser' = tfaUser
  OBVIOUS
<1>7. ~ mailLost' => ~ mailLost
  OBVIOUS
<1>8. Held'
  <2> SUFFICES ASSUME ~ mailLost', asking # NoUser, \E d \in ready : Owner[d] = asking
               PROVE  /\ clientStore'[asking] # <<>>
                      /\ \/ \E m \in LoginMail : net'[m] > 0
                         \/ PushedGone' /\ tfaUser' = asking
    BY DEF Held, LoginMail
  <2>1. /\ clientStore[asking] # <<>>
        /\ (\E m \in LoginMail : net[m] > 0) \/ (PushedGone /\ tfaUser = asking)
    BY <1>7 DEF Held
  <2>2. PushedGone => tfa = "push"
    BY DEF PushedGone
  <2> QED BY <1>1, <1>5, <1>6, <2>1, <2>2
<1> QED BY <1>4, <1>8

\* A datagram of the login is answered by the next one.
LEMMA TokenMoved ==
  ASSUME TypeOK, OneToken, NEW m \in LoginMail, NEW reply \in LoginMail, m # reply,
         Exchange(m, reply)
  PROVE  /\ Bears(m) /\ net'[reply] = 1
         /\ \A n \in LoginMail : n # reply => net'[n] = 0
         /\ \A n \in Message \ LoginMail : net'[n] = net[n]
<1>1. /\ net[m] > 0 /\ net'[m] = net[m] - 1 /\ net'[reply] = net[reply] + 1
      /\ \A n \in Message : n \notin {m, reply} => net'[n] = net[n]
  BY Counts, LoginKinds, ExchangeTraffic
<1>2. Bears(m) /\ net[m] = 1 /\ \A n \in LoginMail : net[n] > 0 => n = m
  BY <1>1 DEF OneToken
<1>3. \A n \in LoginMail : n # m => net[n] = 0
  BY <1>2, Counts, LoginKinds
<1> QED BY <1>1, <1>2, <1>3, LoginKinds

LEMMA TokenTaken ==
  ASSUME TypeOK, OneToken, NEW m \in LoginMail, Receive(m)
  PROVE  /\ Bears(m) /\ \A n \in LoginMail : net'[n] = 0
         /\ \A n \in Message \ LoginMail : net'[n] = net[n]
<1>1. /\ net[m] > 0 /\ net'[m] = net[m] - 1
      /\ \A n \in Message : n # m => net'[n] = net[n]
  BY Counts, LoginKinds, ReceiveTraffic
<1>2. Bears(m) /\ net[m] = 1 /\ \A n \in LoginMail : net[n] > 0 => n = m
  BY <1>1 DEF OneToken
<1>3. \A n \in LoginMail : n # m => net[n] = 0
  BY <1>2, Counts, LoginKinds
<1> QED BY <1>1, <1>2, <1>3, LoginKinds

LEMMA RegistrationSide ==
  ASSUME RegInv, Addressed, Undisturbed, NEW d \in Devices, NEW m \in FromServer,
         ~ mistaken',
         \/ Register(d) \/ FirstAnswer(d, m) \/ SecondAnswer(d, m)
         \/ GiveUp(d) \/ SwitchOff(d)
  PROVE  Undisturbed'
<1>1. /\ m \in Message /\ Owner[d] \in Users
      /\ \A u \in Users, type \in {"registerTFA", "ackRegTFA", "ackPushTFA"} :
           m # Up(type, u, d)
  BY Envelopes, Directions DEF Message
<1>2. /\ Aside(Up("registerTFA", Owner[d], d))
      /\ Aside(Up("ackRegTFA", Owner[d], d))
  BY <1>1, LoginKinds, Envelopes, Directions DEF Aside
<1>3. FirstAnswer(d, m) \/ SecondAnswer(d, m) => m \in Message \ LoginMail
  <2> SUFFICES ASSUME FirstAnswer(d, m) \/ SecondAnswer(d, m)
               PROVE  m \in Message \ LoginMail
    OBVIOUS
  <2>1. net[m] > 0 /\ m.to = d /\ m.type # "pushTFA"
    BY DEF FirstAnswer, SecondAnswer, Receive, Exchange
  <2>2. m.type # "responseAuth"
    BY <2>1, AddressAssumption DEF Addressed
  <2> QED BY <1>1, <2>1, <2>2 DEF LoginMail, FromServer
<1>4. ToLodi' /\ \A n \in LoginMail : net'[n] = net[n]
  <2>0. TypeOK /\ ToLodi
    BY DEF RegInv, Undisturbed
  <2>1. CASE Register(d)
    BY <1>2, <2>0, <2>1, OtherMail DEF Register
  <2>2. CASE m \in Message \ LoginMail /\ Receive(m)
    BY <2>0, <2>2, OtherMail
  <2>3. CASE m \in Message \ LoginMail /\ Exchange(m, Up("ackRegTFA", Owner[d], d))
    BY <1>1, <1>2, <2>0, <2>3, OtherMail
  <2>4. CASE net' = net
    BY <2>0, <2>4, OtherMail
  <2> QED BY <1>3, <2>1, <2>2, <2>3, <2>4
       DEF FirstAnswer, SecondAnswer, GiveUp, SwitchOff
<1>5. /\ asking' = asking /\ ready' = ready /\ answered' = answered
      /\ mailLost' = mailLost /\ tfa' = tfa /\ tfaUser' = tfaUser
      /\ clientStore' = clientStore
  BY DEF Register, FirstAnswer, SecondAnswer, GiveUp, SwitchOff, lodi, server
<1>6. \A e \in Devices : dev[e] = "dead" => dev'[e] = "dead"
  BY DEF Register, FirstAnswer, SecondAnswer, GiveUp, SwitchOff, RegInv, TypeOK
<1>7. OneToken' /\ Held'
  BY <1>4, <1>5, <1>6, LoginKept DEF Undisturbed, RegInv
<1> QED BY <1>4, <1>5, <1>7 DEF Undisturbed, HeadsOwned, getClient

\* A device that serves confirms the push of its user's login.
LEMMA ConfirmSide ==
  ASSUME RegInv, Addressed, Undisturbed, NEW d \in Devices, NEW m \in FromServer,
         ~ mistaken', Confirm(d, m)
  PROVE  Undisturbed'
<1>0. TypeOK /\ m \in Message /\ m.user \in Users
  BY Envelopes DEF RegInv, FromServer
<1>1. m.type = "pushTFA" /\ m.to = d /\ net[m] > 0
  BY DEF Confirm, Exchange
<1>2. m \in LoginMail
  BY <1>0, <1>1 DEF LoginMail
<1>3. /\ asking \in Users /\ tfa = "push" /\ tfaUser = asking
      /\ m = Down("pushTFA", asking, getClient(asking))
  <2>1. Bears(m)
    BY <1>1, <1>2 DEF Undisturbed, OneToken
  <2> QED BY <1>0, <1>1, <2>1 DEF Bears, Up, Down, TypeOK
<1>4. m.user = asking /\ d = getClient(asking)
  BY <1>1, <1>3 DEF Down
<1> DEFINE ack == Up("ackPushTFA", asking, d)
<1>5. ack \in LoginMail /\ ack \in ToServer /\ m # ack
  BY <1>3, LoginKinds, Envelopes, Directions
<1>6. /\ net'[ack] = 1 /\ \A n \in LoginMail : n # ack => net'[n] = 0
      /\ \A n \in Message \ LoginMail : net'[n] = net[n]
  BY <1>0, <1>2, <1>4, <1>5, TokenMoved DEF Confirm, Undisturbed
<1>7. /\ asking' = asking /\ tfa' = tfa /\ tfaUser' = tfaUser /\ dev' = dev
      /\ clientStore' = clientStore /\ answered' = answered \cup {d}
      /\ ready' = ready
  BY <1>1, <1>4 DEF Confirm, server
<1>8. mailLost' = mailLost
  BY DEF Confirm
<1>9. HeadsOwned'
  BY <1>7 DEF Undisturbed, HeadsOwned, getClient
<1>10. ToLodi'
  <2>1. \A n \in FromServer : net'[n] > 0 => net[n] > 0
    BY <1>5, <1>6, Envelopes, Directions
  <2> QED BY <2>1 DEF Undisturbed, ToLodi
<1>11. OneToken'
  <2>1. \A n \in LoginMail : n = ack => Bears(n)'
    BY <1>3, <1>4, <1>7, AddressAssumption DEF Bears, getClient, Up
  <2>2. \A n \in LoginMail : net'[n] > 0 => n = ack
    BY <1>6
  <2> QED BY <1>6, <2>1, <2>2 DEF OneToken, LoginMail
<1>12. Held'
  <2>1. clientStore[asking] # <<>>
    BY <1>0, <1>3 DEF TypeOK
  <2>2. \E n \in LoginMail : net'[n] > 0
    BY <1>5, <1>6
  <2> QED BY <1>7, <2>1, <2>2 DEF Held, LoginMail
<1> QED BY <1>9, <1>10, <1>11, <1>12 DEF Undisturbed

LEMMA DeviceLogins ==
  ASSUME RegInv, Addressed, LoginInv, NEW d \in Devices, NEW m \in FromServer,
         \/ Register(d) \/ FirstAnswer(d, m) \/ SecondAnswer(d, m)
         \/ GiveUp(d) \/ Confirm(d, m) \/ SwitchOff(d)
  PROVE  LoginInv'
<1>1. mistaken => mistaken'
  BY Zenon DEF Register, FirstAnswer, SecondAnswer, GiveUp, Confirm, SwitchOff
<1>2. ASSUME ~ mistaken'
      PROVE  Undisturbed'
  <2>1. Undisturbed
    BY <1>1, <1>2, Zenon DEF LoginInv
  <2> QED BY <1>2, <2>1, RegistrationSide, ConfirmSide
<1> QED BY <1>2, Zenon DEF LoginInv

\* Registrations at the TFA server.
LEMMA handleRegisterTfaLogins ==
  ASSUME RegInv, Addressed, Undisturbed, NEW m \in ToServer, handleRegisterTfa(m)
  PROVE  Undisturbed'
<1>1. /\ m \in Message \ LoginMail /\ m.user \in Users /\ m.from \in Devices
      /\ TypeOK /\ ToLodi
  BY Envelopes
  DEF handleRegisterTfa, Exchange, Addressed, ToServer, Peers, LoginMail, RegInv,
      Undisturbed
<1>2. \A type \in {"confirmTFA", "tfaFailure"} :
        Aside(Down(type, m.user, m.from)) /\ m # Down(type, m.user, m.from)
  <2>1. \A type \in {"confirmTFA", "tfaFailure"} :
          /\ Down(type, m.user, m.from) \in FromServer
          /\ Down(type, m.user, m.from) \in Message \ LoginMail
          /\ Down(type, m.user, m.from).to = m.from
    BY <1>1, LoginKinds, Envelopes DEF Down
  <2> QED BY <1>1, <2>1, Directions, AddressAssumption DEF Aside
<1>3. ToLodi' /\ \A n \in LoginMail : net'[n] = net[n]
  BY <1>1, <1>2, OtherMail DEF handleRegisterTfa
<1>4. /\ asking' = asking /\ ready' = ready /\ answered' = answered
      /\ mailLost' = mailLost /\ tfa = "main" /\ dev' = dev
      /\ clientStore' = clientStore
  BY DEF handleRegisterTfa, lodi
<1>5. OneToken' /\ Held'
  BY <1>1, <1>3, <1>4, LoginKept DEF Undisturbed
<1> QED BY <1>3, <1>4, <1>5 DEF Undisturbed, HeadsOwned, getClient

\* An address stored behind others leaves the oldest one; the first one is
\* that of a device of the user.
LEMMA HeadsAppended ==
  ASSUME TypeOK, HeadsOwned, NEW u \in Users, NEW d \in Devices, Owner[d] = u,
         clientStore' = [clientStore EXCEPT ![u] = Append(@, d)]
  PROVE  /\ HeadsOwned'
         /\ \A v \in Users : clientStore[v] # <<>> =>
              clientStore'[v] # <<>> /\ Head(clientStore'[v]) = Head(clientStore[v])
<1>1. /\ clientStore[u] \in Seq(Peers) /\ d \in Peers
      /\ clientStore'[u] = Append(clientStore[u], d)
      /\ \A v \in Users : v # u => clientStore'[v] = clientStore[v]
  BY Envelopes DEF TypeOK
<1>2. /\ clientStore'[u] # <<>>
      /\ clientStore[u] = <<>> => Head(clientStore'[u]) = d
      /\ clientStore[u] # <<>> => Head(clientStore'[u]) = Head(clientStore[u])
  BY <1>1, AppendProperties, HeadTailProperties, LenProperties
<1> QED BY <1>1, <1>2 DEF HeadsOwned, getClient

LEMMA RegistrationAnswerLogins ==
  ASSUME RegInv, Addressed, Undisturbed, NEW m \in ToServer, ~ mistaken',
         RegistrationAnswer(m)
  PROVE  Undisturbed'
<1>0. /\ TypeOK /\ ToLodi /\ HeadsOwned /\ OneToken /\ Held
      /\ m \in Message /\ m.user \in Users
  BY Envelopes DEF RegInv, Undisturbed, ToServer
<1>1. net[m] > 0 /\ tfa = "registration" /\ tfa' = "main" /\ tfaUser \in Users
  BY <1>0 DEF RegistrationAnswer, Exchange, TypeOK
<1>2. m.type # "requestAuth" /\ m.from \in Devices
  BY <1>1 DEF RegistrationAnswer, Addressed, ToServer, Peers
<1>3. m \notin LoginMail
  <2> SUFFICES ASSUME m \in LoginMail PROVE FALSE
    OBVIOUS
  <2>1. Bears(m)
    BY <1>0, <1>1 DEF OneToken
  <2> QED BY <1>0, <1>1, <1>2, <2>1, Envelopes, Directions
       DEF Bears, Up, Down, TypeOK, Peers
<1>4. \A type \in {"confirmTFA", "tfaFailure"} :
        Aside(Down(type, tfaUser, m.from)) /\ m # Down(type, tfaUser, m.from)
  <2>1. \A type \in {"confirmTFA", "tfaFailure"} :
          /\ Down(type, tfaUser, m.from) \in FromServer
          /\ Down(type, tfaUser, m.from) \in Message \ LoginMail
          /\ Down(type, tfaUser, m.from).to = m.from
    BY <1>1, <1>2, LoginKinds, Envelopes DEF Down
  <2> QED BY <1>2, <2>1, Directions, AddressAssumption DEF Aside
<1>5. ToLodi' /\ \A n \in LoginMail : net'[n] = net[n]
  BY <1>0, <1>3, <1>4, OtherMail DEF RegistrationAnswer
<1>6. /\ asking' = asking /\ ready' = ready /\ answered' = answered
      /\ mailLost' = mailLost /\ dev' = dev
  BY DEF RegistrationAnswer, lodi
<1>7. /\ HeadsOwned'
      /\ \A v \in Users : clientStore[v] # <<>> =>
           clientStore'[v] # <<>> /\ Head(clientStore'[v]) = Head(clientStore[v])
  <2>1. CASE clientStore' = clientStore
    BY <1>0, <2>1 DEF HeadsOwned, getClient
  <2>2. CASE /\ m.type = "ackRegTFA"
             /\ clientStore' = [clientStore EXCEPT ![m.user] = Append(@, m.from)]
    <3>1. m.user = Owner[m.from]
      BY <1>1, <2>2 DEF RegInv, AcksOwned
    <3> QED BY <1>0, <1>2, <2>2, <3>1, HeadsAppended
  <2> QED BY <2>1, <2>2 DEF RegistrationAnswer, registerClient
<1>8. OneToken' /\ Held'
  BY <1>0, <1>1, <1>5, <1>6, <1>7, LoginKept
<1> QED BY <1>5, <1>7, <1>8 DEF Undisturbed

\* A login request that is taken: it was of the user asked about.
LEMMA handlePushTfaLogins ==
  ASSUME RegInv, Addressed, Undisturbed, NEW m \in ToServer, handlePushTfa(m)
  PROVE  Undisturbed'
<1>0. /\ TypeOK /\ ToLodi /\ HeadsOwned /\ OneToken /\ Held
      /\ m \in Message /\ m.user \in Users
  BY Envelopes DEF RegInv, Undisturbed, ToServer
<1>1. /\ net[m] > 0 /\ m \in LoginMail /\ m.type = "requestAuth" /\ tfa = "main"
  BY <1>0 DEF handlePushTfa, Exchange, Receive, LoginMail
<1>2. /\ asking \in Users /\ m = Up("requestAuth", asking, Lodi) /\ m.user = asking
      /\ asking # NoUser
  <2>1. Bears(m)
    BY <1>0, <1>1 DEF OneToken
  <2> QED BY <1>0, <1>1, <2>1 DEF Bears, Up, Down, TypeOK
<1>3. /\ asking' = asking /\ ready' = ready /\ answered' = answered
      /\ mailLost' = mailLost /\ dev' = dev /\ clientStore' = clientStore
  BY DEF handlePushTfa, lodi
<1>4. HeadsOwned'
  BY <1>0, <1>3 DEF HeadsOwned, getClient
<1>5. CASE clientStore[asking] = <<>> /\ Receive(m)
  <2>1. /\ \A n \in LoginMail : net'[n] = 0
        /\ \A n \in Message \ LoginMail : net'[n] = net[n]
    BY <1>0, <1>1, <1>5, TokenTaken
  <2>2. OneToken'
    BY <2>1 DEF OneToken, LoginMail
  <2>3. Held'
    BY <1>0, <1>3, <1>5, <2>1 DEF Held, LoginMail
  <2>4. ToLodi'
    BY <1>0, <2>1, Envelopes DEF ToLodi
  <2> QED BY <1>4, <2>2, <2>3, <2>4 DEF Undisturbed
<1>6. CASE /\ clientStore[asking] # <<>> /\ tfa' = "push" /\ tfaUser' = asking
           /\ Exchange(m, Down("pushTFA", asking, getClient(asking)))
  <2> DEFINE push == Down("pushTFA", asking, getClient(asking))
  <2>1. getClient(asking) \in Devices
    BY <1>0, <1>2, <1>6 DEF HeadsOwned
  <2>2. push \in LoginMail /\ push \in FromServer /\ m # push /\ push.to # Lodi
    BY <1>2, <2>1, LoginKinds, Envelopes, Directions, AddressAssumption DEF Down
  <2>3. /\ net'[push] = 1 /\ \A n \in LoginMail : n # push => net'[n] = 0
        /\ \A n \in Message \ LoginMail : net'[n] = net[n]
    BY <1>0, <1>1, <1>6, <2>2, TokenMoved
  <2>4. \A n \in LoginMail : n = push => Bears(n)'
    BY <1>2, <1>3, <1>6 DEF Bears, getClient, Down
  <2>5. OneToken'
    <3>1. \A n \in LoginMail : net'[n] > 0 => n = push
      BY <2>3
    <3> QED BY <2>3, <2>4, <3>1 DEF OneToken, LoginMail
  <2>6. Held'
    <3>1. \E n \in LoginMail : net'[n] > 0
      BY <2>2, <2>3
    <3> QED BY <1>3, <1>6, <3>1 DEF Held, LoginMail
  <2>7. ToLodi'
    <3>1. \A n \in FromServer : net'[n] > 0 => net[n] > 0 \/ n = push
      BY <2>3, Envelopes
    <3> QED BY <1>0, <2>2, <3>1 DEF ToLodi
  <2> QED BY <1>4, <2>5, <2>6, <2>7 DEF Undisturbed
<1> QED BY <1>2, <1>5, <1>6 DEF handlePushTfa

\* The answer of the device asked becomes the confirmation.
LEMMA PushAnswerLogins ==
  ASSUME RegInv, Addressed, Undisturbed, NEW m \in ToServer, ~ mistaken',
         PushAnswer(m)
  PROVE  Undisturbed'
<1>0. /\ TypeOK /\ ToLodi /\ HeadsOwned /\ OneToken /\ Held /\ m \in Message
  BY Envelopes DEF RegInv, Undisturbed
<1>1. /\ m.type = "ackPushTFA" /\ m.user = tfaUser /\ m.from = getClient(tfaUser)
      /\ Exchange(m, Down("responseAuth", tfaUser, tfaPeer))
      /\ tfaUser \in Users /\ tfaPeer = Lodi /\ clientStore[tfaUser] # <<>>
  BY <1>0 DEF PushAnswer, Addressed, TypeOK
<1>2. net[m] > 0 /\ m \in LoginMail
  BY <1>0, <1>1 DEF Exchange, LoginMail
<1>3. tfaUser = asking /\ asking # NoUser /\ getClient(asking) \in answered
  <2>1. Bears(m)
    BY <1>0, <1>2 DEF OneToken
  <2> QED BY <1>1, <2>1 DEF Bears, Up, Down
<1> DEFINE answer == Down("responseAuth", asking, Lodi)
<1>4. /\ answer \in LoginMail /\ answer \in FromServer /\ m # answer
      /\ answer.type = "responseAuth"
  BY <1>1, <1>3, LoginKinds, Envelopes, Directions DEF Down
<1>5. /\ net'[answer] = 1 /\ \A n \in LoginMail : n # answer => net'[n] = 0
      /\ \A n \in Message \ LoginMail : net'[n] = net[n]
  BY <1>0, <1>1, <1>2, <1>3, <1>4, TokenMoved
<1>6. /\ asking' = asking /\ ready' = ready /\ answered' = answered
      /\ mailLost' = mailLost /\ dev' = dev
  BY DEF PushAnswer, lodi
<1>7. clientStore' = clientStore
  BY <1>0, <1>1, SameHead DEF PushAnswer, overwriteClient, getClient
<1>8. HeadsOwned'
  BY <1>0, <1>7 DEF HeadsOwned, getClient
<1>9. OneToken'
  <2>1. \A n \in LoginMail : n = answer => Bears(n)'
    BY <1>0, <1>1, <1>3, <1>6 DEF Bears, HeadsOwned
  <2>2. \A n \in LoginMail : net'[n] > 0 => n = answer
    BY <1>5
  <2> QED BY <1>5, <2>1, <2>2 DEF OneToken, LoginMail
<1>10. Held'
  <2>1. \E n \in LoginMail : net'[n] > 0
    BY <1>4, <1>5
  <2> QED BY <1>1, <1>3, <1>6, <1>7, <2>1 DEF Held, LoginMail
<1>11. ToLodi'
  <2>1. \A n \in FromServer : net'[n] > 0 => net[n] > 0 \/ n = answer
    BY <1>5, Envelopes
  <2> QED BY <1>0, <1>4, <2>1 DEF ToLodi
<1> QED BY <1>8, <1>9, <1>10, <1>11 DEF Undisturbed

LEMMA TfaLogins ==
  ASSUME RegInv, Addressed, LoginInv, NEW m \in ToServer,
         \/ handleRegisterTfa(m) \/ RegistrationAnswer(m)
         \/ handlePushTfa(m) \/ PushAnswer(m) \/ Ignore(m)
  PROVE  LoginInv'
<1>1. mistaken => mistaken'
  BY Zenon DEF handleRegisterTfa, RegistrationAnswer, handlePushTfa, PushAnswer, Ignore
<1>2. ASSUME ~ mistaken'
      PROVE  Undisturbed'
  <2>1. Undisturbed
    BY <1>1, <1>2, Zenon DEF LoginInv
  <2>2. CASE Ignore(m)
    <3>0. /\ TypeOK /\ ToLodi /\ HeadsOwned /\ OneToken /\ Held /\ m \in Message
      BY <2>1, Envelopes DEF RegInv, Undisturbed
    <3>1. /\ net[m] > 0 /\ tfa = "main" /\ m.type # "requestAuth" /\ Receive(m)
          /\ m.type \in {"ackRegTFA", "ackPushTFA"}
      BY <2>2 DEF Ignore, Receive
    <3>2. m \notin LoginMail
      <4> SUFFICES ASSUME m \in LoginMail PROVE FALSE
        OBVIOUS
      <4>1. Bears(m)
        BY <3>0, <3>1 DEF OneToken
      <4> QED BY <3>1, <4>1 DEF Bears, Up, Down
    <3>3. ToLodi' /\ \A n \in LoginMail : net'[n] = net[n]
      BY <3>0, <3>1, <3>2, OtherMail
    <3>4. /\ asking' = asking /\ ready' = ready /\ answered' = answered
          /\ mailLost' = mailLost /\ dev' = dev /\ clientStore' = clientStore
      BY <2>2 DEF Ignore, lodi, server
    <3>5. OneToken' /\ Held'
      BY <3>0, <3>1, <3>3, <3>4, LoginKept
    <3> QED BY <3>0, <3>3, <3>4, <3>5 DEF Undisturbed, HeadsOwned, getClient
  <2> QED BY <1>2, <2>1, <2>2, handleRegisterTfaLogins, RegistrationAnswerLogins,
             handlePushTfaLogins, PushAnswerLogins
<1> QED BY <1>2, Zenon DEF LoginInv

\* A login starts with its request; a device that serves then has been stored.
LEMMA RequestLogins ==
  ASSUME RegInv, ServeInv, Undisturbed, ~ mistaken, NEW u \in Users,
         sendPushRequest(u)
  PROVE  Undisturbed'
<1> DEFINE request == Up("requestAuth", u, Lodi)
<1>0. /\ TypeOK /\ ToLodi /\ HeadsOwned /\ OneToken /\ Held
      /\ u # NoUser /\ Lodi \in Peers
  BY Envelopes, AddressAssumption DEF RegInv, Undisturbed
<1>1. \A n \in LoginMail : net[n] = 0
  <2>1. \A n \in LoginMail : ~ net[n] > 0
    BY <1>0 DEF sendPushRequest, OneToken, Bears
  <2> QED BY <1>0, <2>1, Counts, LoginKinds
<1>2. /\ request \in LoginMail /\ request \in ToServer /\ request \in Message
      /\ request \notin FromServer
  BY <1>0, LoginKinds, Envelopes, Directions
<1>3. /\ net'[request] = net[request] + 1
      /\ \A n \in Message : n # request => net'[n] = net[n]
  BY <1>0, <1>2, Counts, SendTraffic DEF sendPushRequest
<1>4. /\ asking' = u /\ clientStore' = clientStore
      /\ ready' = {d \in Devices : dev[d] = "serving"}
  BY DEF sendPushRequest, server
<1>5. net'[request] = 1 /\ \A n \in LoginMail : n # request => net'[n] = 0
  BY <1>1, <1>2, <1>3, LoginKinds
<1>6. HeadsOwned'
  BY <1>0, <1>4 DEF HeadsOwned, getClient
<1>7. ToLodi'
  BY <1>0, <1>2, <1>3, Envelopes DEF ToLodi
<1>8. OneToken'
  <2>1. \A n \in LoginMail : n = request => Bears(n)'
    BY <1>0, <1>4 DEF Bears
  <2>2. \A n \in LoginMail : net'[n] > 0 => n = request
    BY <1>5
  <2> QED BY <1>5, <2>1, <2>2 DEF OneToken, LoginMail
<1>9. Held'
  <2> SUFFICES ASSUME NEW d \in ready', Owner[d] = u
               PROVE  clientStore'[u] # <<>> /\ \E m \in LoginMail : net'[m] > 0
    BY <1>4 DEF Held, LoginMail
  <2>1. d \in Devices /\ Contains(clientStore[u], d)
    BY <1>4 DEF ServeInv, DeviceRight, Stored
  <2>2. clientStore[u] # <<>>
    BY <2>1 DEF Contains
  <2> QED BY <1>2, <1>4, <1>5, <2>2
<1> QED BY <1>6, <1>7, <1>8, <1>9 DEF Undisturbed

\* A datagram that is lost, or dropped by a device that is gone.
LEMMA LossLogins ==
  ASSUME RegInv, Addressed, Undisturbed, Lose \/ Drop
  PROVE  Undisturbed'
<1>0. /\ TypeOK /\ ToLodi /\ HeadsOwned /\ OneToken /\ Held
  BY DEF RegInv, Undisturbed
<1>1. /\ asking' = asking /\ ready' = ready /\ answered' = answered
      /\ dev' = dev /\ clientStore' = clientStore /\ tfa' = tfa /\ tfaUser' = tfaUser
  BY DEF Lose, Drop, server, lodi
<1>2. mailLost => mailLost'
  BY Zenon DEF Lose, Drop
<1>3. HeadsOwned'
  BY <1>0, <1>1 DEF HeadsOwned, getClient
<1>4. ASSUME NEW m \in Message \ LoginMail, Receive(m)
      PROVE  Undisturbed'
  <2>1. ToLodi' /\ \A n \in LoginMail : net'[n] = net[n]
    BY <1>0, <1>4, OtherMail
  <2>2. OneToken' /\ Held'
    BY <1>0, <1>1, <1>2, <2>1, LoginKept
  <2> QED BY <1>3, <2>1, <2>2 DEF Undisturbed
<1>5. ASSUME NEW m \in LoginMail, Receive(m),
             \/ mailLost'
             \/ m \in FromServer /\ m.to \in Devices /\ dev[m.to] = "dead"
      PROVE  Undisturbed'
  <2>1. /\ Bears(m) /\ \A n \in LoginMail : net'[n] = 0
        /\ \A n \in Message \ LoginMail : net'[n] = net[n]
    BY <1>0, <1>5, TokenTaken
  <2>2. OneToken'
    BY <2>1 DEF OneToken, LoginMail
  <2>3. ToLodi'
    BY <1>0, <2>1, Envelopes DEF ToLodi
  <2>4. CASE mailLost'
    <3>1. Held'
      BY <2>4, Zenon DEF Held
    <3> QED BY <1>3, <2>2, <2>3, <3>1 DEF Undisturbed
  <2>5. CASE m \in FromServer /\ m.to \in Devices /\ dev[m.to] = "dead"
    <3>1. asking \in Users /\ asking # NoUser
      BY <1>0, <2>1 DEF Bears, TypeOK
    <3>2. m.type \notin {"requestAuth", "ackPushTFA"}
      BY <2>5 DEF FromServer
    <3>3. /\ tfa = "push" /\ tfaUser = asking
          /\ m = Down("pushTFA", asking, getClient(asking))
      BY <2>1, <2>5, <3>2, AddressAssumption DEF Bears, Up, Down
    <3>4. clientStore[asking] # <<>> /\ dev[getClient(asking)] = "dead"
      BY <1>0, <2>5, <3>1, <3>3 DEF TypeOK, Down
    <3>5. Held'
      BY <1>1, <3>3, <3>4 DEF Held, PushedGone, getClient
    <3> QED BY <1>3, <2>2, <2>3, <3>5 DEF Undisturbed
  <2> QED BY <1>5, <2>4, <2>5
<1>6. CASE Lose
  <2>1. PICK m \in Message : Receive(m) /\ mailLost' = (mailLost \/ m \in LoginMail)
    BY <1>6 DEF Lose
  <2>2. m \in LoginMail => mailLost'
    BY <2>1, Zenon
  <2> QED BY <1>4, <1>5, <2>1, <2>2
<1>7. CASE Drop
  <2>1. PICK m \in FromServer : /\ m.to \in Devices /\ dev[m.to] = "dead"
                                /\ Receive(m)
    BY <1>7 DEF Drop
  <2> QED BY <1>4, <1>5, <2>1, Envelopes
<1> QED BY <1>6, <1>7

LEMMA OthersLogins ==
  ASSUME RegInv, Addressed, ServeInv, LoginInv,
         \/ RegistrationTimeout \/ Refused \/ Lose \/ Drop
         \/ \E u \in Users : sendPushRequest(u)
         \/ \E m \in FromServer : Confirmed(m)
  PROVE  LoginInv'
<1>1. mistaken => mistaken'
  BY Zenon DEF RegistrationTimeout, Refused, Lose, Drop, sendPushRequest, Confirmed
<1> SUFFICES ASSUME ~ mistaken' PROVE Undisturbed'
  BY Zenon DEF LoginInv
<1>2. ~ mistaken
  BY <1>1
<1>3. Undisturbed /\ TypeOK /\ ToLodi /\ HeadsOwned /\ OneToken /\ Held
  BY <1>2 DEF LoginInv, Undisturbed, RegInv
<1>4. CASE RegistrationTimeout
  <2> DEFINE reply == Down("tfaFailure", tfaUser, tfaPeer)
  <2>1. tfaUser \in Users /\ tfaPeer \in Devices
    BY <1>3, <1>4 DEF RegistrationTimeout, TypeOK, Addressed
  <2>2. Aside(reply)
    <3>1. reply \in Message \ LoginMail /\ reply.to = tfaPeer
      BY <2>1, LoginKinds, Envelopes DEF Down
    <3> QED BY <2>1, <3>1, AddressAssumption DEF Aside
  <2>3. ToLodi' /\ \A n \in LoginMail : net'[n] = net[n]
    BY <1>3, <1>4, <2>2, OtherMail DEF RegistrationTimeout
  <2>4. /\ asking' = asking /\ ready' = ready /\ answered' = answered
        /\ mailLost' = mailLost /\ dev' = dev /\ clientStore' = clientStore
        /\ tfa # "push"
    BY <1>4 DEF RegistrationTimeout, lodi
  <2>5. OneToken' /\ Held'
    BY <1>3, <2>3, <2>4, LoginKept
  <2> QED BY <1>3, <2>3, <2>4, <2>5 DEF Undisturbed, HeadsOwned, getClient
<1>5. CASE Refused
  <2>1. \A n \in LoginMail : net[n] = 0
    BY <1>5, Zenon DEF Refused, Silent
  <2>2. /\ net' = net /\ clientStore' = clientStore
    BY <1>5 DEF Refused, server
  <2>3. asking' = NoUser
    BY <1>5 DEF Refused
  <2>4. OneToken'
    BY <2>1, <2>2 DEF OneToken, LoginMail
  <2>5. Held'
    BY <2>3 DEF Held
  <2> QED BY <1>3, <2>2, <2>4, <2>5 DEF Undisturbed, HeadsOwned, getClient, ToLodi
<1>6. ASSUME NEW m \in FromServer, Confirmed(m)
      PROVE  Undisturbed'
  <2>1. net[m] > 0 /\ m.to = Lodi /\ Receive(m) /\ m \in Message
    BY <1>6, Envelopes DEF Confirmed, Receive
  <2>2. m \in LoginMail
    BY <1>3, <2>1 DEF ToLodi, LoginMail
  <2>3. /\ \A n \in LoginMail : net'[n] = 0
        /\ \A n \in Message \ LoginMail : net'[n] = net[n]
    BY <1>3, <2>1, <2>2, TokenTaken
  <2>4. asking' = NoUser /\ clientStore' = clientStore
    BY <1>6 DEF Confirmed, server
  <2>5. OneToken'
    BY <2>3 DEF OneToken, LoginMail
  <2>6. Held'
    BY <2>4 DEF Held
  <2>7. ToLodi'
    BY <1>3, <2>3, Envelopes DEF ToLodi
  <2> QED BY <1>3, <2>4, <2>5, <2>6, <2>7 DEF Undisturbed, HeadsOwned, getClient
<1> QED BY <1>2, <1>3, <1>4, <1>5, <1>6, RequestLogins, LossLogins

LoginsInv == RegInv /\ Addressed /\ ServeInv /\ LoginInv

LEMMA LoginsInit == Init => LoginsInv
<1>1. Init => \A m \in Message : net[m] = 0
  BY DEF Init, NoMessage
<1>2. Init => HeadsOwned /\ ToLodi /\ OneToken /\ Held
  BY <1>1, LoginKinds, Envelopes
  DEF Init, HeadsOwned, ToLodi, OneToken, Held
<1> QED BY <1>2, ServeInit DEF LoginsInv, LoginInv, Undisturbed

LEMMA StepLogins == LoginsInv /\ [Next]_vars => LoginsInv'
<1> SUFFICES ASSUME LoginsInv, [Next]_vars PROVE LoginsInv'
  OBVIOUS
<1>0. RegInv /\ Addressed /\ ServeInv /\ LoginInv /\ TypeOK
  BY DEF LoginsInv, RegInv
<1>1. RegInv' /\ Addressed' /\ ServeInv'
  BY <1>0, StepOwned, StepAddressed, StepServes
<1>2. CASE TfaStep
  BY <1>0, <1>1, <1>2, TfaLogins DEF TfaStep, LoginsInv
<1>3. ASSUME NEW d \in Devices,
             Register(d) \/ DeviceStep(d) \/ GiveUp(d) \/ SwitchOff(d)
      PROVE  LoginsInv'
  <2>1. \E m : m \in FromServer
    BY Envelopes
  <2> QED BY <1>0, <1>1, <1>3, <2>1, DeviceLogins DEF DeviceStep, LoginsInv
<1>4. CASE \/ RegistrationTimeout \/ LodiStep \/ Refused \/ Lose \/ Drop
           \/ \E u \in Users : sendPushRequest(u)
  BY <1>0, <1>1, <1>4, OthersLogins DEF LodiStep, LoginsInv
<1>5. CASE UNCHANGED vars
  <2>1. LoginInv'
    BY <1>0, <1>5
    DEF vars, LoginInv, Undisturbed, HeadsOwned, ToLodi, OneToken, Held, Bears,
        PushedGone, getClient, Up, Down, LoginMail
  <2> QED BY <1>1, <2>1 DEF LoginsInv
<1> QED BY <1>2, <1>3, <1>4, <1>5 DEF Next

\* Until a datagram is taken for another one, or a login is refused with its
\* datagrams still under way, a login is confirmed only once a device of its
\* user has confirmed a push for it, although nobody looks at whom a datagram
\* is from: at most one datagram of a login is under way, and it is the one
\* its receiver waits for (sendPushRequest, handlePushTfa, handleTFAPush).
\* Losses, time limits, devices that go away and registrations in between do
\* not change that.
THEOREM ConfirmationsAreDevices == Spec => ConfirmedByDevice
<1>1. LoginsInv /\ [Next]_vars =>
        [\A u \in Users :
           /\ asking = u /\ asking' = NoUser /\ ~ mistaken
           /\ \E m \in FromServer : Confirmed(m)
           => \E d \in answered : Owner[d] = u]_vars
  <2> SUFFICES ASSUME LoginsInv, ~ mistaken, NEW m \in FromServer, Confirmed(m)
               PROVE  \E d \in answered : Owner[d] = asking
    OBVIOUS
  <2>1. OneToken /\ ToLodi
    BY DEF LoginsInv, LoginInv, Undisturbed
  <2>2. net[m] > 0 /\ m.to = Lodi /\ m.type = "responseAuth"
    BY <2>1 DEF Confirmed, Receive, ToLodi
  <2>3. m \in LoginMail
    BY <2>2, Envelopes DEF LoginMail
  <2>4. Bears(m)
    BY <2>1, <2>2, <2>3 DEF OneToken
  <2> QED BY <2>2, <2>4 DEF Bears, Up, Down
<1> QED BY <1>1, LoginsInit, StepLogins, PTL DEF Spec, ConfirmedByDevice

\* Until then a login of a user with a device that served when it was asked
\* about is refused for three reasons only: its datagrams are late, one was
\* lost, or the push went to the user's oldest device and that one is gone
\* (sendPushRequest, handlePushTfa).
THEOREM DevicesConfirmLogins == Spec => RegisteredAreConfirmed
<1>1. LoginsInv /\ [Next]_vars =>
        [Refused /\ ~ mistaken /\ (\E d \in ready : Owner[d] = asking)
         => \/ ~ Silent(LoginMail) \/ mailLost
            \/ PushedGone /\ tfaUser = asking]_vars
  <2> SUFFICES ASSUME LoginsInv, ~ mistaken, Refused, Silent(LoginMail), ~ mailLost,
                      \E d \in ready : Owner[d] = asking
               PROVE  PushedGone /\ tfaUser = asking
    OBVIOUS
  <2>1. Held
    BY DEF LoginsInv, LoginInv, Undisturbed
  <2>2. asking # NoUser
    BY DEF Refused
  <2>3. \A m \in LoginMail : ~ net[m] > 0
    BY DEF Silent
  <2> QED BY <2>1, <2>2, <2>3 DEF Held
<1> QED BY <1>1, LoginsInit, StepLogins, PTL DEF Spec, RegisteredAreConfirmed
=============================================================================
