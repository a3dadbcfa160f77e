--------------------------- MODULE KeyLookupProofs ---------------------------
(***************************************************************************)
(* Key lookups for any number of users, keys, registrations and requesting *)
(* servers, with losses, time limits and late answers wherever they come.  *)
(***************************************************************************)
EXTENDS KeyLookup, SequenceTheorems, TLAPS

\* A datagram under way between a server and the PKE server is about the user
\* it looks up, or about one whose lookup it ended with datagrams under way.
AboutUsers ==
  \A r \in Requesters : \A m \in Message : m.peer = r /\ net[m] > 0 =>
    m.user = looking[r] \/ m.user \in stray[r]

\* An answer under way holds the key that every later one will hold.
AnswersRight ==
  \A m \in Message : m.type = "responsePublicKey" /\ net[m] > 0 =>
    keyStore[m.user] # <<>> /\ m.key = Head(keyStore[m.user])

FoundNamed == \A r \in Requesters : found[r].key # NoKey => found[r].user \in Users

KeyInv == TypeOK /\ AboutUsers /\ AnswersRight /\ FoundNamed /\ RightKey

(* What the operations of Datagrams do to the traffic. *)

\* A send adds nothing but its message.
LEMMA SendTraffic ==
  ASSUME net \in Traffic, NEW m \in Message, Send(m)
  PROVE  /\ net' \in Traffic /\ net'[m] = net[m] + 1
         /\ \A n \in Message : n # m => net'[n] = net[n]
BY DEF Send, Traffic

\* A receipt adds nothing.
LEMMA ReceiveTraffic ==
  ASSUME net \in Traffic, NEW m \in Message, Receive(m)
  PROVE  /\ net' \in Traffic /\ net[m] > 0 /\ net'[m] = net[m] - 1
         /\ \A n \in Message : n # m => net'[n] = net[n]
BY DEF Receive, Traffic

\* An exchange adds nothing but the reply.
LEMMA ExchangeTraffic ==
  ASSUME net \in Traffic, NEW m \in Message, NEW reply \in Message,
         m # reply, Exchange(m, reply)
  PROVE  /\ net' \in Traffic /\ net[m] > 0 /\ net'[m] = net[m] - 1
         /\ net'[reply] = net[reply] + 1
         /\ \A n \in Message : n \notin {m, reply} => net'[n] = net[n]
BY DEF Exchange, Traffic

LEMMA KeyTyped ==
  ASSUME TypeOK
  PROVE  /\ net \in Traffic /\ lost \in Nat /\ lookups \in Nat
         /\ \A u \in Users : keyStore[u] \in Seq(Keys)
         /\ \A m \in Message : net[m] \in Nat
BY DEF TypeOK, Traffic

\* The messages, and who may send and receive which.
LEMMA Letters ==
  /\ \A u \in Users, k \in Keys, a \in Attempts :
       /\ Msg("registerKey", u, k, a) \in Request
       /\ Msg("ackRegisterKey", u, k, a) \in Response
  /\ \A u \in Users, r \in Requesters :
       /\ Msg("requestKey", u, NoKey, r) \in Request
       /\ Msg("ackPKFail", u, NoKey, r) \in Response
  /\ \A u \in Users, k \in Keys, r \in Requesters :
       Msg("responsePublicKey", u, k, r) \in Response
  /\ Request \subseteq Message /\ Response \subseteq Message
  /\ \A m \in Request, n \in Response : m # n
  /\ \A m \in Message :
       /\ m.user \in Users
       /\ m.type = "registerKey" => m.key \in Keys /\ m.peer \in Attempts
       /\ m.type = "requestKey" => m.peer \in Requesters
       /\ m \in Response /\ m.peer \in Requesters =>
            \/ m.type = "ackPKFail"
            \/ m.type = "responsePublicKey" /\ m.key \in Keys
  /\ \A a \in Attempts, r \in Requesters : a # r
BY NamesAssumption DEF Msg, Letter, Request, Response, Message

LEMMA KeyInit == Init => KeyInv
<1> SUFFICES ASSUME Init PROVE KeyInv
  OBVIOUS
<1>1. <<>> \in Seq(Keys)
  OBVIOUS
<1>2. TypeOK
  BY <1>1 DEF Init, TypeOK, Traffic, NoMessage
<1>3. \A m \in Message : net[m] = 0
  BY DEF Init, NoMessage
<1> QED BY <1>2, <1>3
     DEF Init, KeyInv, AboutUsers, AnswersRight, FoundNamed, RightKey

\* Adding a key to the end of a list leaves the one lookups find.
LEMMA KeyAdded ==
  ASSUME TypeOK, NEW u \in Users, NEW k \in Keys,
         keyStore' = [keyStore EXCEPT ![u] = Append(@, k)]
  PROVE  /\ keyStore' \in [Users -> Seq(Keys)]
         /\ keyStore'[u] # <<>>
         /\ \A v \in Users : keyStore[v] # <<>> =>
              keyStore'[v] # <<>> /\ Head(keyStore'[v]) = Head(keyStore[v])
<1>1. keyStore[u] \in Seq(Keys)
  BY KeyTyped
<1>2. Append(keyStore[u], k) \in Seq(Keys) /\ Append(keyStore[u], k) # <<>>
  BY <1>1, AppendProperties
<1>3. keyStore[u] # <<>> => Head(Append(keyStore[u], k)) = Head(keyStore[u])
  BY <1>1, HeadTailAppend
<1> QED BY <1>2, <1>3 DEF TypeOK

----------------------------------------------------------------------------
(* Steps that add nothing to a server's traffic.                           *)

LEMMA LessTraffic ==
  ASSUME KeyInv, TypeOK', looking' = looking, keyStore' = keyStore,
         found' = found, stray' = stray,
         \A m \in Message : net'[m] > 0 =>
           net[m] >= net'[m] \/ m.type \in {"registerKey", "ackRegisterKey"}
  PROVE  KeyInv'
<1>1. \A m \in Message : m.peer \in Requesters =>
        m.type \notin {"registerKey", "ackRegisterKey"}
  BY NamesAssumption DEF Message, Request, Response, Letter
<1>2. \A m \in Message : net[m] \in Nat /\ net'[m] \in Nat
  BY KeyTyped DEF KeyInv, TypeOK, Traffic
<1>3. AboutUsers'
  BY <1>1, <1>2 DEF KeyInv, AboutUsers
<1>4. AnswersRight'
  BY <1>2 DEF KeyInv, AnswersRight
<1> QED BY <1>3, <1>4 DEF KeyInv, FoundNamed, RightKey

LEMMA ClientKeeps ==
  ASSUME KeyInv, NEW a \in Attempts,
         registerPublicKey(a) \/ ClientStep(a)
  PROVE  KeyInv'
<1>1. CASE registerPublicKey(a)
  <2> DEFINE m == Msg("registerKey", Owner[a], KeyOf[a], a)
  <2>1. m \in Message /\ m.type = "registerKey"
    BY Letters, AttemptAssumption DEF Msg
  <2>2. TypeOK'
    BY <1>1, <2>1, KeyTyped, SendTraffic
    DEF registerPublicKey, KeyInv, TypeOK, servers
  <2>3. \A n \in Message : n # m => net'[n] = net[n]
    BY <1>1, <2>1, KeyTyped, SendTraffic DEF registerPublicKey, KeyInv
  <2>4. \A n \in Message : net[n] \in Nat
    BY KeyTyped DEF KeyInv
  <2> QED BY <1>1, <2>1, <2>2, <2>3, <2>4, LessTraffic DEF registerPublicKey, servers
<1>2. ASSUME NEW m \in Response, Registered(a, m)
      PROVE  KeyInv'
  <2>1. m \in Message
    BY Letters
  <2>2. TypeOK'
    BY <1>2, <2>1, KeyTyped, ReceiveTraffic
    DEF Registered, KeyInv, TypeOK, servers
  <2>3. \A n \in Message : net[n] >= net'[n]
    BY <1>2, <2>1, KeyTyped, ReceiveTraffic DEF Registered, KeyInv
  <2> QED BY <1>2, <2>2, <2>3, LessTraffic DEF Registered, servers
<1>3. CASE NotRegistered(a)
  <2>1. TypeOK'
    BY <1>3 DEF NotRegistered, KeyInv, TypeOK, servers
  <2>2. \A n \in Message : net[n] \in Nat
    BY KeyTyped DEF KeyInv
  <2> QED BY <1>3, <2>1, <2>2, LessTraffic DEF NotRegistered, servers
<1> QED BY <1>1, <1>2, <1>3 DEF ClientStep

LEMMA LoseKeeps ==
  ASSUME KeyInv, Lose
  PROVE  KeyInv'
<1>1. PICK m \in Message : Receive(m)
  BY DEF Lose
<1>2. TypeOK'
  BY <1>1, KeyTyped, ReceiveTraffic DEF Lose, KeyInv, TypeOK, servers
<1>3. \A n \in Message : net[n] >= net'[n]
  BY <1>1, KeyTyped, ReceiveTraffic DEF KeyInv
<1> QED BY <1>2, <1>3, LessTraffic DEF Lose, servers

----------------------------------------------------------------------------
(* The PKE server.                                                         *)

LEMMA registerKeyKeeps ==
  ASSUME KeyInv, NEW m \in Request, registerKey(m)
  PROVE  KeyInv'
<1> DEFINE reply == Msg("ackRegisterKey", m.user, m.key, m.peer)
<1>1. /\ m \in Message /\ m.type = "registerKey"
      /\ m.user \in Users /\ m.key \in Keys /\ m.peer \in Attempts
  BY Letters DEF registerKey
<1>2. reply \in Message /\ m # reply /\ reply.peer = m.peer
      /\ reply.type = "ackRegisterKey"
  BY <1>1, Letters DEF Msg
<1>3. /\ net' \in Traffic
      /\ \A n \in Message : n # reply => net[n] >= net'[n]
  BY <1>1, <1>2, KeyTyped, ExchangeTraffic DEF registerKey, KeyInv
<1>4. /\ keyStore' \in [Users -> Seq(Keys)]
      /\ \A v \in Users : keyStore[v] # <<>> =>
           keyStore'[v] # <<>> /\ Head(keyStore'[v]) = Head(keyStore[v])
  BY <1>1, KeyAdded DEF registerKey, addKey, KeyInv
<1>5. TypeOK'
  BY <1>3, <1>4 DEF registerKey, KeyInv, TypeOK, servers
<1>6. \A n \in Message : net[n] \in Nat /\ net'[n] \in Nat
  BY <1>3, KeyTyped DEF KeyInv, Traffic
<1>7. AboutUsers'
  <2>1. \A n \in Message : n.peer \in Requesters => n # reply
    BY <1>1, <1>2, Letters
  <2> QED BY <1>3, <1>6, <2>1 DEF KeyInv, AboutUsers, registerKey, servers
<1>8. AnswersRight'
  BY <1>2, <1>3, <1>4, <1>6, Letters DEF KeyInv, AnswersRight
<1>9. RightKey'
  <2>1. found' = found /\ stray' = stray
    BY DEF registerKey, servers
  <2>2. \A r \in Requesters : stray[r] \subseteq Users
    BY DEF KeyInv, TypeOK
  <2> SUFFICES ASSUME NEW r \in Requesters, found[r].key # NoKey
               PROVE  \E u \in {found[r].user} \cup stray[r] :
                        keyStore'[u] # <<>> /\ found[r].key = Head(keyStore'[u])
    BY <2>1 DEF RightKey
  <2>3. PICK u \in {found[r].user} \cup stray[r] :
          keyStore[u] # <<>> /\ found[r].key = Head(keyStore[u])
    BY DEF KeyInv, RightKey
  <2>4. u \in Users
    BY <2>2 DEF KeyInv, FoundNamed
  <2> QED BY <1>4, <2>3, <2>4
<1> QED BY <1>5, <1>7, <1>8, <1>9 DEF KeyInv, FoundNamed, registerKey, servers

LEMMA requestKeyKeeps ==
  ASSUME KeyInv, NEW m \in Request, requestKey(m)
  PROVE  KeyInv'
<1>1. m \in Message /\ m.user \in Users /\ m.peer \in Requesters
  BY Letters DEF requestKey
<1>2. PICK reply \in Response :
        /\ m # reply /\ reply.peer = m.peer /\ reply.user = m.user
        /\ Exchange(m, reply)
        /\ reply.type = "responsePublicKey" =>
             keyStore[m.user] # <<>> /\ reply.key = Head(keyStore[m.user])
  <2>1. CASE keyStore[m.user] = <<>>
    <3> DEFINE n == Msg("ackPKFail", m.user, NoKey, m.peer)
    <3>1. n \in Response /\ n.peer = m.peer /\ n.user = m.user
          /\ n.type = "ackPKFail" /\ m # n
      BY <1>1, Letters DEF Msg
    <3> QED BY <2>1, <3>1 DEF requestKey
  <2>2. CASE keyStore[m.user] # <<>>
    <3> DEFINE n == Msg("responsePublicKey", m.user, Head(keyStore[m.user]), m.peer)
    <3>1. Head(keyStore[m.user]) \in Keys
      BY <1>1, <2>2, KeyTyped, HeadTailProperties DEF KeyInv
    <3>2. n \in Response /\ n.peer = m.peer /\ n.user = m.user
          /\ n.key = Head(keyStore[m.user]) /\ m # n
      BY <1>1, <3>1, Letters DEF Msg
    <3> QED BY <2>2, <3>2 DEF requestKey, getKey
  <2> QED BY <2>1, <2>2
<1>3. reply \in Message
  BY Letters
<1>4. /\ net' \in Traffic /\ net[m] > 0 /\ net'[m] = net[m] - 1
      /\ net'[reply] = net[reply] + 1
      /\ \A n \in Message : n \notin {m, reply} => net'[n] = net[n]
  BY <1>1, <1>2, <1>3, KeyTyped, ExchangeTraffic DEF KeyInv
<1>5. \A n \in Message : net[n] \in Nat /\ net'[n] \in Nat
  BY <1>4, KeyTyped DEF KeyInv, Traffic
<1>6. TypeOK'
  BY <1>4 DEF requestKey, KeyInv, TypeOK, servers
<1>7. \A n \in Message : net'[n] > 0 => net[n] > 0 \/ n = reply
  BY <1>1, <1>4, <1>5
<1>8. m.user = looking[m.peer] \/ m.user \in stray[m.peer]
  BY <1>1, <1>4 DEF KeyInv, AboutUsers
<1>10. AboutUsers'
  BY <1>2, <1>7, <1>8 DEF KeyInv, AboutUsers, requestKey, servers
<1>11. AnswersRight'
  <2>1. keyStore' = keyStore
    BY DEF requestKey
  <2> QED BY <1>2, <1>7, <2>1 DEF KeyInv, AnswersRight
<1> QED BY <1>6, <1>10, <1>11
     DEF KeyInv, FoundNamed, RightKey, requestKey, servers

----------------------------------------------------------------------------
(* getPublicKey.                                                           *)

\* What is under way to a server that looks nothing up is about a user whose
\* lookup it ended with datagrams under way.
LEMMA IdleIsStray ==
  ASSUME KeyInv, NEW r \in Requesters, looking[r] = NoUser, NEW m \in Message,
         m.peer = r, net[m] > 0
  PROVE  m.user \in stray[r]
<1>1. m.user \in Users
  BY Letters
<1> QED BY <1>1, NamesAssumption DEF KeyInv, AboutUsers

LEMMA getPublicKeyKeeps ==
  ASSUME KeyInv, NEW r \in Requesters, NEW u \in Users, getPublicKey(r, u)
  PROVE  KeyInv'
<1> DEFINE m == Msg("requestKey", u, NoKey, r)
<1>1. m \in Message /\ m.user = u /\ m.peer = r /\ m.type = "requestKey"
  BY Letters DEF Msg
<1>2. /\ net' \in Traffic /\ net'[m] = net[m] + 1
      /\ \A n \in Message : n # m => net'[n] = net[n]
  BY <1>1, KeyTyped, SendTraffic DEF getPublicKey, KeyInv
<1>3. \A n \in Message : n.peer = r /\ net'[n] > 0 => n = m \/ n.user \in stray[r]
  BY <1>2, IdleIsStray DEF getPublicKey
<1>4. /\ looking'[r] = u
      /\ \A q \in Requesters : q # r => looking'[q] = looking[q]
  BY DEF getPublicKey, KeyInv, TypeOK
<1>5. TypeOK'
  <2>1. Complete(u) \in SUBSET Attempts
    BY DEF Complete
  <2> QED BY <1>2, <2>1 DEF getPublicKey, KeyInv, TypeOK
<1>6. AboutUsers'
  <2> SUFFICES ASSUME NEW q \in Requesters, NEW n \in Message,
                      n.peer = q, net'[n] > 0
               PROVE  n.user = looking'[q] \/ n.user \in stray[q]
    BY DEF AboutUsers, getPublicKey
  <2>1. CASE q = r
    BY <1>1, <1>3, <1>4, <2>1
  <2>2. CASE q # r
    BY <1>1, <1>2, <1>4, <2>2 DEF KeyInv, AboutUsers
  <2> QED BY <2>1, <2>2
<1>7. AnswersRight'
  BY <1>1, <1>2 DEF getPublicKey, KeyInv, AnswersRight
<1> QED BY <1>5, <1>6, <1>7 DEF KeyInv, FoundNamed, RightKey, getPublicKey

\* A lookup that ends leaves behind only what it is marked for.
LEMMA EndKeepsAbout ==
  ASSUME TypeOK, AboutUsers, NEW r \in Requesters, End(r),
         \A n \in Message : net'[n] > 0 => net[n] > 0, net' \in Traffic
  PROVE  AboutUsers'
<1>1. \A q \in Requesters : q # r => looking'[q] = looking[q] /\ stray'[q] = stray[q]
  BY DEF End, TypeOK
<1>2. ASSUME NEW n \in Message, n.peer = r, net'[n] > 0
      PROVE  n.user \in stray'[r]
  <2>1. n.user = looking[r] \/ n.user \in stray[r]
    BY <1>2 DEF AboutUsers
  <2>2. UnderWay(r)'
    BY <1>2 DEF UnderWay, Silent, Traffic
  <2> QED BY <2>1, <2>2 DEF End, TypeOK
<1> QED BY <1>1, <1>2 DEF AboutUsers

LEMMA AnsweredKeeps ==
  ASSUME KeyInv, NEW r \in Requesters, NEW m \in Response, Answered(r, m)
  PROVE  KeyInv'
<1>1. m \in Message /\ m.peer = r /\ looking[r] \in Users
  BY Letters DEF Answered, KeyInv, TypeOK
<1>2. /\ net' \in Traffic /\ net[m] > 0 /\ net'[m] = net[m] - 1
      /\ \A n \in Message : n # m => net'[n] = net[n]
  BY <1>1, KeyTyped, ReceiveTraffic DEF Answered, KeyInv
<1>3. \A n \in Message : net[n] \in Nat /\ net'[n] \in Nat
  BY <1>2, KeyTyped DEF KeyInv, Traffic
<1>4. m.user = looking[r] \/ m.user \in stray[r]
  BY <1>1, <1>2 DEF KeyInv, AboutUsers
<1>5. /\ keyStore' = keyStore
      /\ stray[r] \subseteq stray'[r]
      /\ \A q \in Requesters : q # r => stray'[q] = stray[q]
  BY DEF Answered, End, KeyInv, TypeOK
<1>6. \A q \in Requesters : q # r => looking'[q] = looking[q] /\ found'[q] = found[q]
  BY DEF Answered, End, KeyInv, TypeOK
<1>7. /\ found'[r].user = looking[r]
      /\ found'[r].key = IF m.type = "ackPKFail" THEN NoKey ELSE m.key
  BY DEF Answered, KeyInv, TypeOK
<1>8. m.type = "ackPKFail" \/ (m.type = "responsePublicKey" /\ m.key \in Keys)
  BY <1>1, Letters
<1>9. TypeOK'
  BY <1>1, <1>2, <1>8 DEF Answered, End, KeyInv, TypeOK
<1>10. AboutUsers'
  <2>1. \A n \in Message : net'[n] > 0 => net[n] > 0
    BY <1>2, <1>3
  <2> QED BY <1>2, <2>1, EndKeepsAbout DEF Answered, KeyInv
<1>11. AnswersRight'
  BY <1>1, <1>2, <1>3 DEF Answered, KeyInv, AnswersRight
<1>12. FoundNamed' /\ RightKey'
  <2>1. found'[r].key # NoKey =>
          /\ m.user \in {looking[r]} \cup stray[r] /\ keyStore[m.user] # <<>>
          /\ found'[r].key = Head(keyStore[m.user])
    BY <1>1, <1>2, <1>4, <1>7, <1>8 DEF KeyInv, AnswersRight
  <2>2. FoundNamed'
    BY <1>1, <1>6, <1>7 DEF KeyInv, FoundNamed
  <2>3. RightKey'
    <3> SUFFICES ASSUME NEW q \in Requesters, found'[q].key # NoKey
                 PROVE  \E u \in {found'[q].user} \cup stray'[q] :
                          keyStore[u] # <<>> /\ found'[q].key = Head(keyStore[u])
      BY <1>5 DEF RightKey
    <3>1. CASE q = r
      BY <1>5, <1>7, <2>1, <3>1
    <3>2. CASE q # r
      BY <1>5, <1>6, <3>2 DEF KeyInv, RightKey
    <3> QED BY <3>1, <3>2
  <2> QED BY <2>2, <2>3
<1> QED BY <1>9, <1>10, <1>11, <1>12 DEF KeyInv

LEMMA UnansweredKeeps ==
  ASSUME KeyInv, NEW r \in Requesters, Unanswered(r)
  PROVE  KeyInv'
<1>1. /\ net' = net /\ keyStore' = keyStore /\ found' = found
      /\ looking[r] \in Users
  BY DEF Unanswered, KeyInv, TypeOK
<1>2. \A q \in Requesters : stray[q] \subseteq stray'[q]
  BY DEF Unanswered, End, KeyInv, TypeOK
<1>3. TypeOK'
  BY <1>1 DEF Unanswered, End, KeyInv, TypeOK
<1>4. AboutUsers'
  BY <1>1, <1>3, EndKeepsAbout DEF Unanswered, KeyInv, TypeOK
<1>5. RightKey'
  BY <1>1, <1>2 DEF KeyInv, RightKey
<1> QED BY <1>1, <1>3, <1>4, <1>5 DEF KeyInv, AnswersRight, FoundNamed

LEMMA KeyStep == KeyInv /\ [Next]_vars => KeyInv'
<1> SUFFICES ASSUME KeyInv, [Next]_vars PROVE KeyInv'
  OBVIOUS
<1>1. CASE PkeStep
  BY <1>1, registerKeyKeeps, requestKeyKeeps DEF PkeStep
<1>2. ASSUME NEW a \in Attempts, registerPublicKey(a) \/ ClientStep(a)
      PROVE  KeyInv'
  BY <1>2, ClientKeeps
<1>3. ASSUME NEW r \in Requesters, LookupStep(r)
      PROVE  KeyInv'
  BY <1>3, AnsweredKeeps, UnansweredKeeps DEF LookupStep
<1>4. ASSUME NEW r \in Requesters, NEW u \in Users, getPublicKey(r, u)
      PROVE  KeyInv'
  BY <1>4, getPublicKeyKeeps
<1>5. CASE Lose
  BY <1>5, LoseKeeps
<1>6. CASE UNCHANGED vars
  BY <1>6 DEF vars, KeyInv, TypeOK, AboutUsers, AnswersRight, FoundNamed, RightKey
<1> QED BY <1>1, <1>2, <1>3, <1>4, <1>5, <1>6 DEF Next

\* What a lookup returned is, now and for ever after, the key the PKE server
\* has for the user it asked about, or for one whose lookup by this server
\* ended with datagrams still under way, whatever is lost, late, registered or
\* looked up by others meanwhile (getPublicKey, addKey).
THEOREM LookupsAreRight == Spec => []RightKey
<1>1. KeyInv => RightKey
  BY DEF KeyInv
<1> QED BY <1>1, KeyInit, KeyStep, PTL DEF Spec
----------------------------------------------------------------------------
(* A key that is registered is found.                                      *)

\* A registration under way is that of its client, which has begun it, and one
\* that is acknowledged is stored.
OwnMail ==
  \A m \in Message : m.peer \in Attempts /\ net[m] > 0 =>
    /\ m.user = Owner[m.peer] /\ m.key = KeyOf[m.peer] /\ attempt[m.peer] # "off"
    /\ m \in Response => keyStore[m.user] # <<>>

RegisteredStored ==
  \A a \in Attempts : attempt[a] = "registered" => keyStore[Owner[a]] # <<>>

\* The key that lookups find is one that was offered for its user.
HeadsOwned == \A u \in Users : keyStore[u] # <<>> => Head(keyStore[u]) \in Offered(u)

\* What a lookup was sure of is about its user and in the key store.
SureStored ==
  \A r \in Requesters : looking[r] # NoUser =>
    \A a \in sure[r] : a \in Attempts /\ Owner[a] = looking[r]
                       /\ keyStore[looking[r]] # <<>>

\* No failure is under way to a server that was sure of a key, but for those
\* about users whose lookup it ended before.
NoFailures ==
  \A r \in Requesters, m \in Message :
    m.type = "ackPKFail" /\ m.peer = r /\ net[m] > 0 =>
      sure[r] = {} \/ m.user \in stray[r]

FoundInv == OwnMail /\ RegisteredStored /\ HeadsOwned /\ SureStored /\ NoFailures

\* No registration is unmade.
BegunStay == \A a \in Attempts : attempt[a] # "off" => attempt'[a] # "off"

LEMMA OffersStay ==
  ASSUME BegunStay, NEW u \in Users
  PROVE  Offered(u) \subseteq Offered(u)'
BY DEF BegunStay, Offered

\* Steps of neither server that send nothing.
LEMMA QuietFinds ==
  ASSUME FoundInv, TypeOK, keyStore' = keyStore, looking' = looking, sure' = sure,
         stray' = stray, BegunStay,
         \A m \in Message : net'[m] > 0 => net[m] > 0
  PROVE  OwnMail' /\ HeadsOwned' /\ SureStored' /\ NoFailures'
<1>1. OwnMail'
  BY DEF FoundInv, OwnMail, BegunStay
<1>2. HeadsOwned'
  BY OffersStay DEF FoundInv, HeadsOwned
<1> QED BY <1>1, <1>2 DEF FoundInv, SureStored, NoFailures

LEMMA ClientFinds ==
  ASSUME KeyInv, FoundInv, NEW a \in Attempts,
         registerPublicKey(a) \/ ClientStep(a)
  PROVE  FoundInv'
<1>0. TypeOK /\ net \in Traffic /\ \A n \in Message : net[n] \in Nat
  BY KeyTyped DEF KeyInv
<1>1. CASE registerPublicKey(a)
  <2> DEFINE m == Msg("registerKey", Owner[a], KeyOf[a], a)
  <2>1. /\ m \in Message /\ m \notin Response /\ m.type = "registerKey"
        /\ m.peer = a /\ m.user = Owner[a] /\ m.key = KeyOf[a]
    BY Letters, AttemptAssumption DEF Msg
  <2>2. \A n \in Message : net'[n] > 0 => net[n] > 0 \/ n = m
    BY <1>0, <1>1, <2>1, SendTraffic DEF registerPublicKey
  <2>3. /\ keyStore' = keyStore /\ looking' = looking /\ sure' = sure
        /\ stray' = stray /\ BegunStay /\ attempt'[a] # "off"
        /\ \A b \in Attempts : attempt'[b] = "registered" =>
             attempt[b] = "registered"
    BY <1>0, <1>1 DEF registerPublicKey, servers, TypeOK, BegunStay
  <2>4. OwnMail'
    BY <2>1, <2>2, <2>3 DEF FoundInv, OwnMail, BegunStay
  <2>6. HeadsOwned'
    BY <2>3, OffersStay DEF FoundInv, HeadsOwned
  <2>5. NoFailures'
    BY <2>1, <2>2, <2>3 DEF FoundInv, NoFailures
  <2> QED BY <2>3, <2>4, <2>5, <2>6 DEF FoundInv, RegisteredStored, SureStored
<1>2. ASSUME NEW m \in Response, Registered(a, m)
      PROVE  FoundInv'
  <2>1. m \in Message /\ m.peer = a /\ net[m] > 0
    BY <1>2, Letters DEF Registered, Receive
  <2>2. /\ keyStore' = keyStore /\ looking' = looking /\ sure' = sure
        /\ stray' = stray /\ BegunStay
        /\ \A b \in Attempts : attempt'[b] = "registered" =>
             attempt[b] = "registered" \/ b = a
    BY <1>0, <1>2 DEF Registered, servers, TypeOK, BegunStay
  <2>3. \A n \in Message : net'[n] > 0 => net[n] > 0
    BY <1>0, <1>2, <2>1, ReceiveTraffic DEF Registered
  <2>4. keyStore[Owner[a]] # <<>>
    BY <2>1 DEF FoundInv, OwnMail
  <2>5. RegisteredStored'
    BY <2>2, <2>4 DEF FoundInv, RegisteredStored
  <2> QED BY <1>0, <2>2, <2>3, <2>5, QuietFinds DEF FoundInv
<1>3. CASE NotRegistered(a)
  <2>1. /\ keyStore' = keyStore /\ looking' = looking /\ sure' = sure /\ net' = net
        /\ stray' = stray /\ BegunStay
        /\ \A b \in Attempts : attempt'[b] = "registered" =>
             attempt[b] = "registered"
    BY <1>0, <1>3 DEF NotRegistered, servers, TypeOK, BegunStay
  <2>2. RegisteredStored'
    BY <2>1 DEF FoundInv, RegisteredStored
  <2> QED BY <1>0, <2>1, <2>2, QuietFinds DEF FoundInv
<1> QED BY <1>1, <1>2, <1>3 DEF ClientStep

LEMMA LoseFinds ==
  ASSUME KeyInv, FoundInv, Lose
  PROVE  FoundInv'
<1>0. TypeOK /\ net \in Traffic /\ \A n \in Message : net[n] \in Nat
  BY KeyTyped DEF KeyInv
<1>1. PICK m \in Message : Receive(m)
  BY DEF Lose
<1>2. \A n \in Message : net'[n] > 0 => net[n] > 0
  BY <1>0, <1>1, ReceiveTraffic
<1>3. /\ keyStore' = keyStore /\ looking' = looking /\ sure' = sure
      /\ attempt' = attempt /\ stray' = stray /\ BegunStay
  BY DEF Lose, servers, BegunStay
<1> QED BY <1>0, <1>2, <1>3, QuietFinds DEF FoundInv, RegisteredStored

\* The first key of a user is one that its client registered, and stays.
LEMMA registerKeyFinds ==
  ASSUME KeyInv, FoundInv, NEW m \in Request, registerKey(m)
  PROVE  FoundInv'
<1> DEFINE reply == Msg("ackRegisterKey", m.user, m.key, m.peer)
<1>0. TypeOK /\ net \in Traffic /\ \A n \in Message : net[n] \in Nat
  BY KeyTyped DEF KeyInv
<1>1. /\ m \in Message /\ m.type = "registerKey"
      /\ m.user \in Users /\ m.key \in Keys /\ m.peer \in Attempts
  BY Letters DEF registerKey
<1>2. /\ reply \in Message /\ m # reply /\ reply.peer = m.peer
      /\ reply.user = m.user /\ reply.key = m.key
      /\ reply.type = "ackRegisterKey"
  BY <1>1, Letters DEF Msg
<1>3. /\ net[m] > 0
      /\ \A n \in Message : net'[n] > 0 => net[n] > 0 \/ n = reply
  BY <1>0, <1>1, <1>2, ExchangeTraffic DEF registerKey
<1>4. keyStore' = [keyStore EXCEPT ![m.user] = Append(@, m.key)]
  BY DEF registerKey, addKey
<1>5. /\ keyStore'[m.user] # <<>>
      /\ \A v \in Users : keyStore[v] # <<>> =>
           keyStore'[v] # <<>> /\ Head(keyStore'[v]) = Head(keyStore[v])
  BY <1>0, <1>1, <1>4, KeyAdded
<1>6. m.user = Owner[m.peer] /\ m.key = KeyOf[m.peer] /\ attempt[m.peer] # "off"
  BY <1>1, <1>3 DEF FoundInv, OwnMail
<1>7. attempt' = attempt /\ looking' = looking /\ sure' = sure /\ stray' = stray
      /\ \A u \in Users : Offered(u)' = Offered(u)
  BY DEF registerKey, servers, Offered
<1>8. OwnMail'
  BY <1>1, <1>2, <1>3, <1>5, <1>6, <1>7, Letters DEF FoundInv, OwnMail
<1>9. RegisteredStored'
  BY <1>5, <1>7, AttemptAssumption DEF FoundInv, RegisteredStored
<1>10. HeadsOwned'
  <2> SUFFICES ASSUME NEW u \in Users, keyStore'[u] # <<>>
               PROVE  Head(keyStore'[u]) \in Offered(u)
    BY <1>7 DEF HeadsOwned
  <2>1. CASE keyStore[u] # <<>>
    BY <1>5, <2>1 DEF FoundInv, HeadsOwned
  <2>2. CASE keyStore[u] = <<>>
    <3>1. u = m.user
      BY <1>0, <1>4, <2>2 DEF TypeOK
    <3>2. keyStore'[u] = Append(<<>>, m.key)
      BY <1>0, <1>1, <1>4, <2>2, <3>1 DEF TypeOK
    <3>3. Head(keyStore'[u]) = m.key
      BY <3>2
    <3> QED BY <1>1, <1>6, <3>1, <3>3 DEF Offered
  <2> QED BY <2>1, <2>2
<1>11. SureStored'
  BY <1>0, <1>5, <1>7 DEF FoundInv, SureStored, TypeOK
<1>12. NoFailures'
  BY <1>2, <1>3, <1>7 DEF FoundInv, NoFailures
<1> QED BY <1>8, <1>9, <1>10, <1>11, <1>12 DEF FoundInv

\* A failure is sent only about a user that no lookup is sure of.
LEMMA requestKeyFinds ==
  ASSUME KeyInv, FoundInv, NEW m \in Request, requestKey(m)
  PROVE  FoundInv'
<1>0. TypeOK /\ net \in Traffic /\ \A n \in Message : net[n] \in Nat
  BY KeyTyped DEF KeyInv
<1>1. /\ m \in Message /\ m.user \in Users /\ m.peer \in Requesters
      /\ m.peer \notin Attempts
  BY Letters DEF requestKey
<1>2. net[m] > 0
  BY DEF requestKey, Exchange
<1>3. m.user \in stray[m.peer] \/ (m.user = looking[m.peer] /\ looking[m.peer] # NoUser)
  <2>1. m.user = looking[m.peer] \/ m.user \in stray[m.peer]
    BY <1>1, <1>2 DEF KeyInv, AboutUsers
  <2> QED BY <1>1, <2>1, NamesAssumption
<1>4. PICK reply \in Message :
        /\ m # reply /\ reply.peer = m.peer /\ reply.user = m.user
        /\ Exchange(m, reply)
        /\ reply.type = "ackPKFail" => keyStore[m.user] = <<>>
  <2>1. CASE keyStore[m.user] = <<>>
    <3> DEFINE n == Msg("ackPKFail", m.user, NoKey, m.peer)
    <3>1. n \in Message /\ n.peer = m.peer /\ n.user = m.user /\ m # n
      BY <1>1, Letters DEF Msg
    <3> QED BY <2>1, <3>1 DEF requestKey
  <2>2. CASE keyStore[m.user] # <<>>
    <3> DEFINE n == Msg("responsePublicKey", m.user, Head(keyStore[m.user]), m.peer)
    <3>1. Head(keyStore[m.user]) \in Keys
      BY <1>1, <2>2, KeyTyped, HeadTailProperties DEF KeyInv
    <3>2. n \in Message /\ n.peer = m.peer /\ n.user = m.user /\ m # n
          /\ n.type = "responsePublicKey"
      BY <1>1, <3>1, Letters DEF Msg
    <3> QED BY <2>2, <3>2 DEF requestKey, getKey
  <2> QED BY <2>1, <2>2
<1>5. \A n \in Message : net'[n] > 0 => net[n] > 0 \/ n = reply
  BY <1>0, <1>1, <1>4, ExchangeTraffic
<1>6. /\ keyStore' = keyStore /\ looking' = looking /\ sure' = sure
      /\ attempt' = attempt /\ stray' = stray /\ BegunStay
      /\ \A u \in Users : Offered(u)' = Offered(u)
  BY DEF requestKey, servers, BegunStay, Offered
<1>7. OwnMail'
  BY <1>1, <1>4, <1>5, <1>6 DEF FoundInv, OwnMail
<1>8. NoFailures'
  <2>1. keyStore[m.user] = <<>> => sure[m.peer] = {} \/ m.user \in stray[m.peer]
    BY <1>1, <1>3 DEF FoundInv, SureStored
  <2> QED BY <1>4, <1>5, <1>6, <2>1 DEF FoundInv, NoFailures
<1> QED BY <1>6, <1>7, <1>8 DEF FoundInv, RegisteredStored, HeadsOwned, SureStored

LEMMA getPublicKeyFinds ==
  ASSUME KeyInv, FoundInv, NEW r \in Requesters, NEW u \in Users,
         getPublicKey(r, u)
  PROVE  FoundInv'
<1> DEFINE m == Msg("requestKey", u, NoKey, r)
<1>0. TypeOK /\ net \in Traffic /\ \A n \in Message : net[n] \in Nat
  BY KeyTyped DEF KeyInv
<1>1. m \in Message /\ m.peer = r /\ m.peer \notin Attempts
      /\ m.type = "requestKey"
  BY Letters DEF Msg
<1>2. \A n \in Message : net'[n] > 0 => net[n] > 0 \/ n = m
  BY <1>0, <1>1, SendTraffic DEF getPublicKey
<1>3. \A n \in Message : n.peer = r /\ net[n] > 0 => n.user \in stray[r]
  BY IdleIsStray DEF getPublicKey
<1>4. /\ looking'[r] = u /\ sure'[r] = Complete(u)
      /\ \A q \in Requesters : q # r =>
           looking'[q] = looking[q] /\ sure'[q] = sure[q]
      /\ keyStore' = keyStore /\ attempt' = attempt /\ stray' = stray
      /\ \A v \in Users : Offered(v)' = Offered(v)
  BY <1>0 DEF getPublicKey, TypeOK, Offered
<1>5. OwnMail'
  BY <1>1, <1>2, <1>4 DEF FoundInv, OwnMail
<1>6. SureStored'
  BY <1>4 DEF FoundInv, SureStored, RegisteredStored, Complete
<1>7. NoFailures'
  BY <1>1, <1>2, <1>3, <1>4 DEF FoundInv, NoFailures
<1> QED BY <1>4, <1>5, <1>6, <1>7 DEF FoundInv, RegisteredStored, HeadsOwned

LEMMA LookupFinds ==
  ASSUME KeyInv, FoundInv, NEW r \in Requesters, LookupStep(r)
  PROVE  FoundInv'
<1>0. TypeOK /\ net \in Traffic /\ \A n \in Message : net[n] \in Nat
  BY KeyTyped DEF KeyInv
<1>1. \A n \in Message : net'[n] > 0 => net[n] > 0
  <2>1. CASE Unanswered(r)
    BY <2>1 DEF Unanswered
  <2>2. ASSUME NEW m \in Response, Answered(r, m)
        PROVE  \A n \in Message : net'[n] > 0 => net[n] > 0
    BY <1>0, <2>2, ReceiveTraffic, Letters DEF Answered
  <2> QED BY <2>1, <2>2 DEF LookupStep
<1>2. /\ looking'[r] = NoUser
      /\ \A q \in Requesters : q # r => looking'[q] = looking[q]
      /\ \A q \in Requesters : stray[q] \subseteq stray'[q]
      /\ keyStore' = keyStore /\ attempt' = attempt /\ sure' = sure
      /\ \A u \in Users : Offered(u)' = Offered(u)
  <2>1. End(r) /\ keyStore' = keyStore /\ attempt' = attempt /\ sure' = sure
    BY DEF LookupStep, Unanswered, Answered
  <2>2. stray' = stray \/ stray' = [stray EXCEPT ![r] = @ \cup {looking[r]}]
    BY <2>1 DEF End
  <2>3. \A q \in Requesters : stray[q] \subseteq stray'[q]
    BY <1>0, <2>2 DEF TypeOK
  <2>4. looking'[r] = NoUser
        /\ \A q \in Requesters : q # r => looking'[q] = looking[q]
    BY <1>0, <2>1 DEF End, TypeOK
  <2> QED BY <2>1, <2>3, <2>4 DEF Offered
<1>3. OwnMail' /\ NoFailures'
  BY <1>1, <1>2 DEF FoundInv, OwnMail, NoFailures
<1>4. SureStored'
  BY <1>2 DEF FoundInv, SureStored
<1> QED BY <1>2, <1>3, <1>4 DEF FoundInv, RegisteredStored, HeadsOwned

LEMMA FoundStep == KeyInv /\ FoundInv /\ [Next]_vars => FoundInv'
<1> SUFFICES ASSUME KeyInv, FoundInv, [Next]_vars PROVE FoundInv'
  OBVIOUS
<1>1. CASE PkeStep
  BY <1>1, registerKeyFinds, requestKeyFinds DEF PkeStep
<1>2. ASSUME NEW a \in Attempts, registerPublicKey(a) \/ ClientStep(a)
      PROVE  FoundInv'
  BY <1>2, ClientFinds
<1>3. ASSUME NEW r \in Requesters, LookupStep(r)
      PROVE  FoundInv'
  BY <1>3, LookupFinds
<1>4. ASSUME NEW r \in Requesters, NEW u \in Users, getPublicKey(r, u)
      PROVE  FoundInv'
  BY <1>4, getPublicKeyFinds
<1>5. CASE Lose
  BY <1>5, LoseFinds
<1>6. CASE UNCHANGED vars
  BY <1>6 DEF vars, FoundInv, OwnMail, RegisteredStored, HeadsOwned, SureStored,
              NoFailures, Offered
<1> QED BY <1>1, <1>2, <1>3, <1>4, <1>5, <1>6 DEF Next

\* The answer to a sure lookup is a key offered for its user, or astray.
LEMMA SureAnswered ==
  ASSUME KeyInv, FoundInv, NEW r \in Requesters, NEW m \in Response,
         Answered(r, m), sure[r] # {}
  PROVE  m.user \in stray[r] \/ found'[r].key \in Offered(looking[r])
<1> SUFFICES ASSUME m.user \notin stray[r]
             PROVE  found'[r].key \in Offered(looking[r])
  OBVIOUS
<1>1. m \in Message /\ m.peer = r /\ net[m] > 0 /\ looking[r] # NoUser
  BY Letters DEF Answered, Receive
<1>2. m.user = looking[r] /\ m.user \in Users
  BY <1>1, Letters DEF KeyInv, AboutUsers
<1>3. m.type = "responsePublicKey"
  BY <1>1, Letters DEF FoundInv, NoFailures
<1>4. keyStore[m.user] # <<>> /\ m.key = Head(keyStore[m.user])
  BY <1>1, <1>3 DEF KeyInv, AnswersRight
<1>5. m.key \in Offered(m.user)
  BY <1>2, <1>4 DEF FoundInv, HeadsOwned
<1>6. found'[r].key = m.key
  BY <1>3 DEF Answered, KeyInv, TypeOK
<1> QED BY <1>2, <1>5, <1>6

\* A lookup begun after a registration of its user was complete never fails for
\* want of a key: if it is answered, then with a key that was offered for this
\* user, unless the answer is about a user whose lookup by this server ended
\* with datagrams under way (getPublicKey, addKey).
THEOREM RegisteredKeysAreFound == Spec => RegisteredKeyFound
<1>1. Init => FoundInv
  <2>1. Init => \A m \in Message : ~ net[m] > 0
    BY DEF Init, NoMessage
  <2> QED BY <2>1
       DEF Init, FoundInv, OwnMail, RegisteredStored, HeadsOwned, SureStored,
           NoFailures
<1>2. KeyInv /\ FoundInv =>
        [\A r \in Requesters, m \in Response :
           Answered(r, m) /\ sure[r] # {} =>
             m.user \in stray[r] \/ found'[r].key \in Offered(looking[r])]_vars
  BY SureAnswered
<1> QED BY <1>1, <1>2, KeyInit, KeyStep, FoundStep, PTL
     DEF Spec, RegisteredKeyFound
=============================================================================
