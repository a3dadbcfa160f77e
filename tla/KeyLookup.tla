------------------------------ MODULE KeyLookup ------------------------------
(***************************************************************************)
(* The public keys: registrations of the Lodi client (registerPublicKey    *)
(* over lodiClientPkeSend, a fresh socket each), the PKE server            *)
(* (pke_server.c, key_repository.c), and getPublicKey, which the Lodi      *)
(* server and the TFA server each call on one socket for all lookups.      *)
(*                                                                         *)
(* A lookup takes the next datagram of its socket for its answer; only     *)
(* whether it says ackPKFail is looked at.                                 *)
(***************************************************************************)
EXTENDS Integers, Sequences

CONSTANTS Users, Keys,
          Attempts,         \* registrations; a retry is another one
          Owner, KeyOf,     \* the user and key each of them registers
          Requesters,       \* the servers that look keys up
          NoUser, NoKey,
          MaxLookups,       \* bound: lookups
          MaxLost           \* bound: datagrams lost

ASSUME AttemptAssumption ==
  Owner \in [Attempts -> Users] /\ KeyOf \in [Attempts -> Keys]
ASSUME NamesAssumption ==
  NoUser \notin Users /\ NoKey \notin Keys /\ Attempts \cap Requesters = {}

\* The peer is the sender of a request and the receiver of a response.
Letter(type, keys, peers) ==
  [type : {type}, user : Users, key : keys, peer : peers]
Request == Letter("registerKey", Keys, Attempts)
           \cup Letter("requestKey", {NoKey}, Requesters)
Response == Letter("ackRegisterKey", Keys, Attempts)
            \cup Letter("responsePublicKey", Keys, Requesters)
            \cup Letter("ackPKFail", {NoKey}, Requesters)
Message == Request \cup Response

VARIABLES
  net,            \* the datagrams under way or unread
  lost, lookups,  \* counters for the bounds
  attempt,        \* how each registration stands
  keyStore,       \* key_repository: the keys of each user, oldest first
  looking,        \* the user each server looks up
  sure,           \* the registrations known to be complete when it began
  found,          \* what its last answered lookup said
  stray           \* the users whose lookup it ended with datagrams under way

INSTANCE Datagrams

vars == <<net, lost, lookups, attempt, keyStore, looking, sure, found, stray>>
servers == <<lookups, looking, sure, found, stray>>

Msg(type, user, key, peer) ==
  [type |-> type, user |-> user, key |-> key, peer |-> peer]

Init ==
  /\ net = NoMessage /\ lost = 0 /\ lookups = 0
  /\ attempt = [a \in Attempts |-> "off"]
  /\ keyStore = [u \in Users |-> <<>>]
  /\ looking = [r \in Requesters |-> NoUser]
  /\ sure = [r \in Requesters |-> {}]
  /\ found = [r \in Requesters |-> [user |-> NoUser, key |-> NoKey]]
  /\ stray = [r \in Requesters |-> {}]

Lose ==
  /\ lost < MaxLost /\ lost' = lost + 1
  /\ \E m \in Message : Receive(m)
  /\ UNCHANGED <<attempt, keyStore, servers>>

UnderWay(p) == ~ Silent({m \in Message : m.peer = p})

----------------------------------------------------------------------------
(* The Lodi client. *)

registerPublicKey(a) ==
  /\ attempt[a] = "off"
  /\ attempt' = [attempt EXCEPT ![a] = "waiting"]
  /\ Send(Msg("registerKey", Owner[a], KeyOf[a], a))
  /\ UNCHANGED <<lost, keyStore, servers>>

\* Any answer completes it.
Registered(a, m) ==
  /\ attempt[a] = "waiting" /\ m.peer = a /\ Receive(m)
  /\ attempt' = [attempt EXCEPT ![a] = "registered"]
  /\ UNCHANGED <<lost, keyStore, servers>>

\* No answer in time; the socket is left behind.
NotRegistered(a) ==
  /\ attempt[a] = "waiting"
  /\ attempt' = [attempt EXCEPT ![a] = "failed"]
  /\ UNCHANGED <<net, lost, keyStore, servers>>

----------------------------------------------------------------------------
(* The PKE server, and its key repository. *)

\* The keys that are there stay, and getKey finds the oldest.
addKey(user, key) ==
  keyStore' = [keyStore EXCEPT ![user] = Append(@, key)]
getKey(user) == Head(keyStore[user])

\* Mutant: the acknowledgement without the key.
registerKeyUnstored(m) ==
  /\ m.type = "registerKey"
  /\ Exchange(m, Msg("ackRegisterKey", m.user, m.key, m.peer))
  /\ UNCHANGED <<lost, attempt, keyStore, servers>>

registerKey(m) ==
  /\ m.type = "registerKey"
  /\ addKey(m.user, m.key)
  /\ Exchange(m, Msg("ackRegisterKey", m.user, m.key, m.peer))
  /\ UNCHANGED <<lost, attempt, servers>>

\* Mutant: the key found is that of whatever user has one.
requestKeyOfAnybody(m) ==
  /\ m.type = "requestKey"
  /\ \E u \in Users :
       /\ keyStore[u] # <<>>
       /\ Exchange(m, Msg("responsePublicKey", m.user, getKey(u), m.peer))
  /\ UNCHANGED <<lost, attempt, keyStore, servers>>

requestKey(m) ==
  /\ m.type = "requestKey"
  /\ \/ /\ keyStore[m.user] = <<>>
        /\ Exchange(m, Msg("ackPKFail", m.user, NoKey, m.peer))
     \/ /\ keyStore[m.user] # <<>>
        /\ Exchange(m, Msg("responsePublicKey", m.user, getKey(m.user), m.peer))
  /\ UNCHANGED <<lost, attempt, keyStore, servers>>

----------------------------------------------------------------------------
(* getPublicKey. *)

Complete(u) == {a \in Attempts : attempt[a] = "registered" /\ Owner[a] = u}

getPublicKey(r, u) ==
  /\ looking[r] = NoUser /\ lookups < MaxLookups /\ lookups' = lookups + 1
  /\ looking' = [looking EXCEPT ![r] = u]
  /\ sure' = [sure EXCEPT ![r] = Complete(u)]
  /\ Send(Msg("requestKey", u, NoKey, r))
  /\ UNCHANGED <<lost, attempt, keyStore, found, stray>>

\* The lookup is over, whatever is still under way to its socket.
End(r) ==
  /\ looking' = [looking EXCEPT ![r] = NoUser]
  /\ stray' = IF UnderWay(r)' THEN [stray EXCEPT ![r] = @ \cup {looking[r]}]
                              ELSE stray

\* Its answer, which need not be about its user.
Answered(r, m) ==
  /\ looking[r] # NoUser /\ m \in Response /\ m.peer = r /\ Receive(m)
  /\ End(r)
  /\ found' = [found EXCEPT ![r] =
       [user |-> looking[r],
        key |-> IF m.type = "ackPKFail" THEN NoKey ELSE m.key]]
  /\ UNCHANGED <<lost, lookups, attempt, keyStore, sure>>

\* No answer in time.  The socket stays, and what may still come on it is the
\* next lookup's answer.
Unanswered(r) ==
  /\ looking[r] # NoUser
  /\ UNCHANGED <<net, lost, lookups, attempt, keyStore, sure, found>>
  /\ End(r)

----------------------------------------------------------------------------
PkeStep == \E m \in Request : registerKey(m) \/ requestKey(m)
ClientStep(a) == NotRegistered(a) \/ \E m \in Response : Registered(a, m)
LookupStep(r) == Unanswered(r) \/ \E m \in Response : Answered(r, m)

Next ==
  \/ PkeStep
  \/ \E a \in Attempts : registerPublicKey(a) \/ ClientStep(a)
  \/ \E r \in Requesters :
       LookupStep(r) \/ \E u \in Users : getPublicKey(r, u)
  \/ Lose

Spec == Init /\ [][Next]_vars

----------------------------------------------------------------------------
(* Properties. *)

TypeOK ==
  /\ net \in Traffic
  /\ lost \in Nat /\ lookups \in Nat
  /\ attempt \in [Attempts -> {"off", "waiting", "registered", "failed"}]
  /\ keyStore \in [Users -> Seq(Keys)]
  /\ looking \in [Requesters -> Users \cup {NoUser}]
  /\ sure \in [Requesters -> SUBSET Attempts]
  /\ found \in [Requesters -> [user : Users \cup {NoUser},
                               key : Keys \cup {NoKey}]]
  /\ stray \in [Requesters -> SUBSET Users]

\* A key that a lookup returned is, then and for ever after, the key the PKE
\* server has for the user looked up, or for a user whose earlier lookup by the
\* same server ended with datagrams still under way.  The time limit lets such
\* an answer through, and every later lookup may then get its predecessor's;
\* but no other server's answers reach it, no registration changes what it has
\* been told, and a lookup that merely got lost leaves nothing behind
\* (getPublicKey, addKey).
RightKey ==
  \A r \in Requesters : found[r].key # NoKey =>
    \E u \in {found[r].user} \cup stray[r] :
      keyStore[u] # <<>> /\ found[r].key = Head(keyStore[u])

\* The keys somebody has tried to register for a user.
Offered(u) == {KeyOf[a] : a \in {b \in Attempts : Owner[b] = u /\ attempt[b] # "off"}}

\* A lookup begun after a registration of its user was complete never fails for
\* want of a key, whatever else is registered, retried, lost or given up: it
\* returns a key offered for this user (which, after two registrations with
\* different keys, may be that of the one that seemed to fail), unless the
\* answer is about a user whose lookup this server ended before with datagrams
\* still under way.
RegisteredKeyFound ==
  [][\A r \in Requesters, m \in Response :
       Answered(r, m) /\ sure[r] # {} =>
         m.user \in stray[r] \/ found'[r].key \in Offered(looking[r])]_vars
=============================================================================
