--------------------------- MODULE SignedRequests ---------------------------
(***************************************************************************)
(* The way of one signed request from the keys to the answer: the user's   *)
(* key pair (rsa_generate.c), the public key registered with the PKE       *)
(* server, the request signed, serialised and sent, to the Lodi server in  *)
(* a stream or to the TFA server in a datagram; there it is put together,  *)
(* deserialised and authenticated with the key the PKE server returns, and *)
(* the Lodi server streams its answer, of several messages for a feed.     *)
(***************************************************************************)
EXTENDS Rsa, Wire

CONSTANTS Jobs,           \* the requests there may be
          ResponseCount,  \* messages of the answer
          RequestRoom, ResponseRoom    \* bytes the kernels hold per direction

\* An unsigned int, and an unsigned long.
Uint == 0 .. Uint32 - 1
Ulong == 0 .. Uint64 - 1

ASSUME WidthAssumption == Word = Uint64

Job == [p : Uint, q : Uint, timestamp : Ulong, userID : Uint, messageType : Uint,
        to : {"lodi", "tfa"}]

Prime(n) == n > 1 /\ \A d \in 2 .. n - 1 : n % d # 0

\* rsa_generate.c: two primes with a product that is larger than the timestamp,
\* and small enough for modInverse, which puts a number below it into a signed
\* long.  The public exponent, 17 for its primes, is small: registerPublicKey
\* has room for an unsigned int.
ASSUME JobsAssumption ==
  /\ Jobs \subseteq Job
  /\ \A j \in Jobs :
       /\ Prime(j.p) /\ Prime(j.q) /\ j.p # j.q
       /\ j.timestamp < j.p * j.q /\ 2 * j.p * j.q <= Word
       /\ generateKeys(j.p, j.q).public \in Uint
ASSUME ChannelAssumption ==
  /\ RequestRoom \in Nat \ {0} /\ ResponseRoom \in Nat \ {0}
  /\ ResponseCount \in Nat

VARIABLES job, keys,      \* what is asked, and the user's keys
          verdict,        \* what the server said: "none", "accepted", "refused"
          request,        \* what it deserialised, {} before
          upGiven, upUnsent, upWire, upArrived, upTaken, upMessage, upGot,
          upHungUp, upEnded,
          dnGiven, dnUnsent, dnWire, dnArrived, dnTaken, dnMessage, dnGot,
          dnHungUp, dnEnded

up == <<upGiven, upUnsent, upWire, upArrived, upTaken, upMessage, upGot,
        upHungUp, upEnded>>
down == <<dnGiven, dnUnsent, dnWire, dnArrived, dnTaken, dnMessage, dnGot,
          dnHungUp, dnEnded>>
local == <<job, keys, verdict, request>>
vars == <<local, up, down>>

RequestSize == Fixed(serializeClientLodi) + MessageLength
ResponseSize == Fixed(serializeServerLoginLodi) + MessageLength

\* The request on its way to the server.
Up == INSTANCE TcpFraming WITH
  Byte <- Digits, Size <- RequestSize, Room <- RequestRoom,
  MaxMessages <- 1,
  given <- upGiven, unsent <- upUnsent, wire <- upWire, arrived <- upArrived,
  taken <- upTaken, message <- upMessage, got <- upGot, hungUp <- upHungUp,
  ended <- upEnded

\* The answer on its way to the client.
Down == INSTANCE TcpFraming WITH
  Byte <- Digits, Size <- ResponseSize, Room <- ResponseRoom,
  MaxMessages <- ResponseCount,
  given <- dnGiven, unsent <- dnUnsent, wire <- dnWire, arrived <- dnArrived,
  taken <- dnTaken, message <- dnMessage, got <- dnGot, hungUp <- dnHungUp,
  ended <- dnEnded

Init ==
  /\ job \in Jobs /\ keys = generateKeys(job.p, job.q)
  /\ verdict = "none" /\ request = {}
  /\ Up!Init /\ Down!Init

MODULUS == keys.modulus

\* The request as the client builds it: lodiLogin and its siblings, and
\* registerTFAClient.
Signed ==
  [messageType |-> job.messageType, userID |-> job.userID, recipientID |-> 0,
   timestamp |-> job.timestamp,
   digitalSig |-> encryptTimestamp(job.timestamp, keys.private, MODULUS)]

Blank == [i \in 1 .. MessageLength |-> 0]

lodiClientSend ==
  /\ job.to = "lodi" /\ upGiven = <<>>
  /\ Up!Send(Serialize(serializeClientLodi, Signed) \o Blank)
  /\ UNCHANGED <<local, down>>

\* registerPublicKey cuts the key to 32 bits; it crosses the network twice.
RegisteredKey ==
  Deserialize(deserializeClientPK,
    Serialize(serializeClientPK,
      [messageType |-> 0, userID |-> job.userID, publicKey |-> keys.public % Uint32]))

getPublicKey ==
  Deserialize(deserializeServerPK,
    Serialize(serializeServerPK, [RegisteredKey EXCEPT !.messageType = 1])).publicKey

authenticate(r) ==
  IF decryptTimestamp(r.digitalSig, getPublicKey, MODULUS) = r.timestamp
  THEN "accepted" ELSE "refused"

\* streamServerReceive has put the request together, and main looks at it.
serveRequest ==
  /\ upGot # <<>> /\ verdict = "none"
  /\ request' = Deserialize(deserializeClientLodi, Head(upGot))
  /\ verdict' = authenticate(request')
  /\ UNCHANGED <<job, keys, up, down>>

\* A datagram is a whole message.
handleRegisterTfa ==
  /\ job.to = "tfa" /\ verdict = "none"
  /\ request' = Deserialize(deserializeClientTFA, Serialize(serializeClientTFA, Signed))
  /\ verdict' = authenticate(request')
  /\ UNCHANGED <<job, keys, up, down>>

\* The k-th message of the answer; its text is of the order of the posts.
Response(k) ==
  Serialize(serializeServerLoginLodi,
            [messageType |-> 2, userID |-> request.userID, recipientID |-> k])
    \o [i \in 1 .. MessageLength |-> k % Radix]

streamServerSend ==
  /\ job.to = "lodi" /\ verdict = "accepted"
  /\ Down!Send(Response(Len(dnGiven) + 1))
  /\ UNCHANGED <<local, up>>

Upstream ==
  /\ Up!Copy \/ Up!Arrive \/ Up!RecvEnd \/ (upGot = <<>> /\ Up!Recv)
  /\ UNCHANGED <<local, down>>

Downstream ==
  /\ Down!Copy \/ Down!Arrive \/ Down!Recv
  /\ UNCHANGED <<local, up>>

\* The client dies while it is sending.
clientDies == Up!Sending /\ Up!HangUp /\ UNCHANGED <<local, down>>

Next ==
  \/ lodiClientSend \/ serveRequest \/ handleRegisterTfa \/ streamServerSend
  \/ Upstream \/ Downstream \/ clientDies

Spec == Init /\ [][Next]_vars

\* Both programs run, the network delivers, and the client keeps reading.
FairSpec ==
  /\ Spec
  /\ WF_vars(lodiClientSend) /\ WF_vars(serveRequest)
  /\ WF_vars(handleRegisterTfa) /\ WF_vars(streamServerSend)
  /\ WF_vars(Upstream) /\ WF_vars(Downstream)

----------------------------------------------------------------------------
\* However the streams are cut, a request arrives as it was sent, and every
\* message the client gets of an answer is the next one the server sent; its
\* buffer is overrun by no request, and by an answer only when the server sent
\* a further message before the client was through with one (receiveTcpMessage).
StreamsWhole == Up!FramesWhole /\ ~ Up!Overrun /\ Down!FramesWhole

\* What a user signs is accepted, with all its fields as they were sent, for
\* every key pair and timestamp: the search of the exponent, the inverse, the
\* powers and the two formats of keys and requests fit each other.
AcceptedIfSigned ==
  verdict # "none" =>
    /\ verdict = "accepted"
    /\ \A name \in DOMAIN request : request[name] = Signed[name]

\* The text and the fields of an answer as the client prints them.
Shown(bytes) ==
  <<Deserialize(deserializeServerLoginLodi, bytes), Text(deserializeServerLoginLodi, bytes)>>

DumpShown ==
  /\ Len(dnGot) = ResponseCount
  /\ \A k \in 1 .. ResponseCount :
       Shown(dnGot[k]) =
         <<[messageType |-> 2, userID |-> job.userID, recipientID |-> k],
           [i \in 1 .. MessageLength |-> k % Radix]>>

\* As long as the client reads, the server is not held up in send(), although
\* the answer is larger than the buffers, and the client sees all of it, if no
\* piece runs over its buffer; if the client dies over its request, the
\* server's recv returns.
ExchangeEnds ==
  <>(IF job.to = "tfa" THEN verdict # "none"
                       ELSE DumpShown \/ upEnded \/ Down!Overrun)
=============================================================================
