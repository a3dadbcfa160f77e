------------------------------ MODULE Datagrams ------------------------------
(***************************************************************************)
(* The datagram domain services (domain_datagram.c over network.c): a      *)
(* message is sent at once, stays under way or unread in the receiver's    *)
(* socket for any time, and is received whole, in any order.  Send fails   *)
(* only on a local error, which the servers answer like a loss.            *)
(***************************************************************************)
EXTENDS Integers

CONSTANT Message
VARIABLE net  \* how many copies of each message are under way or unread

NoMessage == [m \in Message |-> 0]
Traffic == [Message -> Nat]

\* datagramClientSend and datagramServerSend.
Send(m) == net' = [net EXCEPT ![m] = @ + 1]

\* datagramClientReceive and datagramServerReceive; or the message is lost.
Receive(m) == net[m] > 0 /\ net' = [net EXCEPT ![m] = @ - 1]

\* One message is received and another one sent in reply to it.
Exchange(m, reply) ==
  net[m] > 0 /\ net' = [[net EXCEPT ![m] = @ - 1] EXCEPT ![reply] = @ + 1]

Silent(messages) == \A m \in messages : net[m] = 0
=============================================================================
