----------------------------- MODULE TcpFraming -----------------------------
(***************************************************************************)
(* One direction of a connection: sendTcpMessage and receiveTcpMessage of  *)
(* network.c over a stream of bytes.  A message has Size bytes and no mark *)
(* of its end.  send() returns when the kernel has taken the whole message,*)
(* and the kernel holds Room bytes that nobody has received.  The bytes    *)
(* arrive in pieces that end anywhere.  receiveTcpMessage asks recv for    *)
(* Size bytes each time, also when it holds a part of a message, and puts  *)
(* what it gets behind that part: with the next message already there it   *)
(* writes past the end of the caller's buffer.                             *)
(***************************************************************************)
EXTENDS Naturals, Sequences, SequencesExt

CONSTANTS Byte,          \* the values of a byte
          Size,          \* bytes of a message
          Room,          \* bytes the kernels hold for the receiver
          MaxMessages    \* bound: messages sent on the connection

VARIABLES given,     \* history: the messages send() was called with
          unsent,    \* what the kernel has not taken of the last one
          wire,      \* the bytes the kernel has taken
          arrived,   \* how many of them are at the receiver
          taken,     \* how many recv has returned
          message,   \* the receiver's buffer up to its offset
          got,       \* the messages received with SUCCESS
          hungUp,    \* the sender has closed the connection
          ended      \* the receiver has been told TERMINATED

vars == <<given, unsent, wire, arrived, taken, message, got, hungUp, ended>>

Init ==
  /\ given = <<>> /\ unsent = <<>> /\ wire = <<>>
  /\ arrived = 0 /\ taken = 0
  /\ message = <<>> /\ got = <<>>
  /\ hungUp = FALSE /\ ended = FALSE

Sending == unsent # <<>>

\* sendTcpMessage calls send().
Send(m) ==
  /\ ~ Sending /\ ~ hungUp /\ Len(given) < MaxMessages
  /\ given' = Append(given, m) /\ unsent' = m
  /\ UNCHANGED <<wire, arrived, taken, message, got, hungUp, ended>>

Less(a, b) == IF a < b THEN a ELSE b

\* Mutant: send() is done with what fits, and the rest is not sent.
CopyOnce ==
  LET n == Less(Len(unsent), Room - (Len(wire) - taken))
  IN  /\ Sending /\ n > 0
      /\ wire' = wire \o SubSeq(unsent, 1, n)
      /\ unsent' = <<>>
      /\ UNCHANGED <<given, arrived, taken, message, got, hungUp, ended>>

\* send() goes on when there is room: it blocks, in the caller's only thread.
Copy ==
  LET n == Less(Len(unsent), Room - (Len(wire) - taken))
  IN  /\ Sending /\ n > 0
      /\ wire' = wire \o SubSeq(unsent, 1, n)
      /\ unsent' = SubSeq(unsent, n + 1, Len(unsent))
      /\ UNCHANGED <<given, arrived, taken, message, got, hungUp, ended>>

\* The network: some more bytes arrive.
Arrive ==
  /\ \E k \in arrived + 1 .. Len(wire) : arrived' = k
  /\ UNCHANGED <<given, unsent, wire, taken, message, got, hungUp, ended>>

\* The sender dies, also in the middle of a message.
HangUp ==
  /\ ~ hungUp /\ hungUp' = TRUE /\ unsent' = <<>>
  /\ UNCHANGED <<given, wire, arrived, taken, message, got, ended>>

\* More bytes than the buffer holds have been copied into it.  What the program
\* does from here is undefined, and the receiver takes no further step.
Overrun == Len(message) > Size

\* Mutant: a part of a message counts as a message.
RecvPart ==
  LET n == Less(Size, arrived - taken)
      m == message \o SubSeq(wire, taken + 1, taken + n)
  IN  /\ ~ ended /\ ~ Overrun /\ n > 0
      /\ taken' = taken + n
      /\ got' = Append(got, m) /\ message' = <<>>
      /\ UNCHANGED <<given, unsent, wire, arrived, hungUp, ended>>

\* One call of recv and what the loop makes of it: a message is complete
\* when the offset is Size, and only then.
Recv ==
  LET n == Less(Size, arrived - taken)
      m == message \o SubSeq(wire, taken + 1, taken + n)
  IN  /\ ~ ended /\ ~ Overrun /\ n > 0
      /\ taken' = taken + n
      /\ \/ Len(m) = Size /\ got' = Append(got, m) /\ message' = <<>>
         \/ Len(m) # Size /\ message' = m /\ UNCHANGED got
      /\ UNCHANGED <<given, unsent, wire, arrived, hungUp, ended>>

\* recv returns 0.  The part of a message that was there is gone with the
\* buffer.
RecvEnd ==
  /\ ~ ended /\ ~ Overrun /\ hungUp /\ taken = Len(wire)
  /\ ended' = TRUE /\ message' = <<>>
  /\ UNCHANGED <<given, unsent, wire, arrived, taken, got, hungUp>>

Next ==
  \/ \E m \in [1 .. Size -> Byte] : Send(m)
  \/ Copy \/ Arrive \/ HangUp \/ Recv \/ RecvEnd

Spec == Init /\ [][Next]_vars

----------------------------------------------------------------------------
\* What receive returns with SUCCESS is what was sent, message by message,
\* however the stream is cut, and its buffer holds what it is given, unless a
\* further message was sent before it was through with this one.
FramesWhole ==
  /\ IsPrefix(got, given)
  /\ Overrun => Len(given) > Len(got) + 1
=============================================================================
