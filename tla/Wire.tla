-------------------------------- MODULE Wire --------------------------------
(***************************************************************************)
(* buffer.c and the serialisers of lodi.c, pke.c and tfa.c.  Numbers are   *)
(* sent with their most significant byte first; a byte is a digit in base  *)
(* Radix, so that 32 bits are four digits and 64 bits eight.  Every        *)
(* serialiser and every deserialiser names its fields in an order and a    *)
(* width of its own, and only the two ends of a message agree, or not.     *)
(***************************************************************************)
EXTENDS Naturals, Sequences, SequencesExt

CONSTANTS Radix,            \* values of a byte
          MessageLength     \* LODI_MESSAGE_LENGTH

ASSUME WireAssumption == Radix \in Nat \ {0, 1} /\ MessageLength \in Nat

Digits == 0 .. Radix - 1

\* The numbers of 32 and of 64 bits.
Uint32 == Radix * Radix * Radix * Radix
Uint64 == Uint32 * Uint32

appendUint(value, width) ==
  LET rest[k \in 0 .. width] == IF k = 0 THEN value ELSE rest[k - 1] \div Radix
  IN  [i \in 1 .. width |-> rest[width - i] % Radix]

getUint(bytes, offset, width) ==
  LET number[i \in 0 .. width] ==
        IF i = 0 THEN 0 ELSE number[i - 1] * Radix + bytes[offset + i]
  IN  number[width]

\* A layout: the fields in the order of the calls, each with its width.
F(name, width) == [name |-> name, width |-> width]

Offset(layout, i) ==
  LET sum[k \in 1 .. i] == IF k = 1 THEN 0 ELSE sum[k - 1] + layout[k - 1].width
  IN  sum[i]

Fixed(layout) == Offset(layout, Len(layout) + 1)

Serialize(layout, values) ==
  FlattenSeq([i \in DOMAIN layout |->
                appendUint(values[layout[i].name], layout[i].width)])

Deserialize(layout, bytes) ==
  [name \in {layout[i].name : i \in DOMAIN layout} |->
     LET i == CHOOSE j \in DOMAIN layout : layout[j].name = name
     IN  getUint(bytes, Offset(layout, i), layout[i].width)]

\* The text of a Lodi message follows its fields.
Text(layout, bytes) == SubSeq(bytes, Fixed(layout) + 1, Fixed(layout) + MessageLength)

----------------------------------------------------------------------------
serializeClientLodi ==
  <<F("messageType", 4), F("userID", 4), F("recipientID", 4),
    F("timestamp", 8), F("digitalSig", 8)>>

deserializeClientLodi ==
  <<F("messageType", 4), F("userID", 4), F("recipientID", 4),
    F("timestamp", 8), F("digitalSig", 8)>>

serializeServerLoginLodi ==
  <<F("messageType", 4), F("userID", 4), F("recipientID", 4)>>

deserializeServerLoginLodi ==
  <<F("messageType", 4), F("userID", 4), F("recipientID", 4)>>

serializeClientPK ==
  <<F("messageType", 4), F("userID", 4), F("publicKey", 4)>>

deserializeClientPK ==
  <<F("messageType", 4), F("userID", 4), F("publicKey", 4)>>

serializeServerPK ==
  <<F("messageType", 4), F("userID", 4), F("publicKey", 4)>>

deserializeServerPK ==
  <<F("messageType", 4), F("userID", 4), F("publicKey", 4)>>

serializeClientTFA ==
  <<F("messageType", 4), F("userID", 4), F("timestamp", 8), F("digitalSig", 8)>>

deserializeClientTFA ==
  <<F("messageType", 4), F("userID", 4), F("timestamp", 8), F("digitalSig", 8)>>
=============================================================================
