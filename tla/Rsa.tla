--------------------------------- MODULE Rsa ---------------------------------
(***************************************************************************)
(* rsa.c: the key pair of a user and the encryption of a timestamp with a  *)
(* key, each loop of the code a recursive function over the variables it   *)
(* assigns.  An unsigned long holds the numbers below Word; a product of   *)
(* two of them is taken in twice the width, where the code says so.        *)
(***************************************************************************)
EXTENDS Integers

CONSTANT Word     \* 2^64

ASSUME WordAssumption == Word \in Nat \ {0}

gcd(a0, b0) ==
  LET loop[s \in [a : Nat, b : Nat]] ==
        IF s.b = 0 THEN s.a ELSE loop[[a |-> s.b, b |-> s.a % s.b]]
  IN  loop[[a |-> a0, b |-> b0]]

\* The extended Euclidean algorithm.  x1, a signed long, may be negative.  The
\* code divides by m unasked: no one asks for an inverse where there is none.
modInverse(a0, m0) ==
  LET loop[s \in [a : Nat, m : Nat, x0 : Int, x1 : Int]] ==
        IF s.a > 1 /\ s.m # 0
        THEN loop[[a |-> s.m, m |-> s.a % s.m,
                   x0 |-> s.x1 - (s.a \div s.m) * s.x0, x1 |-> s.x0]]
        ELSE s.x1
      x == loop[[a |-> a0, m |-> m0, x0 |-> 0, x1 |-> 1]]
  IN  IF m0 = 1 THEN 0 ELSE IF x < 0 THEN x + m0 ELSE x

\* The public exponent is the first number from 12 on that has an inverse.
generateKeys(p, q) ==
  LET phi == (p - 1) * (q - 1)
      search[e \in Nat] == IF gcd(e, phi) = 1 THEN e ELSE search[e + 1]
      e == search[12]
  IN  [private |-> modInverse(e, phi), public |-> e, modulus |-> (p * q) % Word]

\* Mutant: the squares are computed in a single word.
modPowNarrow(base0, exponent0, modulus) ==
  LET loop[s \in [base : Nat, exponent : Nat, result : Nat]] ==
        IF s.exponent = 0 THEN s.result
        ELSE loop[[base |-> ((s.base * s.base) % Word) % modulus,
                   exponent |-> s.exponent \div 2,
                   result |-> IF s.exponent % 2 = 1 THEN (s.result * s.base) % modulus
                              ELSE s.result]]
  IN  IF modulus = 1 THEN 0
      ELSE loop[[base |-> base0 % modulus, exponent |-> exponent0, result |-> 1]]

\* Square and multiply, with products of double width.
modPow(base0, exponent0, modulus) ==
  LET loop[s \in [base : Nat, exponent : Nat, result : Nat]] ==
        IF s.exponent = 0 THEN s.result
        ELSE loop[[base |-> (s.base * s.base) % modulus,
                   exponent |-> s.exponent \div 2,
                   result |-> IF s.exponent % 2 = 1 THEN (s.result * s.base) % modulus
                              ELSE s.result]]
  IN  IF modulus = 1 THEN 0
      ELSE loop[[base |-> base0 % modulus, exponent |-> exponent0, result |-> 1]]

encryptTimestamp(timestamp, privateKey, modulus) ==
  modPow(timestamp, privateKey, modulus)

decryptTimestamp(encrypted, publicKey, modulus) ==
  modPow(encrypted, publicKey, modulus)
=============================================================================
