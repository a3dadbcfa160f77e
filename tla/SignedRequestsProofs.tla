------------------------ MODULE SignedRequestsProofs ------------------------
(***************************************************************************)
(* Proofs about the way of a signed request (rsa.c, buffer.c, the          *)
(* serialisers, network.c): streams keep their messages whole              *)
(* (RequestsStayWhole, StreamsStayWhole), and what a user signs is         *)
(* accepted (SignedStaysAccepted), for every pair of primes, every         *)
(* timestamp, base and size of a message.                                  *)
(*                                                                         *)
(* What the recursive functions of Rsa and Wire compute is shown first, by *)
(* induction over sets of numbers, so that the steps of the exchange are   *)
(* a matter of what its operators return:                                  *)
(*   - a number read back from its bytes is the number, when it has the    *)
(*     width; the fields of a layout follow each other (LayoutRoundTrip);  *)
(*   - modPow is the remainder of the power, modInverse an inverse;        *)
(*   - by Fermat's theorem the two exponents undo each other modulo a      *)
(*     product of two primes (DecryptUndoesEncrypt).                       *)
(* The inductive invariants add to that where the bytes of a stream are:   *)
(* what is taken, on the wire and unsent is, in this order, what was given.*)
(***************************************************************************)
EXTENDS SignedRequests, SequenceTheorems, FiniteSetTheorems, WellFoundedInduction, TLAPS

----------------------------------------------------------------------------
(* Induction, and functions that are defined by recursion. *)

\* Every set of naturals with an element has a least one.
LEMMA LeastNatural ==
  ASSUME NEW T, T \subseteq Nat, T # {}
  PROVE  \E x \in T : \A y \in T : x <= y
<1> DEFINE R == OpToRel(<, Nat)
<1>1. \A x, y \in Nat : x < y => <<x, y>> \in R
  BY DEF OpToRel
<1>2. IsWellFoundedOn(R, Nat)
  BY NatLessThanWellFounded DEF OpToRel
<1> HIDE DEF R
<1>3. PICK x \in T : \A y \in T : ~ (<<y, x>> \in R)
  BY <1>2, WFMin
<1>4. \A y \in T : y \in Nat /\ x \in Nat /\ ~ (y < x)
  BY <1>1, <1>3
<1>5. \A y \in T : x <= y
  BY <1>4
<1> QED
  BY <1>5

\* Induction over an interval, with the claim as a set.
LEMMA IntervalInduction ==
  ASSUME NEW m \in Nat, NEW n \in Nat, NEW S,
         m \in S, \A i \in m .. n - 1 : i \in S => i + 1 \in S
  PROVE  \A i \in m .. n : i \in S
<1> DEFINE T == {i \in m .. n : i \notin S}
<1>1. SUFFICES ASSUME T # {} PROVE FALSE
  OBVIOUS
<1>2. T \subseteq Nat
  OBVIOUS
<1>3. PICK x \in T : \A y \in T : x <= y
  <2> HIDE DEF T
  <2> QED
    BY <1>1, <1>2, LeastNatural
<1>4. x # m /\ x \in m .. n /\ x \notin S
  OBVIOUS
<1>5. x - 1 \in m .. n - 1 /\ (x - 1) + 1 = x /\ x - 1 \in m .. n /\ ~ (x <= x - 1)
  BY <1>4
<1>6. x - 1 \in S
  BY <1>3, <1>5
<1> QED
  BY <1>4, <1>5, <1>6

\* mu falls on the way from x to next[x], which ends in E.
Falls(D, E, next, mu) ==
  /\ \A x \in D : mu[x] \in Nat
  /\ \A x \in D : x \notin E => next[x] \in D /\ mu[next[x]] < mu[x]

\* Induction along such a way.
LEMMA FallInduction ==
  ASSUME NEW D, NEW E, NEW next, NEW mu, Falls(D, E, next, mu), NEW S,
         \A x \in D : x \in E \/ next[x] \in S => x \in S
  PROVE  \A x \in D : x \in S
<1> DEFINE T == {mu[x] : x \in {y \in D : y \notin S}}
<1>1. SUFFICES ASSUME T # {} PROVE FALSE
  OBVIOUS
<1>2. T \subseteq Nat
  BY DEF Falls
<1>3. PICK n \in T : \A k \in T : n <= k
  <2> HIDE DEF T
  <2> QED
    BY <1>1, <1>2, LeastNatural
<1>4. PICK x \in D : x \notin S /\ n = mu[x]
  OBVIOUS
<1>5. next[x] \in D /\ next[x] \notin S /\ mu[next[x]] < mu[x] /\ mu[next[x]] \in Nat /\ mu[x] \in Nat
  BY <1>4 DEF Falls
<1>6. mu[next[x]] \in T
  BY <1>5
<1>7. ~ (mu[x] <= mu[next[x]])
  BY <1>5
<1> QED
  BY <1>3, <1>4, <1>6, <1>7

\* What the equation of a recursive function says at x: out[x] at the end of
\* the way, and before it what c makes of x and the value at next[x].
Value(f, E, out, next, c, x) == IF x \in E THEN out[x] ELSE c[<<x, f[next[x]]>>]

Into(D, V, E, out, c) ==
  /\ \A x \in D : x \in E => out[x] \in V
  /\ \A x \in D, v \in V : c[<<x, v>>] \in V

Solves(f, D, V, E, out, next, c) ==
  f \in [D -> V] /\ \A x \in D : f[x] = Value(f, E, out, next, c, x)

\* The equation has a solution.
LEMMA Recursion ==
  ASSUME NEW D, NEW V, NEW E, NEW out, NEW next, NEW c, NEW mu, Falls(D, E, next, mu),
         Into(D, V, E, out, c)
  PROVE  \E f : Solves(f, D, V, E, out, next, c)
<1> USE DEF Into
<1> DEFINE Upto(g, n) == \A x \in D : mu[x] <= n => g[x] = Value(g, E, out, next, c, x)
           S == {n \in Nat : \E g : Upto(g, n)}
           Next0(g, n) == [x \in D |-> IF mu[x] <= n THEN g[x] ELSE Value(g, E, out, next, c, x)]
<1>0. /\ \A x \in D : mu[x] \in Nat
      /\ \A x \in D : x \notin E => next[x] \in D /\ mu[next[x]] < mu[x]
  BY DEF Falls
<1>1. ASSUME NEW n \in Nat, NEW g, Upto(g, n)
      PROVE  Upto(Next0(g, n), n + 1)
  <2> DEFINE h == Next0(g, n)
  <2> SUFFICES ASSUME NEW x \in D, mu[x] <= n + 1
               PROVE  h[x] = Value(h, E, out, next, c, x)
    OBVIOUS
  <2>1. h[x] = Value(g, E, out, next, c, x)
    BY <1>1
  <2>2. x \notin E => h[next[x]] = g[next[x]]
    <3>1. x \notin E => next[x] \in D /\ mu[next[x]] <= n
      BY <1>0
    <3> QED
      BY <3>1
  <2> HIDE DEF h
  <2> QED
    BY <2>1, <2>2 DEF Value
<1>2. 0 \in S
  <2> DEFINE g == [x \in D |-> Value(<<>>, E, out, next, c, x)]
  <2>1. ASSUME NEW x \in D, mu[x] <= 0
        PROVE  g[x] = Value(g, E, out, next, c, x)
    <3>1. x \in E
      BY <1>0, <2>1
    <3> QED
      BY <3>1 DEF Value
  <2> HIDE DEF g
  <2>2. Upto(g, 0)
    BY <2>1
  <2> QED
    BY <2>2
<1>3. ASSUME NEW n \in Nat, n \in S
      PROVE  n + 1 \in S
  <2>1. PICK g : Upto(g, n)
    BY <1>3
  <2>2. Upto(Next0(g, n), n + 1)
    BY <1>1, <2>1
  <2> HIDE DEF Upto, Next0
  <2> QED
    BY <2>2
<1>4. \A n \in Nat : n \in S
  <2> HIDE DEF S
  <2> TAKE n \in Nat
  <2>1. \A i \in 0 .. n : i \in S
    BY <1>2, <1>3, IntervalInduction
  <2> QED
    BY <2>1
\* Two solutions agree.
<1>5. ASSUME NEW g, NEW h, NEW m \in Nat, NEW n \in Nat, m <= n, Upto(g, m), Upto(h, n)
      PROVE  \A x \in D : mu[x] <= m => g[x] = h[x]
  <2> DEFINE A == {x \in D : mu[x] <= m => g[x] = h[x]}
  <2>1. ASSUME NEW x \in D, x \in E \/ next[x] \in A
        PROVE  x \in A
    <3> SUFFICES ASSUME mu[x] <= m PROVE g[x] = h[x]
      OBVIOUS
    <3>1. mu[x] \in Nat /\ mu[x] <= n
      BY <1>0, <1>5
    <3>2. g[x] = Value(g, E, out, next, c, x) /\ h[x] = Value(h, E, out, next, c, x)
      BY <1>5, <3>1
    <3>3. CASE x \in E
      BY <3>2, <3>3 DEF Value
    <3>4. CASE x \notin E
      <4>1. mu[next[x]] <= m
        BY <1>0, <3>1, <3>4
      <4>2. g[next[x]] = h[next[x]]
        BY <2>1, <3>4, <4>1
      <4> QED
        BY <3>2, <3>4, <4>2 DEF Value
    <3> QED
      BY <3>3, <3>4
  <2>2. \A x \in D : x \in A
    <3> HIDE DEF A
    <3> QED
      BY <2>1, FallInduction
  <2> QED
    BY <2>2
<1> DEFINE G(n) == CHOOSE g : Upto(g, n)
           f == [x \in D |-> G(mu[x])[x]]
<1>6. \A n \in Nat : Upto(G(n), n)
  <2> HIDE DEF Upto
  <2> QED
    BY <1>4
<1> HIDE DEF G
<1>7. ASSUME NEW x \in D
      PROVE  f[x] = Value(f, E, out, next, c, x)
  <2>1. mu[x] \in Nat /\ G(mu[x])[x] = Value(G(mu[x]), E, out, next, c, x)
    BY <1>0, <1>6
  <2>2. ASSUME x \notin E
        PROVE  f[next[x]] = G(mu[x])[next[x]]
    <3>1. next[x] \in D /\ mu[next[x]] \in Nat /\ mu[next[x]] <= mu[x]
      BY <1>0, <2>1, <2>2
    <3>2. G(mu[next[x]])[next[x]] = G(mu[x])[next[x]]
      <4>1. Upto(G(mu[next[x]]), mu[next[x]]) /\ Upto(G(mu[x]), mu[x])
        BY <1>6, <2>1, <3>1
      <4> HIDE DEF Upto
      <4> QED
        BY <1>5, <2>1, <3>1, <4>1
    <3> QED
      BY <3>1, <3>2
  <2> QED
    BY <2>1, <2>2 DEF Value
<1>8. \A x \in D : f[x] \in V
  <2> DEFINE A == {x \in D : f[x] \in V}
  <2> HIDE DEF f
  <2>1. ASSUME NEW x \in D, x \in E \/ next[x] \in A
        PROVE  x \in A
    BY <1>7, <2>1 DEF Value
  <2>2. \A x \in D : x \in A
    <3> HIDE DEF A
    <3> QED
      BY <2>1, FallInduction
  <2> QED
    BY <2>2
<1>9. f \in [D -> V]
  BY <1>8
<1> HIDE DEF f
<1> QED
  BY <1>7, <1>9 DEF Solves

\* A function that is defined by counting from m to n.
Counts(f, m, n, V, b, c) ==
  f \in [m .. n -> V] /\ f[m] = b /\ \A i \in m + 1 .. n : f[i] = c[<<i, f[i - 1]>>]

Stays(m, n, V, c) == \A i \in m + 1 .. n, v \in V : c[<<i, v>>] \in V

LEMMA Counting ==
  ASSUME NEW m \in Nat, NEW n \in Nat, m <= n, NEW V, NEW b \in V, NEW c, Stays(m, n, V, c)
  PROVE  \E f : Counts(f, m, n, V, b, c)
<1> USE DEF Stays
<1> DEFINE D == m .. n
           E == {m}
           out == [i \in D |-> b]
           next == [i \in D |-> i - 1]
           mu == [i \in D |-> i - m]
           d == [z \in D \X V |-> IF z[1] = m THEN b ELSE c[z]]
<1>1. Falls(D, E, next, mu)
  BY DEF Falls
<1>2. \A x \in D : x \in E => out[x] \in V
  OBVIOUS
<1>3. \A x \in D, v \in V : d[<<x, v>>] = IF x = m THEN b ELSE c[<<x, v>>]
  OBVIOUS
<1>4. \A x \in D : x # m => x \in m + 1 .. n
  OBVIOUS
<1>5. \A x \in D, v \in V : d[<<x, v>>] \in V
  <2> HIDE DEF d, D
  <2> QED
    BY <1>3, <1>4
<1>6. PICK f : Solves(f, D, V, E, out, next, d)
  <2> HIDE DEF D, E, out, next, mu, d
  <2>1. Into(D, V, E, out, d)
    BY <1>2, <1>5 DEF Into
  <2> QED
    BY <1>1, <2>1, Recursion
<1>7. f[m] = b
  <2>1. m \in D /\ m \in E /\ out[m] = b
    OBVIOUS
  <2> HIDE DEF D, E, out, next, d
  <2> QED
    BY <1>6, <2>1 DEF Solves, Value
<1>8. ASSUME NEW i \in m + 1 .. n
      PROVE  f[i] = c[<<i, f[i - 1]>>]
  <2>1. i \in D /\ i \notin E /\ i # m /\ next[i] = i - 1 /\ i - 1 \in D
    OBVIOUS
  <2>2. f[i - 1] \in V
    BY <1>6, <2>1 DEF Solves
  <2>3. f[i] = d[<<i, f[i - 1]>>]
    <3> HIDE DEF D, E, out, next, d
    <3> QED
      BY <1>6, <2>1 DEF Solves, Value
  <2> HIDE DEF D, E, d
  <2> QED
    BY <1>3, <2>1, <2>2, <2>3
<1> QED
  BY <1>6, <1>7, <1>8 DEF Counts, Solves

\* What it is to be t and then u.
Joined(r, t, u) ==
  /\ Len(r) = Len(t) + Len(u)
  /\ \A i \in 1 .. Len(t) : r[i] = t[i]
  /\ \A i \in 1 .. Len(u) : r[Len(t) + i] = u[i]

LEMMA JoinFacts ==
  ASSUME NEW S, NEW t \in Seq(S), NEW u \in Seq(S)
  PROVE  t \o u \in Seq(S) /\ Joined(t \o u, t, u)
  BY DEF Joined

----------------------------------------------------------------------------
(* Numbers on the wire (buffer.c). *)

LEMMA RadixType == Radix \in Nat /\ Radix > 1 /\ Digits = 0 .. Radix - 1
  BY WireAssumption DEF Digits

LEMMA Quotient ==
  ASSUME NEW a \in Int, NEW b \in Nat \ {0}, NEW q \in Int, NEW r \in 0 .. b - 1,
         a = b * q + r
  PROVE  a \div b = q /\ a % b = r
  OBVIOUS

LEMMA Division ==
  ASSUME NEW a \in Int, NEW b \in Nat \ {0}
  PROVE  /\ a \div b \in Int /\ a % b \in 0 .. b - 1 /\ a = b * (a \div b) + (a % b)
         /\ a \in Nat => a \div b \in Nat
  OBVIOUS

LEMMA DivisionType ==
  \A a \in Nat, b \in Nat \ {0} :
     a % b \in Nat /\ a % b < b /\ a \div b \in Nat
  OBVIOUS

LEMMA Shift ==
  \A x \in Nat : /\ x \div Radix \in Nat /\ x % Radix \in Digits
                 /\ (x \div Radix) * Radix + (x % Radix) = x
<1> SUFFICES ASSUME NEW x \in Nat
             PROVE  /\ x \div Radix \in Nat /\ x % Radix \in Digits
                    /\ (x \div Radix) * Radix + (x % Radix) = x
  OBVIOUS
<1>1. Radix \in Nat \ {0}
  BY RadixType
<1>2. /\ x \div Radix \in Nat /\ x % Radix \in 0 .. Radix - 1
      /\ x = Radix * (x \div Radix) + (x % Radix)
  BY <1>1
<1>3. \A y \in Nat : y * Radix = Radix * y
  BY RadixType
<1> QED
  BY <1>2, <1>3, RadixType

\* What is left of a number as its digits are taken.
Rests(r, v, w) ==
  /\ r \in [0 .. w -> Nat] /\ r[0] = v
  /\ \A k \in 1 .. w : r[k] = r[k - 1] \div Radix
  /\ appendUint(v, w) = [i \in 1 .. w |-> r[w - i] % Radix]

LEMMA AppendUintRests ==
  ASSUME NEW v \in Nat, NEW w \in Nat
  PROVE  \E r : Rests(r, v, w)
<1> DEFINE c == [z \in (0 .. w) \X Nat |-> z[2] \div Radix]
           rest[k \in 0 .. w] == IF k = 0 THEN v ELSE rest[k - 1] \div Radix
           Step(g) == [k \in 0 .. w |-> IF k = 0 THEN v ELSE g[k - 1] \div Radix]
<1>1. \A i \in 0 + 1 .. w, x \in Nat : c[<<i, x>>] = x \div Radix /\ c[<<i, x>>] \in Nat
  <2>1. \A x \in Nat : x \div Radix \in Nat
    BY Shift
  <2>2. \A i \in 0 + 1 .. w : i \in 0 .. w
    OBVIOUS
  <2> QED
    BY <2>1, <2>2
<1>2. PICK f : Counts(f, 0, w, Nat, v, c)
  <2> HIDE DEF c
  <2>1. Stays(0, w, Nat, c)
    BY <1>1 DEF Stays
  <2> QED
    BY <2>1, Counting
<1>3. \A i \in 1 .. w : i \in 0 + 1 .. w /\ f[i - 1] \in Nat
  BY <1>2 DEF Counts
<1>4. \A i \in 1 .. w : f[i] = f[i - 1] \div Radix
  <2> HIDE DEF c
  <2> QED
    BY <1>1, <1>2, <1>3 DEF Counts
<1>5. \A i \in 0 .. w : f[i] = IF i = 0 THEN v ELSE f[i - 1] \div Radix
  <2>1. \A i \in 0 .. w : i = 0 \/ i \in 1 .. w
    OBVIOUS
  <2> QED
    BY <1>2, <1>4, <2>1 DEF Counts
<1>6. f = Step(f)
  BY <1>2, <1>5 DEF Counts
<1>7. rest = CHOOSE g : g = Step(g)
  OBVIOUS
<1>8. appendUint(v, w) = [i \in 1 .. w |-> rest[w - i] % Radix]
  BY DEF appendUint
<1> HIDE DEF rest
<1>9. rest = Step(rest)
  <2> HIDE DEF Step
  <2> QED
    BY <1>6, <1>7
<1>10. DOMAIN rest = 0 .. w /\ rest[0] = v /\ \A k \in 1 .. w : rest[k] = rest[k - 1] \div Radix
  BY <1>9
<1>11. \A k \in 0 .. w : rest[k] \in Nat
  <2> DEFINE S == {k \in Nat : rest[k] \in Nat}
  <2>1. 0 \in S
    BY <1>10
  <2>2. ASSUME NEW k \in 0 .. w - 1, k \in S
        PROVE  k + 1 \in S
    <3>1. k + 1 \in 1 .. w /\ (k + 1) - 1 = k /\ rest[k] \in Nat
      BY <2>2
    <3>2. rest[k + 1] = rest[k] \div Radix
      BY <1>10, <3>1
    <3>3. rest[k] \div Radix \in Nat
      BY <3>1, Shift
    <3> QED
      BY <3>2, <3>3
  <2>3. \A k \in 0 .. w : k \in S
    <3> HIDE DEF S
    <3> QED
      BY <2>1, <2>2, IntervalInduction
  <2> QED
    BY <2>3
<1>12. rest \in [0 .. w -> Nat]
  <2> HIDE DEF Step
  <2>1. rest = [k \in 0 .. w |-> rest[k]]
    BY <1>9 DEF Step
  <2> QED
    BY <1>11, <2>1
<1> QED
  BY <1>8, <1>10, <1>12 DEF Rests

\* A number as its digits are put together.
Sums(u, bytes, offset, w) ==
  /\ u \in [0 .. w -> Nat] /\ u[0] = 0
  /\ \A i \in 1 .. w : u[i] = u[i - 1] * Radix + bytes[offset + i]
  /\ getUint(bytes, offset, w) = u[w]

LEMMA GetUintSums ==
  ASSUME NEW w \in Nat, NEW bytes, NEW offset \in Nat,
         \A i \in 1 .. w : bytes[offset + i] \in Nat
  PROVE  \E u : Sums(u, bytes, offset, w)
<1> DEFINE c == [z \in (0 .. w) \X Nat |-> z[2] * Radix + bytes[offset + z[1]]]
           number[i \in 0 .. w] ==
             IF i = 0 THEN 0 ELSE number[i - 1] * Radix + bytes[offset + i]
           Step(g) == [i \in 0 .. w |-> IF i = 0 THEN 0 ELSE g[i - 1] * Radix + bytes[offset + i]]
<1>1. Stays(0, w, Nat, c) /\ \A i \in 1 .. w, x \in Nat : c[<<i, x>>] = x * Radix + bytes[offset + i]
  <2>1. \A x \in Nat : x * Radix \in Nat
    BY RadixType
  <2>2. ASSUME NEW i \in 1 .. w, NEW x \in Nat
        PROVE  /\ c[<<i, x>>] = x * Radix + bytes[offset + i]
               /\ x * Radix + bytes[offset + i] \in Nat
    <3>1. x * Radix \in Nat /\ bytes[offset + i] \in Nat
      BY <2>1
    <3>2. x * Radix + bytes[offset + i] \in Nat
      BY <3>1
    <3> QED
      BY <3>2
  <2>3. \A i \in 0 + 1 .. w : i \in 1 .. w
    OBVIOUS
  <2> HIDE DEF c
  <2> QED
    BY <2>2, <2>3 DEF Stays
<1>2. PICK f : Counts(f, 0, w, Nat, 0, c)
  <2> HIDE DEF c
  <2> QED
    BY <1>1, Counting
<1>3. \A i \in 1 .. w : i \in 0 + 1 .. w /\ f[i - 1] \in Nat
  BY <1>2 DEF Counts
<1>4. \A i \in 1 .. w : f[i] = f[i - 1] * Radix + bytes[offset + i]
  <2> HIDE DEF c
  <2> QED
    BY <1>1, <1>2, <1>3 DEF Counts
<1>5. \A i \in 0 .. w : f[i] = IF i = 0 THEN 0 ELSE f[i - 1] * Radix + bytes[offset + i]
  <2>1. \A i \in 0 .. w : i = 0 \/ i \in 1 .. w
    OBVIOUS
  <2> QED
    BY <1>2, <1>4, <2>1 DEF Counts
<1>6. f = Step(f)
  BY <1>2, <1>5 DEF Counts
<1>7. number = CHOOSE g : g = Step(g)
  OBVIOUS
<1>8. getUint(bytes, offset, w) = number[w]
  BY DEF getUint
<1> HIDE DEF number
<1>9. number = Step(number)
  <2> HIDE DEF Step
  <2> QED
    BY <1>6, <1>7
<1>10. /\ DOMAIN number = 0 .. w /\ number[0] = 0
       /\ \A i \in 1 .. w : number[i] = number[i - 1] * Radix + bytes[offset + i]
  BY <1>9
<1>11. \A i \in 0 .. w : number[i] = f[i]
  <2> DEFINE S == {i \in Nat : number[i] = f[i]}
  <2>1. 0 \in S
    BY <1>2, <1>10 DEF Counts
  <2>2. ASSUME NEW i \in 0 .. w - 1, i \in S
        PROVE  i + 1 \in S
    <3>1. i + 1 \in 1 .. w /\ (i + 1) - 1 = i /\ number[i] = f[i]
      BY <2>2
    <3> QED
      BY <1>4, <1>10, <3>1
  <2>3. \A i \in 0 .. w : i \in S
    <3> HIDE DEF S
    <3> QED
      BY <2>1, <2>2, IntervalInduction
  <2> QED
    BY <2>3
<1>12. getUint(bytes, offset, w) = f[w]
  BY <1>8, <1>11
<1>13. f \in [0 .. w -> Nat] /\ f[0] = 0
  BY <1>2 DEF Counts
<1> QED
  BY <1>4, <1>12, <1>13 DEF Sums

\* A value that w digits can hold.
Fits(v, w) == v \in Nat /\ \E r : Rests(r, v, w) /\ r[w] = 0

\* A number is read as it was written, wherever in a message it stands.
LEMMA NumberRoundTrip ==
  ASSUME NEW w \in Nat, NEW v, Fits(v, w), NEW bytes, NEW offset \in Nat,
         \A i \in 1 .. w : bytes[offset + i] = appendUint(v, w)[i]
  PROVE  getUint(bytes, offset, w) = v
<1>1. PICK r : Rests(r, v, w) /\ r[w] = 0
  BY DEF Fits
<1>2. /\ r \in [0 .. w -> Nat] /\ r[0] = v
      /\ \A k \in 1 .. w : r[k] = r[k - 1] \div Radix
      /\ \A i \in 1 .. w : bytes[offset + i] = r[w - i] % Radix
  BY <1>1 DEF Rests
<1>3. \A i \in 1 .. w : w - i \in 0 .. w /\ r[w - i] \in Nat
  BY <1>2
<1>4. \A i \in 1 .. w : bytes[offset + i] \in Nat
  <2>1. \A x \in Nat : x % Radix \in Nat
    BY RadixType
  <2> QED
    BY <1>2, <1>3, <2>1
<1>5. PICK u : Sums(u, bytes, offset, w)
  BY <1>4, GetUintSums
<1> DEFINE S == {i \in Nat : u[i] = r[w - i]}
<1>6. 0 \in S
  BY <1>1, <1>5 DEF Sums
<1>7. ASSUME NEW i \in 0 .. w - 1, i \in S
      PROVE  i + 1 \in S
  <2> DEFINE x == r[w - (i + 1)]
  <2>1. i + 1 \in 1 .. w /\ (i + 1) - 1 = i /\ w - i \in 1 .. w /\ (w - i) - 1 = w - (i + 1)
    OBVIOUS
  <2>2. x \in Nat
    BY <1>3, <2>1
  <2>3. u[i] = x \div Radix
    <3>1. u[i] = r[w - i] /\ r[w - i] = r[(w - i) - 1] \div Radix
      BY <1>2, <1>7, <2>1
    <3> QED
      BY <2>1, <3>1
  <2>4. u[i + 1] = u[i] * Radix + (x % Radix)
    <3>1. u[i + 1] = u[(i + 1) - 1] * Radix + bytes[offset + (i + 1)]
      BY <1>5, <2>1 DEF Sums
    <3>2. bytes[offset + (i + 1)] = x % Radix
      BY <1>2, <2>1
    <3>3. u[(i + 1) - 1] = u[i]
      BY <2>1
    <3> HIDE DEF x
    <3>4. bytes[offset + (i + 1)] = x % Radix => u[i + 1] = u[i] * Radix + (x % Radix)
      BY ONLY <3>1, <3>3, Zenon
    <3> QED
      BY <3>2, <3>4
  <2> HIDE DEF x
  <2>5. u[i + 1] = x
    BY <2>2, <2>3, <2>4, Shift
  <2> QED
    BY <2>1, <2>5 DEF x
<1>8. \A i \in 0 .. w : i \in S
  <2> HIDE DEF S
  <2> QED
    BY <1>6, <1>7, IntervalInduction
<1>9. u[w] = r[0]
  <2>1. w \in 0 .. w /\ w - w = 0
    OBVIOUS
  <2> QED
    BY <1>8, <2>1
<1> QED
  BY <1>2, <1>5, <1>9 DEF Sums

----------------------------------------------------------------------------
(* Layouts. *)

IsLayout(layout) ==
  /\ Len(layout) \in Nat \ {0} /\ DOMAIN layout = 1 .. Len(layout)
  /\ \A i \in 1 .. Len(layout) : layout[i].width \in Nat

Offsets(s, layout, n) ==
  /\ s \in [1 .. n -> Nat] /\ s[1] = 0
  /\ \A k \in 1 + 1 .. n : s[k] = s[k - 1] + layout[k - 1].width

LEMMA OffsetsAreSums ==
  ASSUME NEW layout, NEW n \in Nat, n >= 1, NEW s, Offsets(s, layout, n)
  PROVE  \A i \in 1 .. n : Offset(layout, i) = s[i]
<1> TAKE i \in 1 .. n
<1> DEFINE sum[k \in 1 .. i] == IF k = 1 THEN 0 ELSE sum[k - 1] + layout[k - 1].width
           Step(g) == [k \in 1 .. i |-> IF k = 1 THEN 0 ELSE g[k - 1] + layout[k - 1].width]
           t == [k \in 1 .. i |-> s[k]]
<1>1. \A k \in 1 .. i : t[k] = IF k = 1 THEN 0 ELSE t[k - 1] + layout[k - 1].width
  <2> TAKE k \in 1 .. i
  <2>1. CASE k = 1
    BY <2>1 DEF Offsets
  <2>2. CASE k # 1
    <3>1. k \in 1 + 1 .. n /\ k - 1 \in 1 .. i
      BY <2>2
    <3>2. s[k] = s[k - 1] + layout[k - 1].width
      BY <3>1 DEF Offsets
    <3> QED
      BY <2>2, <3>1, <3>2
  <2> QED
    BY <2>1, <2>2
<1>2. t = Step(t)
  <2>1. t = [k \in 1 .. i |-> t[k]]
    OBVIOUS
  <2> HIDE DEF t
  <2> QED
    BY <1>1, <2>1
<1>3. sum = CHOOSE g : g = Step(g)
  OBVIOUS
<1>4. Offset(layout, i) = sum[i]
  BY DEF Offset
<1> HIDE DEF sum
<1>5. sum = Step(sum)
  <2> HIDE DEF Step, t
  <2> QED
    BY <1>2, <1>3
<1>6. sum[1] = 0 /\ \A k \in 1 + 1 .. i : sum[k] = sum[k - 1] + layout[k - 1].width
  BY <1>5
<1> DEFINE S == {k \in Nat : sum[k] = s[k]}
<1>7. 1 \in S
  BY <1>6 DEF Offsets
<1>8. ASSUME NEW k \in 1 .. i - 1, k \in S
      PROVE  k + 1 \in S
  <2>1. k + 1 \in 1 + 1 .. i /\ k + 1 \in 1 + 1 .. n /\ (k + 1) - 1 = k /\ sum[k] = s[k]
    BY <1>8
  <2>2. sum[k + 1] = sum[k] + layout[k].width
    BY <1>6, <2>1
  <2>3. s[k + 1] = s[k] + layout[k].width
    BY <2>1 DEF Offsets
  <2> QED
    BY <2>1, <2>2, <2>3
<1>9. \A k \in 1 .. i : k \in S
  <2> HIDE DEF S
  <2> QED
    BY <1>7, <1>8, IntervalInduction
<1> QED
  BY <1>4, <1>9

LEMMA OffsetFacts ==
  ASSUME NEW layout, IsLayout(layout)
  PROVE  /\ Offset(layout, 1) = 0 /\ \A i \in 1 .. Len(layout) + 1 : Offset(layout, i) \in Nat
         /\ \A i \in 1 .. Len(layout) :
              Offset(layout, i + 1) = Offset(layout, i) + layout[i].width
<1> DEFINE n == Len(layout) + 1
           c == [z \in (1 .. n) \X Nat |-> z[2] + layout[z[1] - 1].width]
<1>1. n \in Nat /\ 1 <= n /\ \A i \in 1 + 1 .. n : i \in 1 .. n /\ i - 1 \in 1 .. Len(layout)
  BY DEF IsLayout
<1>2. \A i \in 1 + 1 .. n, x \in Nat : /\ c[<<i, x>>] = x + layout[i - 1].width
                                       /\ x + layout[i - 1].width \in Nat
  <2>1. \A i \in 1 + 1 .. n : layout[i - 1].width \in Nat
    BY <1>1 DEF IsLayout
  <2> HIDE DEF n
  <2> QED
    BY <1>1, <2>1
<1>3. PICK s : Counts(s, 1, n, Nat, 0, c)
  <2> HIDE DEF c, n
  <2>1. Stays(1, n, Nat, c)
    BY <1>2 DEF Stays
  <2> QED
    BY <1>1, <2>1, Counting
<1> HIDE DEF n
<1>4. s \in [1 .. n -> Nat] /\ s[1] = 0 /\ \A i \in 1 + 1 .. n : s[i] = c[<<i, s[i - 1]>>]
  BY <1>3 DEF Counts
<1> HIDE DEF c
<1>5. Offsets(s, layout, n)
  <2>1. \A i \in 1 + 1 .. n : s[i - 1] \in Nat
    BY <1>1, <1>4
  <2> QED
    BY <1>2, <1>4, <2>1 DEF Offsets
<1>6. \A i \in 1 .. n : Offset(layout, i) = s[i]
  BY <1>1, <1>5, OffsetsAreSums
<1>7. \A i \in 1 .. Len(layout) : s[i + 1] = s[i] + layout[i].width
  <2> TAKE i \in 1 .. Len(layout)
  <2>1. i + 1 \in 1 + 1 .. n /\ (i + 1) - 1 = i
    BY DEF n, IsLayout
  <2> QED
    BY <1>5, <2>1 DEF Offsets
<1>8. \A i \in 1 .. Len(layout) : i \in 1 .. n /\ i + 1 \in 1 .. n
  BY DEF n, IsLayout
<1> QED
  BY <1>1, <1>4, <1>6, <1>7, <1>8 DEF n

\* The bytes of a message hold each value at its offset.
Carries(layout, values, bytes) ==
  \A i \in 1 .. Len(layout) : \A j \in 1 .. layout[i].width :
     bytes[Offset(layout, i) + j] = appendUint(values[layout[i].name], layout[i].width)[j]

Numbers(layout, values) == \A i \in 1 .. Len(layout) : values[layout[i].name] \in Nat

LEMMA AppendUintType ==
  ASSUME NEW v \in Nat, NEW w \in Nat
  PROVE  appendUint(v, w) \in Seq(Digits) /\ Len(appendUint(v, w)) = w
<1>1. PICK r : Rests(r, v, w)
  BY AppendUintRests
<1>2. \A i \in 1 .. w : r[w - i] \in Nat
  BY <1>1 DEF Rests
<1>3. \A i \in 1 .. w : r[w - i] % Radix \in Digits
  BY <1>2, Shift
<1>4. appendUint(v, w) = [i \in 1 .. w |-> r[w - i] % Radix]
  BY <1>1 DEF Rests
<1>5. appendUint(v, w) \in [1 .. w -> Digits]
  BY <1>3, <1>4
<1> HIDE DEF Digits
<1> QED
  BY <1>5

\* The first i fields are written.
Written(layout, values, s, i) ==
  /\ s \in Seq(Digits) /\ Len(s) = Offset(layout, i + 1)
  /\ \A k \in 1 .. i : \A j \in 1 .. layout[k].width :
       /\ Offset(layout, k) + j \in 1 .. Len(s)
       /\ s[Offset(layout, k) + j] = appendUint(values[layout[k].name], layout[k].width)[j]

LEMMA FieldWritten ==
  ASSUME NEW layout, IsLayout(layout), NEW values, Numbers(layout, values), NEW s,
         NEW i \in 1 .. Len(layout) - 1, Written(layout, values, s, i), NEW t,
         t = s \o appendUint(values[layout[i + 1].name], layout[i + 1].width)
  PROVE  Written(layout, values, t, i + 1)
<1> DEFINE v == values[layout[i + 1].name]
           w == layout[i + 1].width
           a == appendUint(v, w)
<1>1. i \in Nat /\ i + 1 \in 1 .. Len(layout) /\ Len(layout) \in Nat
  BY DEF IsLayout
<1>2. v \in Nat /\ w \in Nat
  BY <1>1 DEF IsLayout, Numbers
<1>3. a \in Seq(Digits) /\ Len(a) = w
  <2> HIDE DEF v, w
  <2> QED
    BY <1>2, AppendUintType
<1>4. s \in Seq(Digits) /\ Len(s) = Offset(layout, i + 1) /\ t = s \o a
  BY DEF Written
<1>5. /\ Offset(layout, (i + 1) + 1) = Offset(layout, i + 1) + w
      /\ Offset(layout, i + 1) \in Nat
  <2>1. i + 1 \in 1 .. Len(layout) + 1
    BY <1>1
  <2> QED
    BY <1>1, <2>1, OffsetFacts
<1>6. /\ t \in Seq(Digits) /\ Len(t) = Len(s) + w
      /\ \A j \in 1 .. Len(s) : t[j] = s[j]
      /\ \A j \in 1 .. w : t[Len(s) + j] = a[j]
  <2>1. t \in Seq(Digits) /\ Joined(t, s, a)
    <3> HIDE DEF a
    <3> QED
      BY <1>3, <1>4, JoinFacts
  <2> HIDE DEF a, w
  <2> QED
    BY <1>3, <2>1 DEF Joined
<1>7. ASSUME NEW k \in 1 .. i + 1, NEW j \in 1 .. layout[k].width
      PROVE  /\ Offset(layout, k) + j \in 1 .. Len(t)
             /\ t[Offset(layout, k) + j] = appendUint(values[layout[k].name], layout[k].width)[j]
  <2>1. CASE k = i + 1
    <3>1. j \in 1 .. w /\ Offset(layout, k) = Len(s) /\ Len(s) \in Nat
      BY <1>4, <1>5, <2>1
    <3> QED
      BY <1>2, <1>6, <2>1, <3>1
  <2>2. CASE k # i + 1
    <3>1. k \in 1 .. i
      BY <1>1, <2>2
    <3>2. /\ Offset(layout, k) + j \in 1 .. Len(s)
          /\ s[Offset(layout, k) + j] = appendUint(values[layout[k].name], layout[k].width)[j]
      BY <3>1 DEF Written
    <3>3. Len(s) \in Nat /\ Len(t) = Len(s) + w
      BY <1>4, <1>5, <1>6
    <3> HIDE DEF w, a
    <3>4. \A p \in 1 .. Len(s) : p \in 1 .. Len(t)
      BY <1>2, <3>3
    <3> QED
      BY <1>6, <3>2, <3>4
  <2> QED
    BY <2>1, <2>2
<1>8. Len(t) = Offset(layout, (i + 1) + 1)
  BY <1>4, <1>5, <1>6
<1> QED
  BY <1>6, <1>7, <1>8 DEF Written

LEMMA SerializeWrites ==
  ASSUME NEW layout, IsLayout(layout), NEW values, Numbers(layout, values)
  PROVE  Written(layout, values, Serialize(layout, values), Len(layout))
<1> DEFINE n == Len(layout)
           field(i) == appendUint(values[layout[i].name], layout[i].width)
           seqs == [i \in DOMAIN layout |-> field(i)]
           flatten[i \in 1 .. Len(seqs)] ==
             IF i = 1 THEN seqs[i] ELSE flatten[i - 1] \o seqs[i]
           Step(g) == [i \in 1 .. n |-> IF i = 1 THEN seqs[i] ELSE g[i - 1] \o seqs[i]]
           c == [z \in (1 .. n) \X Seq(Digits) |-> z[2] \o seqs[z[1]]]
<1>1. n \in Nat /\ 1 <= n /\ DOMAIN layout = 1 .. n
  BY DEF IsLayout
<1>2. \A i \in 1 .. n : /\ layout[i].width \in Nat
                        /\ field(i) \in Seq(Digits) /\ Len(field(i)) = layout[i].width
  <2> TAKE i \in 1 .. n
  <2>1. values[layout[i].name] \in Nat /\ layout[i].width \in Nat
    BY DEF Numbers, IsLayout
  <2> QED
    BY <2>1, AppendUintType
<1>3. DOMAIN seqs = 1 .. n /\ \A i \in 1 .. n : seqs[i] = field(i)
  BY <1>1
<1>4. Len(seqs) = n
  BY <1>1
<1> HIDE DEF n
<1>5. Serialize(layout, values) = flatten[n]
  <2>1. Serialize(layout, values) = FlattenSeq(seqs)
    BY DEF Serialize
  <2>2. FlattenSeq(seqs) = flatten[Len(seqs)]
    <3>1. Len(seqs) # 0
      BY <1>1, <1>4
    <3> QED
      BY <3>1 DEF FlattenSeq
  <2> QED
    BY <1>4, <2>1, <2>2
<1>6. flatten = CHOOSE g : g = Step(g)
  BY <1>4
<1> HIDE DEF flatten, seqs, field
<1>7. PICK f : Counts(f, 1, n, Seq(Digits), field(1), c)
  <2>1. \A i \in 1 + 1 .. n, s \in Seq(Digits) : c[<<i, s>>] = s \o seqs[i] /\ s \o seqs[i] \in Seq(Digits)
    <3> TAKE i \in 1 + 1 .. n, s \in Seq(Digits)
    <3>1. i \in 1 .. n /\ seqs[i] \in Seq(Digits)
      BY <1>1, <1>2, <1>3
    <3> HIDE DEF Digits
    <3>2. s \o seqs[i] \in Seq(Digits)
      BY <3>1
    <3> QED
      BY <3>1, <3>2
  <2> HIDE DEF c
  <2>2. Stays(1, n, Seq(Digits), c)
    BY <2>1 DEF Stays
  <2>3. field(1) \in Seq(Digits)
    BY <1>1, <1>2
  <2> QED
    BY <1>1, <2>2, <2>3, Counting
<1>8. /\ f[1] = seqs[1] /\ \A i \in 1 + 1 .. n : f[i] = f[i - 1] \o seqs[i]
  <2>1. f[1] = field(1) /\ 1 \in 1 .. n
    BY <1>1, <1>7 DEF Counts
  <2>2. ASSUME NEW i \in 1 + 1 .. n
        PROVE  f[i] = f[i - 1] \o seqs[i]
    <3>1. i \in 1 .. n /\ i - 1 \in 1 .. n
      BY <1>1
    <3>2. f[i - 1] \in Seq(Digits) /\ f[i] = c[<<i, f[i - 1]>>]
      BY <1>7, <3>1 DEF Counts
    <3> QED
      BY <3>1, <3>2
  <2> QED
    BY <1>3, <2>1, <2>2
<1>9. f = Step(f)
  <2>1. \A i \in 1 .. n : f[i] = IF i = 1 THEN seqs[i] ELSE f[i - 1] \o seqs[i]
    <3>1. \A i \in 1 .. n : i = 1 \/ i \in 1 + 1 .. n
      BY <1>1
    <3> QED
      BY <1>8, <3>1
  <2>2. f = [i \in 1 .. n |-> f[i]]
    BY <1>7 DEF Counts
  <2> QED
    BY <2>1, <2>2
<1>10. flatten = Step(flatten)
  <2> HIDE DEF Step
  <2> QED
    BY <1>6, <1>9
<1>11. flatten[1] = seqs[1] /\ \A i \in 1 + 1 .. n : flatten[i] = flatten[i - 1] \o seqs[i]
  <2>1. 1 \in 1 .. n /\ \A i \in 1 + 1 .. n : i \in 1 .. n /\ i # 1
    BY <1>1
  <2>2. \A i \in 1 .. n : flatten[i] = IF i = 1 THEN seqs[i] ELSE flatten[i - 1] \o seqs[i]
    BY <1>10
  <2> HIDE DEF Step
  <2> QED
    BY <2>1, <2>2
<1> HIDE DEF c, Step
<1> DEFINE S == {i \in Nat : Written(layout, values, flatten[i], i)}
<1>12. 1 \in S
  <2>1. /\ flatten[1] = field(1) /\ field(1) \in Seq(Digits)
        /\ Len(field(1)) = layout[1].width /\ layout[1].width \in Nat
    BY <1>1, <1>2, <1>3, <1>11
  <2>2. Offset(layout, 1) = 0 /\ Offset(layout, 1 + 1) = layout[1].width
    <3>1. Offset(layout, 1) = 0 /\ Offset(layout, 1 + 1) = Offset(layout, 1) + layout[1].width
      BY <1>1, OffsetFacts DEF n
    <3> QED
      BY <2>1, <3>1
  <2>3. \A k \in 1 .. 1 : \A j \in 1 .. layout[k].width :
          /\ k = 1 /\ Offset(layout, k) + j = j /\ j \in 1 .. Len(flatten[1])
    BY <2>1, <2>2
  <2> QED
    BY <2>1, <2>2, <2>3 DEF Written, field
<1>13. ASSUME NEW i \in 1 .. n - 1, i \in S
       PROVE  i + 1 \in S
  <2>1. i + 1 \in 1 .. n /\ i + 1 \in 1 + 1 .. n /\ (i + 1) - 1 = i /\ i + 1 \in Nat
    BY <1>1
  <2>2. flatten[i + 1] = flatten[i] \o field(i + 1)
    BY <1>3, <1>11, <2>1
  <2>3. Written(layout, values, flatten[i], i)
    BY <1>13
  <2>4. Written(layout, values, flatten[i + 1], i + 1)
    BY <2>2, <2>3, FieldWritten DEF field, n
  <2> QED
    BY <2>1, <2>4
<1>14. \A i \in 1 .. n : i \in S
  <2> HIDE DEF S
  <2> QED
    BY <1>1, <1>12, <1>13, IntervalInduction
<1>15. n \in S
  BY <1>1, <1>14
<1> QED
  BY <1>5, <1>15 DEF n

LEMMA SerializeType ==
  ASSUME NEW layout, IsLayout(layout), NEW values, Numbers(layout, values)
  PROVE  /\ Serialize(layout, values) \in Seq(Digits)
         /\ Len(Serialize(layout, values)) = Fixed(layout) /\ Fixed(layout) \in Nat
         /\ Carries(layout, values, Serialize(layout, values))
<1>1. Written(layout, values, Serialize(layout, values), Len(layout))
  BY SerializeWrites
<1>2. Fixed(layout) \in Nat
  BY OffsetFacts DEF Fixed, IsLayout
<1> QED
  BY <1>1, <1>2 DEF Written, Fixed, Carries

\* The end of a number that has digits enough.
LEMMA ShiftBound ==
  \A q \in Nat, x \in Nat : x < q * Radix => x \div Radix < q
<1> SUFFICES ASSUME NEW q \in Nat, NEW x \in Nat, x < q * Radix, ~ (x \div Radix < q)
             PROVE  FALSE
  BY Shift
<1>1. PICK y \in Nat : y = x \div Radix
  BY Shift
<1>2. y * Radix <= x /\ q <= y
  BY <1>1, Shift, RadixType
<1>3. \A a \in Nat, b \in Nat, c \in Nat : a <= b => a * c <= b * c
  OBVIOUS
<1>4. q * Radix <= y * Radix /\ q * Radix \in Nat /\ y * Radix \in Nat
  BY <1>2, <1>3, RadixType
<1> QED
  BY <1>2, <1>4

LEMMA FourShifts ==
  ASSUME NEW w \in Nat, NEW v, NEW r, Rests(r, v, w), NEW k \in 0 .. w, k + 4 <= w,
         NEW q \in Nat, r[k] < (((q * Radix) * Radix) * Radix) * Radix
  PROVE  r[k + 4] < q
<1>1. \A i \in 0 .. w : r[i] \in Nat
  BY DEF Rests
<1>2. \A p \in Nat : p * Radix \in Nat
  BY RadixType
<1>3. PICK q1 \in Nat : q1 = q * Radix
  BY <1>2
<1>4. PICK q2 \in Nat : q2 = q1 * Radix
  BY <1>2
<1>5. PICK q3 \in Nat : q3 = q2 * Radix
  BY <1>2
<1>6. \A i \in k .. k + 3, p \in Nat : r[i] < p * Radix => r[i + 1] < p
  <2> TAKE i \in k .. k + 3, p \in Nat
  <2>1. i + 1 \in 1 .. w /\ (i + 1) - 1 = i /\ i \in 0 .. w
    OBVIOUS
  <2>2. r[i + 1] = r[i] \div Radix
    BY <2>1 DEF Rests
  <2> QED
    BY <1>1, <2>1, <2>2, ShiftBound
<1>7. r[k] < q3 * Radix
  BY <1>3, <1>4, <1>5
<1>8. r[k + 1] < q3
  BY <1>6, <1>7
<1>9. r[k + 2] < q2
  <2>1. k + 1 \in k .. k + 3 /\ (k + 1) + 1 = k + 2
    OBVIOUS
  <2> QED
    BY <1>5, <1>6, <1>8, <2>1
<1>10. r[k + 3] < q1
  <2>1. k + 2 \in k .. k + 3 /\ (k + 2) + 1 = k + 3
    OBVIOUS
  <2> QED
    BY <1>4, <1>6, <1>9, <2>1
<1> QED
  <2>1. k + 3 \in k .. k + 3 /\ (k + 3) + 1 = k + 4
    OBVIOUS
  <2> QED
    BY <1>3, <1>6, <1>10, <2>1

LEMMA FourDigits == \A v \in 0 .. Uint32 - 1 : Fits(v, 4)
<1> TAKE v \in 0 .. Uint32 - 1
<1>1. v \in Nat
  OBVIOUS
<1>2. PICK r : Rests(r, v, 4)
  BY <1>1, AppendUintRests
<1>3. r[0] < (((1 * Radix) * Radix) * Radix) * Radix
  <2>1. Uint32 \in Int /\ (((1 * Radix) * Radix) * Radix) * Radix = Uint32
    <3>1. 1 * Radix = Radix
      BY RadixType
    <3>2. \A a \in Nat, b \in Nat : a * b \in Nat
      OBVIOUS
    <3> QED
      BY <3>1, <3>2, RadixType DEF Uint32
  <2> QED
    BY <1>2, <2>1 DEF Rests
<1>4. r[0 + 4] < 1
  BY <1>2, <1>3, FourShifts
<1>5. r[4] = 0
  BY <1>2, <1>4 DEF Rests
<1> QED
  BY <1>1, <1>2, <1>5 DEF Fits

LEMMA UintTypes == Uint32 \in Nat \ {0} /\ Uint64 \in Nat \ {0}
<1>1. \A a \in Nat \ {0}, b \in Nat \ {0} : a * b \in Nat \ {0}
  OBVIOUS
<1>2. Radix \in Nat \ {0}
  BY RadixType
<1>3. Uint32 \in Nat \ {0}
  BY <1>1, <1>2 DEF Uint32
<1> QED
  BY <1>1, <1>3 DEF Uint64

LEMMA EightDigits == \A v \in 0 .. Uint64 - 1 : Fits(v, 8)
<1> TAKE v \in 0 .. Uint64 - 1
<1>1. v \in Nat
  BY UintTypes
<1>2. PICK r : Rests(r, v, 8)
  BY <1>1, AppendUintRests
<1>3. \A a \in Nat, b \in Nat, c \in Nat : (a * b) * c = a * (b * c)
  OBVIOUS
<1>4. \A a \in Nat, b \in Nat : a * b \in Nat
  OBVIOUS
<1>5. (((Uint32 * Radix) * Radix) * Radix) * Radix = Uint64
  <2>1. PICK u \in Nat : u = Uint32
    BY UintTypes
  <2>2. PICK x \in Nat : x = Radix
    BY RadixType
  <2>3. (((u * x) * x) * x) * x = u * (((x * x) * x) * x)
    <3>1. /\ (u * x) * x = u * (x * x) /\ x * x \in Nat /\ (x * x) * x \in Nat
          /\ (u * (x * x)) * x = u * ((x * x) * x)
          /\ (u * ((x * x) * x)) * x = u * (((x * x) * x) * x)
      BY <1>3, <1>4
    <3> QED
      BY <3>1
  <2> QED
    BY <2>1, <2>2, <2>3 DEF Uint32, Uint64
<1>6. r[0] < (((Uint32 * Radix) * Radix) * Radix) * Radix
  BY <1>2, <1>5, UintTypes DEF Rests
<1>7. r[0 + 4] < Uint32
  BY <1>2, <1>6, FourShifts, UintTypes
<1>8. r[4] < (((1 * Radix) * Radix) * Radix) * Radix
  <2>1. (((1 * Radix) * Radix) * Radix) * Radix = Uint32
    <3>1. 1 * Radix = Radix
      BY RadixType
    <3> QED
      BY <3>1 DEF Uint32
  <2> QED
    BY <1>7, <2>1
<1>9. r[4 + 4] < 1
  BY <1>2, <1>8, FourShifts
<1>10. r[8] = 0
  BY <1>2, <1>9 DEF Rests
<1> QED
  BY <1>1, <1>2, <1>10 DEF Fits

----------------------------------------------------------------------------
(* What is serialised is deserialised again. *)

Named(layout) ==
  \A i \in 1 .. Len(layout), j \in 1 .. Len(layout) :
     layout[i].name = layout[j].name => i = j

AllFit(layout, values) ==
  \A i \in 1 .. Len(layout) : Fits(values[layout[i].name], layout[i].width)

LEMMA FieldRead ==
  ASSUME NEW layout, IsLayout(layout), Named(layout), NEW bytes, NEW i \in 1 .. Len(layout)
  PROVE  /\ layout[i].name \in DOMAIN Deserialize(layout, bytes)
         /\ Deserialize(layout, bytes)[layout[i].name] =
              getUint(bytes, Offset(layout, i), layout[i].width)
<1> DEFINE k == CHOOSE j \in DOMAIN layout : layout[j].name = layout[i].name
<1>1. DOMAIN layout = 1 .. Len(layout)
  BY DEF IsLayout
<1>2. k = i
  BY <1>1 DEF Named
<1>3. layout[i].name \in {layout[j].name : j \in DOMAIN layout}
  BY <1>1
<1> HIDE DEF k
<1>4. Deserialize(layout, bytes)[layout[i].name] =
        getUint(bytes, Offset(layout, k), layout[k].width)
  BY <1>3 DEF Deserialize, k
<1> QED
  BY <1>2, <1>3, <1>4 DEF Deserialize

LEMMA MessageRoundTrip ==
  ASSUME NEW layout, IsLayout(layout), Named(layout), NEW values, AllFit(layout, values),
         NEW bytes, Carries(layout, values, bytes), NEW i \in 1 .. Len(layout)
  PROVE  Deserialize(layout, bytes)[layout[i].name] = values[layout[i].name]
<1> DEFINE v == values[layout[i].name]
           w == layout[i].width
           o == Offset(layout, i)
<1>1. w \in Nat /\ Fits(v, w)
  BY DEF IsLayout, AllFit
<1>2. o \in Nat
  <2>1. i \in 1 .. Len(layout) + 1
    BY DEF IsLayout
  <2> QED
    BY <2>1, OffsetFacts
<1>3. \A j \in 1 .. w : bytes[o + j] = appendUint(v, w)[j]
  BY DEF Carries
<1>4. Deserialize(layout, bytes)[layout[i].name] = getUint(bytes, o, w)
  BY FieldRead
<1> HIDE DEF v, w, o
<1>5. getUint(bytes, o, w) = v
  BY <1>1, <1>2, <1>3, NumberRoundTrip
<1> QED
  BY <1>4, <1>5 DEF v

----------------------------------------------------------------------------
(* Arithmetic: divisors, congruences and powers. *)

LEMMA NaturalInduction ==
  ASSUME NEW S, 0 \in S, \A k \in Nat : k \in S => k + 1 \in S
  PROVE  \A n \in Nat : n \in S
<1> TAKE n \in Nat
<1>1. \A i \in 0 .. n : i \in S
  BY IntervalInduction
<1> QED
  BY <1>1

Divides(d, a) == \E k \in Int : a = d * k

Congruent(a, b, n) == Divides(n, a - b)

LEMMA DividesSum ==
  ASSUME NEW d \in Int, NEW a \in Int, NEW b \in Int, Divides(d, a), Divides(d, b)
  PROVE  Divides(d, a + b) /\ Divides(d, a - b)
<1>1. PICK k \in Int : a = d * k
  BY DEF Divides
<1>2. PICK l \in Int : b = d * l
  BY DEF Divides
<1>3. d * (k + l) = d * k + d * l /\ d * (k - l) = d * k - d * l
  OBVIOUS
<1>4. k + l \in Int /\ k - l \in Int /\ a + b = d * (k + l) /\ a - b = d * (k - l)
  BY <1>1, <1>2, <1>3
<1> QED
  BY <1>4 DEF Divides

LEMMA DividesTimes ==
  ASSUME NEW d \in Int, NEW a \in Int, NEW c \in Int, Divides(d, a)
  PROVE  Divides(d, a * c) /\ Divides(d, c * a)
<1>1. PICK k \in Int : a = d * k
  BY DEF Divides
<1>2. (d * k) * c = d * (k * c) /\ c * (d * k) = d * (k * c) /\ k * c \in Int
  OBVIOUS
<1> QED
  BY <1>1, <1>2 DEF Divides

LEMMA DividesTransitive ==
  ASSUME NEW d \in Int, NEW a \in Int, NEW b \in Int, Divides(d, a), Divides(a, b)
  PROVE  Divides(d, b)
<1>1. PICK k \in Int : b = a * k
  BY DEF Divides
<1> QED
  BY <1>1, DividesTimes

LEMMA DividesItself ==
  ASSUME NEW d \in Int
  PROVE  Divides(d, d) /\ Divides(d, 0) /\ Divides(1, d)
<1>1. d = d * 1 /\ 0 = d * 0 /\ d = 1 * d
  OBVIOUS
<1> QED
  BY <1>1 DEF Divides

LEMMA Remainders ==
  ASSUME NEW n \in Nat \ {0}, NEW a \in Nat
  PROVE  /\ a % n \in 0 .. n - 1 /\ Congruent(a % n, a, n) /\ Congruent(a, a % n, n)
         /\ Divides(n, a) <=> a % n = 0
<1>1. /\ a \div n \in Int /\ a % n \in 0 .. n - 1 /\ a = n * (a \div n) + (a % n)
  BY Division
<1>2. PICK q \in Int : q = a \div n
  BY <1>1
<1>3. PICK r \in 0 .. n - 1 : r = a % n
  BY <1>1
<1>4. a = n * q + r
  BY <1>1, <1>2, <1>3
<1>5. n * (0 - q) = 0 - n * q /\ n * q \in Int
  OBVIOUS
<1>6. a - r = n * q /\ r - a = n * (0 - q)
  BY <1>4, <1>5
<1>7. Congruent(r, a, n) /\ Congruent(a, r, n)
  BY <1>6 DEF Congruent, Divides
<1>8. ASSUME Divides(n, a)
      PROVE  r = 0
  <2>1. PICK k \in Int : a = n * k
    BY <1>8 DEF Divides
  <2>2. 0 \in 0 .. n - 1 /\ a = n * k + 0
    BY <2>1
  <2>3. a % n = 0
    BY <2>2, Quotient
  <2> QED
    BY <1>3, <2>3
<1>9. r = 0 => Divides(n, a)
  BY <1>4 DEF Divides
<1> QED
  BY <1>3, <1>7, <1>8, <1>9

LEMMA CongruentItself == \A n \in Int, x \in Int : Congruent(x, x, n)
<1> TAKE n \in Int, x \in Int
<1>1. x - x = 0
  OBVIOUS
<1> QED
  BY <1>1, DividesItself DEF Congruent

LEMMA CongruentSwap ==
  \A n \in Int, a \in Int, b \in Int : Congruent(a, b, n) => Congruent(b, a, n)
<1> TAKE n \in Int, a \in Int, b \in Int
<1> SUFFICES ASSUME Congruent(a, b, n) PROVE Congruent(b, a, n)
  OBVIOUS
<1>1. PICK k \in Int : a - b = n * k
  BY DEF Congruent, Divides
<1>2. n * (0 - k) = 0 - n * k /\ n * k \in Int
  OBVIOUS
<1>3. b - a = n * (0 - k) /\ 0 - k \in Int
  BY <1>1, <1>2
<1> QED
  BY <1>3 DEF Congruent, Divides

LEMMA CongruentThrough ==
  \A n \in Int, a \in Int, b \in Int, c \in Int :
     Congruent(a, b, n) /\ Congruent(b, c, n) => Congruent(a, c, n)
<1> TAKE n \in Int, a \in Int, b \in Int, c \in Int
<1> SUFFICES ASSUME Congruent(a, b, n), Congruent(b, c, n) PROVE Congruent(a, c, n)
  OBVIOUS
<1>1. (a - b) + (b - c) = a - c
  OBVIOUS
<1>2. Divides(n, (a - b) + (b - c))
  BY DividesSum DEF Congruent
<1> QED
  BY <1>1, <1>2 DEF Congruent

LEMMA CongruentTimes ==
  ASSUME NEW n \in Int, NEW a \in Int, NEW b \in Int, NEW c \in Int, NEW d \in Int,
         Congruent(a, b, n), Congruent(c, d, n)
  PROVE  Congruent(a * c, b * d, n) /\ a * c \in Int /\ b * d \in Int
<1>1. (a - b) * c + b * (c - d) = a * c - b * d
  <2>1. (a - b) * c = a * c - b * c
    OBVIOUS
  <2>2. b * (c - d) = b * c - b * d
    OBVIOUS
  <2>3. a * c \in Int /\ b * c \in Int /\ b * d \in Int
    OBVIOUS
  <2> QED
    BY <2>1, <2>2, <2>3
<1>2. Divides(n, (a - b) * c)
  BY DividesTimes DEF Congruent
<1>3. Divides(n, b * (c - d))
  BY DividesTimes DEF Congruent
<1>4. (a - b) * c \in Int /\ b * (c - d) \in Int
  OBVIOUS
<1>5. Divides(n, (a - b) * c + b * (c - d))
  BY <1>2, <1>3, <1>4, DividesSum
<1> QED
  BY <1>1, <1>5 DEF Congruent

\* Congruent numbers have the same remainder.
LEMMA CongruentRemainders ==
  ASSUME NEW n \in Nat \ {0}, NEW a \in Nat, NEW b \in Nat
  PROVE  Congruent(a, b, n) <=> a % n = b % n
<1>1. PICK r \in 0 .. n - 1 : r = b % n /\ Congruent(r, b, n) /\ Congruent(b, r, n)
  BY Remainders
<1>2. PICK s \in 0 .. n - 1 : s = a % n /\ Congruent(s, a, n) /\ Congruent(a, s, n)
  BY Remainders
<1>3. r \in Int /\ s \in Int /\ r \in Nat
  OBVIOUS
<1>4. ASSUME Congruent(a, b, n)
      PROVE  s = r
  <2>1. Congruent(a, r, n)
    BY <1>1, <1>3, <1>4, CongruentSwap, CongruentThrough
  <2>2. PICK k \in Int : a - r = n * k
    BY <2>1 DEF Congruent, Divides
  <2>3. a = n * k + r
    BY <2>2
  <2>4. a % n = r
    BY <2>3, Quotient
  <2> QED
    BY <1>2, <2>4
<1>5. ASSUME s = r
      PROVE  Congruent(a, b, n)
  BY <1>1, <1>2, <1>3, <1>5, CongruentSwap, CongruentThrough
<1> QED
  BY <1>1, <1>2, <1>4, <1>5

Power(base, exponent) ==
  LET power[k \in Nat] == IF k = 0 THEN 1 ELSE power[k - 1] * base
  IN  power[exponent]

LEMMA PowerFacts ==
  ASSUME NEW b \in Nat
  PROVE  /\ Power(b, 0) = 1
         /\ \A k \in Nat : Power(b, k) \in Nat /\ Power(b, k + 1) = Power(b, k) * b
<1> DEFINE E == {0}
           out == [k \in Nat |-> 1]
           next == [k \in Nat |-> k - 1]
           mu == [k \in Nat |-> k]
           c == [z \in Nat \X Nat |-> z[2] * b]
           power[k \in Nat] == IF k = 0 THEN 1 ELSE power[k - 1] * b
           Step(g) == [k \in Nat |-> IF k = 0 THEN 1 ELSE g[k - 1] * b]
<1>1. Falls(Nat, E, next, mu)
  BY DEF Falls
<1>2. \A x \in Nat, v \in Nat : c[<<x, v>>] = v * b /\ v * b \in Nat
  OBVIOUS
<1>3. PICK f : Solves(f, Nat, Nat, E, out, next, c)
  <2>1. \A x \in Nat : x \in E => out[x] \in Nat
    OBVIOUS
  <2> HIDE DEF c
  <2>2. Into(Nat, Nat, E, out, c)
    BY <1>2, <2>1 DEF Into
  <2> HIDE DEF E, out, next, mu
  <2> QED
    BY <1>1, <2>2, Recursion
<1>4. f \in [Nat -> Nat]
  BY <1>3 DEF Solves
<1>5. \A k \in Nat : f[k] = IF k = 0 THEN 1 ELSE f[k - 1] * b
  <2> TAKE k \in Nat
  <2>1. f[k] = IF k \in E THEN out[k] ELSE c[<<k, f[next[k]]>>]
    <3> HIDE DEF E, out, next, c
    <3> QED
      BY <1>3 DEF Solves, Value
  <2>2. CASE k = 0
    BY <2>1, <2>2
  <2>3. CASE k # 0
    <3>1. f[k - 1] \in Nat /\ next[k] = k - 1 /\ k \notin E
      BY <1>4, <2>3
    <3> HIDE DEF c, next, E
    <3> QED
      BY <1>2, <2>1, <2>3, <3>1
  <2> QED
    BY <2>2, <2>3
<1>6. f = Step(f)
  BY <1>4, <1>5
<1>7. power = CHOOSE g : g = Step(g)
  OBVIOUS
<1>8. \A k \in Nat : Power(b, k) = power[k]
  BY DEF Power
<1> HIDE DEF power
<1>9. power = Step(power)
  <2> HIDE DEF Step
  <2> QED
    BY <1>6, <1>7
<1>10. power[0] = 1 /\ \A k \in Nat : power[k + 1] = power[k] * b
  <2>1. \A k \in Nat : k + 1 \in Nat /\ k + 1 # 0 /\ (k + 1) - 1 = k
    OBVIOUS
  <2>2. \A k \in Nat : power[k] = IF k = 0 THEN 1 ELSE power[k - 1] * b
    BY <1>9
  <2> HIDE DEF Step
  <2>3. ASSUME NEW k \in Nat
        PROVE  power[k + 1] = power[k] * b
    <3>1. power[k + 1] = power[(k + 1) - 1] * b
      BY <2>1, <2>2
    <3> QED
      BY <2>1, <3>1
  <2> QED
    BY <2>2, <2>3
<1> DEFINE S == {k \in Nat : power[k] \in Nat}
<1>11. \A k \in Nat : k \in S
  <2>1. 0 \in S
    BY <1>10
  <2>2. ASSUME NEW k \in Nat, k \in S
        PROVE  k + 1 \in S
    <3>1. power[k] \in Nat /\ power[k + 1] = power[k] * b
      BY <1>10, <2>2
    <3>2. power[k] * b \in Nat
      BY <3>1
    <3> QED
      BY <3>1, <3>2
  <2> HIDE DEF S
  <2> QED
    BY <2>1, <2>2, NaturalInduction
<1> QED
  BY <1>8, <1>10, <1>11

LEMMA PowerType == \A b \in Nat, k \in Nat : Power(b, k) \in Nat
  BY PowerFacts

LEMMA PowerSum ==
  ASSUME NEW b \in Nat, NEW j \in Nat
  PROVE  \A k \in Nat : Power(b, j + k) = Power(b, j) * Power(b, k)
<1> DEFINE S == {k \in Nat : Power(b, j + k) = Power(b, j) * Power(b, k)}
<1>1. 0 \in S
  <2>1. Power(b, j) \in Nat /\ Power(b, 0) = 1 /\ j + 0 = j
    BY PowerFacts
  <2> QED
    BY <2>1
<1>2. ASSUME NEW k \in Nat, k \in S
      PROVE  k + 1 \in S
  <2>1. j + k \in Nat /\ j + (k + 1) = (j + k) + 1
    OBVIOUS
  <2>2. Power(b, j + (k + 1)) = Power(b, j + k) * b
    BY <2>1, PowerFacts
  <2>3. PICK x \in Nat, y \in Nat : x = Power(b, j) /\ y = Power(b, k)
    BY PowerFacts
  <2>4. (x * y) * b = x * (y * b)
    OBVIOUS
  <2>5. Power(b, k + 1) = y * b
    BY <2>3, PowerFacts
  <2> QED
    BY <1>2, <2>2, <2>3, <2>4, <2>5
<1>3. \A k \in Nat : k \in S
  <2> HIDE DEF S
  <2> QED
    BY <1>1, <1>2, NaturalInduction
<1> QED
  BY <1>3

LEMMA PowerTimes ==
  ASSUME NEW b \in Nat, NEW c \in Nat
  PROVE  \A k \in Nat : Power(b * c, k) = Power(b, k) * Power(c, k)
<1> DEFINE S == {k \in Nat : Power(b * c, k) = Power(b, k) * Power(c, k)}
<1>0. PICK d \in Nat : d = b * c
  OBVIOUS
<1>1. 0 \in S
  <2>1. Power(b, 0) = 1 /\ Power(c, 0) = 1 /\ Power(d, 0) = 1
    BY PowerFacts
  <2> QED
    BY <1>0, <2>1
<1>2. ASSUME NEW k \in Nat, k \in S
      PROVE  k + 1 \in S
  <2>1. PICK x \in Nat, y \in Nat : x = Power(b, k) /\ y = Power(c, k)
    BY PowerFacts
  <2>2. Power(b, k + 1) = x * b /\ Power(c, k + 1) = y * c /\ Power(d, k + 1) = Power(d, k) * d
    BY <2>1, PowerFacts
  <2>3. (x * y) * (b * c) = (x * b) * (y * c)
    <3>1. \A p \in Nat, q \in Nat, r \in Nat : (p * q) * r = p * (q * r) /\ p * q \in Nat /\ p * q = q * p
      OBVIOUS
    <3>2. (x * y) * (b * c) = x * (y * (b * c))
      BY <3>1
    <3>3. y * (b * c) = (y * b) * c /\ y * b = b * y
      BY <3>1
    <3>4. (b * y) * c = b * (y * c)
      BY <3>1
    <3>5. x * (b * (y * c)) = (x * b) * (y * c)
      BY <3>1
    <3> QED
      BY <3>2, <3>3, <3>4, <3>5
  <2> QED
    BY <1>0, <1>2, <2>1, <2>2, <2>3
<1>3. \A k \in Nat : k \in S
  <2> HIDE DEF S
  <2> QED
    BY <1>1, <1>2, NaturalInduction
<1> QED
  BY <1>3

LEMMA PowerPower ==
  ASSUME NEW b \in Nat, NEW j \in Nat
  PROVE  \A k \in Nat : Power(Power(b, j), k) = Power(b, j * k)
<1> DEFINE S == {k \in Nat : Power(Power(b, j), k) = Power(b, j * k)}
<1>0. PICK c \in Nat : c = Power(b, j)
  BY PowerFacts
<1>1. 0 \in S
  <2>1. Power(c, 0) = 1 /\ Power(b, 0) = 1 /\ j * 0 = 0
    BY PowerFacts
  <2> QED
    BY <1>0, <2>1
<1>2. ASSUME NEW k \in Nat, k \in S
      PROVE  k + 1 \in S
  <2>1. j * (k + 1) = j * k + j /\ j * k \in Nat
    OBVIOUS
  <2>2. Power(c, k + 1) = Power(c, k) * c
    BY PowerFacts
  <2>3. Power(b, j * k + j) = Power(b, j * k) * Power(b, j)
    BY <2>1, PowerSum
  <2> QED
    BY <1>0, <1>2, <2>1, <2>2, <2>3
<1>3. \A k \in Nat : k \in S
  <2> HIDE DEF S
  <2> QED
    BY <1>1, <1>2, NaturalInduction
<1> QED
  BY <1>3

LEMMA PowerOfOne == \A k \in Nat : Power(1, k) = 1
<1> DEFINE S == {k \in Nat : Power(1, k) = 1}
<1>1. 0 \in S
  BY PowerFacts
<1>2. ASSUME NEW k \in Nat, k \in S
      PROVE  k + 1 \in S
  BY <1>2, PowerFacts
<1>3. \A k \in Nat : k \in S
  <2> HIDE DEF S
  <2> QED
    BY <1>1, <1>2, NaturalInduction
<1> QED
  BY <1>3

LEMMA PowerCongruent ==
  ASSUME NEW n \in Int, NEW a \in Nat, NEW b \in Nat, Congruent(a, b, n)
  PROVE  \A k \in Nat : Congruent(Power(a, k), Power(b, k), n)
<1> DEFINE S == {k \in Nat : Congruent(Power(a, k), Power(b, k), n)}
<1>1. 0 \in S
  <2>1. Power(a, 0) = 1 /\ Power(b, 0) = 1
    BY PowerFacts
  <2>2. \A x \in Int : Congruent(x, x, n)
    BY CongruentItself
  <2> QED
    BY <2>1, <2>2
<1>2. ASSUME NEW k \in Nat, k \in S
      PROVE  k + 1 \in S
  <2>1. PICK x \in Nat, y \in Nat : x = Power(a, k) /\ y = Power(b, k)
    BY PowerFacts
  <2>2. Power(a, k + 1) = x * a /\ Power(b, k + 1) = y * b
    BY <2>1, PowerFacts
  <2>3. Congruent(x, y, n)
    BY <1>2, <2>1
  <2>4. Congruent(x * a, y * b, n)
    BY <2>3, CongruentTimes
  <2> QED
    BY <2>2, <2>4
<1>3. \A k \in Nat : k \in S
  <2> HIDE DEF S
  <2> QED
    BY <1>1, <1>2, NaturalInduction
<1> QED
  BY <1>3

----------------------------------------------------------------------------
(* The loops of rsa.c. *)

\* A loop that comes to its end has a value in every state.
LEMMA LoopEnds ==
  ASSUME NEW D, NEW E, NEW out, NEW next, NEW mu, Falls(D, E, next, mu)
  PROVE  \E f : f = [x \in D |-> IF x \in E THEN out[x] ELSE f[next[x]]]
<1> DEFINE V == {out[x] : x \in D}
           c == [z \in D \X V |-> z[2]]
<1>1. (\A x \in D : x \in E => out[x] \in V) /\ \A x \in D, v \in V : c[<<x, v>>] = v
  OBVIOUS
<1> HIDE DEF V, c
<1>2. Into(D, V, E, out, c)
  BY <1>1 DEF Into
<1>3. PICK f : Solves(f, D, V, E, out, next, c)
  BY <1>2, Recursion
<1>4. \A x \in D : f[x] = IF x \in E THEN out[x] ELSE f[next[x]]
  <2> TAKE x \in D
  <2>1. x \notin E => next[x] \in D /\ f[next[x]] \in V
    BY <1>3 DEF Falls, Solves
  <2> QED
    BY <1>1, <1>3, <2>1 DEF Solves, Value
<1>5. f = [x \in D |-> IF x \in E THEN out[x] ELSE f[next[x]]]
  BY <1>3, <1>4 DEF Solves
<1> QED
  BY <1>5

PowerStates == [base : Nat, exponent : Nat, result : Nat]

Squared(s, n) ==
  [base |-> (s.base * s.base) % n,
   exponent |-> s.exponent \div 2,
   result |-> IF s.exponent % 2 = 1 THEN (s.result * s.base) % n ELSE s.result]

\* The loop of modPow.
Squares(loop, n) ==
  /\ \A s \in PowerStates :
       loop[s] = IF s.exponent = 0 THEN s.result ELSE loop[Squared(s, n)]
  /\ \A base \in Nat, exponent \in Nat :
       modPow(base, exponent, n) =
         IF n = 1 THEN 0
         ELSE loop[[base |-> base % n, exponent |-> exponent, result |-> 1]]

LEMMA Halves ==
  ASSUME NEW e \in Nat, e # 0
  PROVE  /\ e \div 2 \in Nat /\ e \div 2 < e
         /\ IF e % 2 = 1 THEN e = 2 * (e \div 2) + 1 ELSE e = 2 * (e \div 2)
  OBVIOUS

LEMMA SquaredType ==
  ASSUME NEW n \in Nat \ {0}, NEW s \in PowerStates, s.exponent # 0
  PROVE  Squared(s, n) \in PowerStates /\ Squared(s, n).exponent < s.exponent
<1>1. s.base \in Nat /\ s.exponent \in Nat /\ s.result \in Nat
  BY DEF PowerStates
<1>2. \A a \in Nat, b \in Nat : (a * b) % n \in Nat
  <2> TAKE a \in Nat, b \in Nat
  <2>1. PICK x \in Nat : x = a * b
    OBVIOUS
  <2>2. x % n \in Nat
    BY Remainders
  <2> QED
    BY <2>1, <2>2
<1>3. s.exponent \div 2 \in Nat /\ s.exponent \div 2 < s.exponent
  BY <1>1, Halves
<1>4. (s.base * s.base) % n \in Nat /\ (s.result * s.base) % n \in Nat
  BY <1>1, <1>2
<1> QED
  BY <1>1, <1>3, <1>4 DEF Squared, PowerStates

LEMMA PowerLoop ==
  ASSUME NEW n \in Nat \ {0}
  PROVE  \E loop : Squares(loop, n)
<1> DEFINE E == {s \in PowerStates : s.exponent = 0}
           out == [s \in PowerStates |-> s.result]
           next == [s \in PowerStates |-> Squared(s, n)]
           mu == [s \in PowerStates |-> s.exponent]
           loop[s \in [base : Nat, exponent : Nat, result : Nat]] ==
             IF s.exponent = 0 THEN s.result
             ELSE loop[[base |-> (s.base * s.base) % n,
                        exponent |-> s.exponent \div 2,
                        result |-> IF s.exponent % 2 = 1 THEN (s.result * s.base) % n
                                   ELSE s.result]]
           Step(g) == [s \in PowerStates |->
                         IF s.exponent = 0 THEN s.result ELSE g[Squared(s, n)]]
<1>1. Falls(PowerStates, E, next, mu)
  <2>1. \A s \in PowerStates : mu[s] \in Nat
    BY DEF PowerStates
  <2>2. ASSUME NEW s \in PowerStates, s \notin E
        PROVE  next[s] \in PowerStates /\ mu[next[s]] < mu[s]
    <3>1. s.exponent # 0 /\ next[s] = Squared(s, n)
      BY <2>2
    <3>2. Squared(s, n) \in PowerStates /\ Squared(s, n).exponent < s.exponent
      BY <3>1, SquaredType
    <3> QED
      BY <3>1, <3>2
  <2> HIDE DEF mu, next, E
  <2> QED
    BY <2>1, <2>2 DEF Falls
<1>2. PICK f : f = [s \in PowerStates |-> IF s \in E THEN out[s] ELSE f[next[s]]]
  <2> HIDE DEF E, out, next, mu
  <2> QED
    BY <1>1, LoopEnds
<1>3. f = Step(f)
  <2>1. \A s \in PowerStates : f[s] = IF s \in E THEN out[s] ELSE f[next[s]]
    BY <1>2
  <2>2. f = [s \in PowerStates |-> f[s]]
    BY <1>2
  <2>3. \A s \in PowerStates : f[s] = IF s.exponent = 0 THEN s.result ELSE f[Squared(s, n)]
    BY <2>1
  <2> QED
    BY <2>2, <2>3
<1>4. loop = CHOOSE g : g = Step(g)
  BY DEF Squared, PowerStates
<1>5. \A base \in Nat, exponent \in Nat :
        modPow(base, exponent, n) =
          IF n = 1 THEN 0
          ELSE loop[[base |-> base % n, exponent |-> exponent, result |-> 1]]
  BY DEF modPow
<1> HIDE DEF loop
<1>6. loop = Step(loop)
  <2> HIDE DEF Step
  <2> QED
    BY <1>3, <1>4
<1>7. \A s \in PowerStates :
        loop[s] = IF s.exponent = 0 THEN s.result ELSE loop[Squared(s, n)]
  BY <1>6
<1> QED
  BY <1>5, <1>7 DEF Squares

\* A round of the loop keeps the value that is computed.
LEMMA SquareKeeps ==
  ASSUME NEW n \in Nat \ {0, 1}, NEW s \in PowerStates, s.exponent # 0, NEW t, t = Squared(s, n)
  PROVE  /\ Congruent(t.result * Power(t.base, t.exponent),
                      s.result * Power(s.base, s.exponent), n)
         /\ s.result < n => t.result < n
<1>1. PICK b \in Nat, e \in Nat, r \in Nat : b = s.base /\ e = s.exponent /\ r = s.result
  BY DEF PowerStates
<1>2. PICK h \in Nat : h = e \div 2 /\ IF e % 2 = 1 THEN e = 2 * h + 1 ELSE e = 2 * h
  BY <1>1, Halves
<1>3. PICK q \in Nat : q = b * b
  OBVIOUS
<1>4. PICK c \in 0 .. n - 1 : c = q % n /\ Congruent(c, q, n)
  BY Remainders
<1>5. t.base = c /\ t.exponent = h /\ t.result = IF e % 2 = 1 THEN (r * b) % n ELSE r
  BY <1>1, <1>2, <1>3, <1>4 DEF Squared
<1>6. c \in Nat /\ Power(c, h) \in Nat /\ Power(q, h) \in Nat /\ Power(b, e) \in Nat
  <2>1. c \in Nat
    OBVIOUS
  <2>2. \A x \in Nat, k \in Nat : Power(x, k) \in Nat
    BY PowerType
  <2> QED
    BY ONLY b \in Nat, e \in Nat, h \in Nat, q \in Nat, <2>1, <2>2
<1>7. Congruent(Power(c, h), Power(q, h), n)
  BY <1>4, <1>6, PowerCongruent
<1>8. Power(q, h) = Power(b, 2 * h) /\ 2 * h \in Nat
  <2>1. Power(b, h) \in Nat
    BY PowerType
  <2>4. 2 * h = h + h /\ h + h \in Nat
    OBVIOUS
  <2>2. Power(b * b, h) = Power(b, h) * Power(b, h)
    BY PowerTimes
  <2>3. Power(b, h + h) = Power(b, h) * Power(b, h)
    BY PowerSum
  <2> QED
    BY <1>3, <2>2, <2>3, <2>4
<1>9. CASE e % 2 = 1
  <2>1. PICK p \in Nat : p = r * b
    OBVIOUS
  <2>2. PICK d \in 0 .. n - 1 : d = p % n /\ Congruent(d, p, n)
    BY Remainders
  <2>3. t.result = d
    BY <1>5, <1>9, <2>1, <2>2
  <2>4. Congruent(d * Power(c, h), p * Power(q, h), n)
    BY <1>6, <1>7, <2>2, CongruentTimes
  <2>5. Power(b, e) = Power(q, h) * b
    <3>1. PICK k \in Nat : k = 2 * h /\ e = k + 1
      BY <1>2, <1>9
    <3>2. \A j \in Nat : Power(b, j + 1) = Power(b, j) * b
      BY ONLY b \in Nat, PowerFacts
    <3>3. Power(b, k + 1) = Power(b, k) * b
      BY <3>2
    <3> QED
      BY <1>8, <3>1, <3>3
  <2>6. p * Power(q, h) = r * Power(b, e)
    <3>1. PICK x \in Nat : x = Power(q, h)
      BY <1>6
    <3>2. (r * b) * x = r * (x * b)
      OBVIOUS
    <3> QED
      BY <2>1, <2>5, <3>1, <3>2
  <2>7. Congruent(d * Power(c, h), r * Power(b, e), n)
    BY <2>4, <2>6
  <2> QED
    BY <1>1, <1>5, <2>3, <2>7
<1>10. CASE e % 2 # 1
  <2>1. t.result = r
    BY <1>5, <1>10
  <2>2. Power(b, e) = Power(q, h)
    BY <1>2, <1>8, <1>10
  <2>3. \A x \in Int : Congruent(x, x, n)
    BY CongruentItself
  <2>4. Congruent(r * Power(c, h), r * Power(q, h), n)
    BY <1>6, <1>7, <2>3, CongruentTimes
  <2> QED
    BY <1>1, <1>5, <2>1, <2>2, <2>4
<1> QED
  BY <1>9, <1>10

\* modPow, square and multiply, computes the remainder of the power, for every
\* base, exponent and modulus (rsa.c).
THEOREM ModPowIsPower ==
  ASSUME NEW n \in Nat \ {0}, NEW base \in Nat, NEW exponent \in Nat
  PROVE  modPow(base, exponent, n) = Power(base, exponent) % n
<1>0. Power(base, exponent) \in Nat
  BY PowerFacts
<1>1. CASE n = 1
  <2>1. PICK loop : Squares(loop, n)
    BY PowerLoop
  <2>2. modPow(base, exponent, n) = 0
    BY <1>1, <2>1 DEF Squares
  <2>3. Power(base, exponent) % n \in 0 .. n - 1
    BY <1>0, Remainders
  <2> QED
    BY <1>1, <2>2, <2>3
<1>2. CASE n # 1
  <2>1. PICK loop : Squares(loop, n)
    BY PowerLoop
  <2> DEFINE next == [s \in PowerStates |-> Squared(s, n)]
             mu == [s \in PowerStates |-> s.exponent]
             E == {s \in PowerStates : s.exponent = 0}
             value(s) == s.result * Power(s.base, s.exponent)
             S == {s \in PowerStates : s.result < n => loop[s] = value(s) % n}
  <2>2. \A s \in PowerStates : value(s) \in Nat
    <3> TAKE s \in PowerStates
    <3>1. s.result \in Nat /\ Power(s.base, s.exponent) \in Nat
      BY PowerFacts DEF PowerStates
    <3> QED
      BY <3>1
  <2>3. Falls(PowerStates, E, next, mu)
    <3>1. \A s \in PowerStates : s.exponent # 0 =>
            Squared(s, n) \in PowerStates /\ Squared(s, n).exponent < s.exponent
      BY SquaredType
    <3>2. \A s \in PowerStates : mu[s] = s.exponent /\ mu[s] \in Nat /\ next[s] = Squared(s, n)
      BY DEF PowerStates
    <3>3. \A s \in PowerStates : s \notin E => s.exponent # 0
      OBVIOUS
    <3> HIDE DEF next, mu, E
    <3>4. \A s \in PowerStates : s \notin E => next[s] \in PowerStates /\ mu[next[s]] < mu[s]
      BY <3>1, <3>2, <3>3
    <3> QED
      BY <3>2, <3>4 DEF Falls
  <2>4. ASSUME NEW s \in PowerStates, s \in E \/ next[s] \in S
        PROVE  s \in S
    <3> SUFFICES ASSUME s.result < n PROVE loop[s] = value(s) % n
      OBVIOUS
    <3>1. s.base \in Nat /\ s.exponent \in Nat /\ s.result \in Nat
      BY DEF PowerStates
    <3>2. CASE s.exponent = 0
      <4>1. loop[s] = s.result
        BY <2>1, <3>2 DEF Squares
      <4>2. Power(s.base, 0) = 1
        BY <3>1, PowerFacts
      <4>3. value(s) = s.result
        BY <3>1, <3>2, <4>2
      <4>4. PICK r \in 0 .. n - 1 : r = s.result
        BY <3>1
      <4>5. r = n * 0 + r
        OBVIOUS
      <4>6. r % n = r
        BY <4>5, Quotient
      <4> HIDE DEF value
      <4> QED
        BY <4>1, <4>3, <4>4, <4>6
    <3>3. CASE s.exponent # 0
      <4>1. PICK t \in PowerStates : t = Squared(s, n)
        BY <3>3, SquaredType
      <4>2. next[s] = t /\ s \notin E
        BY <3>3, <4>1
      <4>3. t \in S
        BY <2>4, <4>2
      <4>4. loop[s] = loop[t]
        BY <2>1, <3>3, <4>1 DEF Squares
      <4>5. Congruent(value(t), value(s), n) /\ t.result < n
        BY <1>2, <3>3, <4>1, SquareKeeps
      <4>6. value(t) % n = value(s) % n
        BY <2>2, <4>5, CongruentRemainders
      <4>7. loop[t] = value(t) % n
        BY <4>3, <4>5
      <4> QED
        BY <4>4, <4>6, <4>7
    <3> QED
      BY <3>2, <3>3
  <2>5. \A s \in PowerStates : s \in S
    <3> HIDE DEF S, E, next, mu
    <3> QED
      BY <2>3, <2>4, FallInduction
  <2>6. PICK b \in 0 .. n - 1 : b = base % n /\ Congruent(b, base, n)
    BY Remainders
  <2> DEFINE s0 == [base |-> b, exponent |-> exponent, result |-> 1]
  <2>7. s0 \in PowerStates /\ s0.result < n
    BY <1>2 DEF PowerStates
  <2>8. loop[s0] = value(s0) % n
    BY <2>5, <2>7
  <2>9. modPow(base, exponent, n) = loop[s0]
    BY <1>2, <2>1, <2>6 DEF Squares
  <2>10. value(s0) = Power(b, exponent) /\ Power(b, exponent) \in Nat
    <3>1. Power(b, exponent) \in Nat
      BY PowerFacts
    <3> QED
      BY <3>1
  <2>11. Congruent(Power(b, exponent), Power(base, exponent), n)
    BY <2>6, PowerCongruent
  <2>12. Power(b, exponent) % n = Power(base, exponent) % n
    BY <1>0, <2>10, <2>11, CongruentRemainders
  <2> HIDE DEF value, s0
  <2> QED
    BY <2>8, <2>9, <2>10, <2>12
<1> QED
  BY <1>1, <1>2

PairStates == [a : Nat, b : Nat]

LEMMA GcdFacts ==
  /\ \A a \in Nat : gcd(a, 0) = a
  /\ \A a \in Nat, b \in Nat \ {0} : gcd(a, b) = gcd(b, a % b)
<1> DEFINE Divided(s) == [a |-> s.b, b |-> s.a % s.b]
           E == {s \in PairStates : s.b = 0}
           out == [s \in PairStates |-> s.a]
           next == [s \in PairStates |-> Divided(s)]
           mu == [s \in PairStates |-> s.b]
           loop[s \in [a : Nat, b : Nat]] ==
             IF s.b = 0 THEN s.a ELSE loop[[a |-> s.b, b |-> s.a % s.b]]
           Step(g) == [s \in PairStates |-> IF s.b = 0 THEN s.a ELSE g[Divided(s)]]
<1>1. Falls(PairStates, E, next, mu)
  <2>1. \A s \in PairStates : mu[s] \in Nat
    BY DEF PairStates
  <2>2. ASSUME NEW s \in PairStates, s \notin E
        PROVE  next[s] \in PairStates /\ mu[next[s]] < mu[s]
    <3>1. s.a \in Nat /\ s.b \in Nat \ {0} /\ next[s] = Divided(s)
      BY <2>2 DEF PairStates
    <3>2. s.a % s.b \in Nat /\ s.a % s.b < s.b
      BY <3>1, DivisionType
    <3>3. Divided(s) \in PairStates /\ Divided(s).b < s.b
      BY <3>1, <3>2 DEF PairStates
    <3> HIDE DEF Divided
    <3> QED
      BY <3>1, <3>3
  <2> HIDE DEF mu, next, E
  <2> QED
    BY <2>1, <2>2 DEF Falls
<1>2. PICK f : f = [s \in PairStates |-> IF s \in E THEN out[s] ELSE f[next[s]]]
  <2> HIDE DEF E, out, next, mu
  <2> QED
    BY <1>1, LoopEnds
<1>3. f = Step(f)
  <2> HIDE DEF Divided
  <2>1. \A s \in PairStates : f[s] = IF s \in E THEN out[s] ELSE f[next[s]]
    BY <1>2
  <2>2. f = [s \in PairStates |-> f[s]]
    BY <1>2
  <2>3. \A s \in PairStates : f[s] = IF s.b = 0 THEN s.a ELSE f[Divided(s)]
    BY <2>1
  <2> QED
    BY <2>2, <2>3
<1>4. loop = CHOOSE g : g = Step(g)
  BY DEF PairStates
<1>5. \A a \in Nat, b \in Nat : gcd(a, b) = loop[[a |-> a, b |-> b]]
  BY DEF gcd
<1> HIDE DEF loop
<1>6. loop = Step(loop)
  <2> HIDE DEF Step
  <2> QED
    BY <1>3, <1>4
<1>7. \A s \in PairStates : loop[s] = IF s.b = 0 THEN s.a ELSE loop[Divided(s)]
  <2> HIDE DEF Divided
  <2> QED
    BY <1>6
<1>8. \A a \in Nat : gcd(a, 0) = a
  <2> TAKE a \in Nat
  <2>1. PICK s \in PairStates : s = [a |-> a, b |-> 0]
    BY DEF PairStates
  <2> QED
    BY <1>5, <1>7, <2>1
<1>9. ASSUME NEW a \in Nat, NEW b \in Nat \ {0}
      PROVE  gcd(a, b) = gcd(b, a % b)
  <2>1. PICK s \in PairStates : s = [a |-> a, b |-> b]
    BY DEF PairStates
  <2>2. a % b \in Nat
    BY Division
  <2>3. Divided(s) = [a |-> b, b |-> a % b]
    BY <2>1
  <2>4. gcd(a, b) = loop[s] /\ s.b # 0
    BY <1>5, <2>1
  <2>5. gcd(b, a % b) = loop[Divided(s)]
    <3> HIDE DEF Divided
    <3> QED
      BY <1>5, <2>2, <2>3
  <2> HIDE DEF Divided
  <2> QED
    BY <1>7, <2>4, <2>5
<1> QED
  BY <1>8, <1>9

InverseStates == [a : Nat, m : Nat, x0 : Int, x1 : Int]

Euclid(s) == [a |-> s.m, m |-> s.a % s.m, x0 |-> s.x1 - (s.a \div s.m) * s.x0, x1 |-> s.x0]

\* The loop of modInverse.
Euclidean(loop) ==
  /\ \A s \in InverseStates :
       loop[s] = IF s.a > 1 /\ s.m # 0 THEN loop[Euclid(s)] ELSE s.x1
  /\ \A a0 \in Nat, m0 \in Nat :
       modInverse(a0, m0) =
         LET x == loop[[a |-> a0, m |-> m0, x0 |-> 0, x1 |-> 1]]
         IN  IF m0 = 1 THEN 0 ELSE IF x < 0 THEN x + m0 ELSE x

LEMMA EuclidType ==
  ASSUME NEW s \in InverseStates, s.m # 0
  PROVE  Euclid(s) \in InverseStates /\ Euclid(s).m < s.m
<1>1. s.a \in Nat /\ s.m \in Nat \ {0} /\ s.x0 \in Int /\ s.x1 \in Int
  BY DEF InverseStates
<1>2. s.a \div s.m \in Nat
  BY <1>1, DivisionType
<1>3. s.a % s.m \in Nat /\ s.a % s.m < s.m
  BY <1>1, DivisionType
<1>4. s.x1 - (s.a \div s.m) * s.x0 \in Int
  <2>1. PICK q \in Nat : q = s.a \div s.m
    BY <1>2
  <2>2. q * s.x0 \in Int
    BY <1>1
  <2> QED
    BY <1>1, <2>1, <2>2
<1> QED
  BY <1>1, <1>3, <1>4 DEF Euclid, InverseStates

LEMMA InverseLoop == \E loop : Euclidean(loop)
<1> DEFINE E == {s \in InverseStates : ~ (s.a > 1 /\ s.m # 0)}
           out == [s \in InverseStates |-> s.x1]
           next == [s \in InverseStates |-> Euclid(s)]
           mu == [s \in InverseStates |-> s.m]
           loop[s \in [a : Nat, m : Nat, x0 : Int, x1 : Int]] ==
             IF s.a > 1 /\ s.m # 0
             THEN loop[[a |-> s.m, m |-> s.a % s.m,
                        x0 |-> s.x1 - (s.a \div s.m) * s.x0, x1 |-> s.x0]]
             ELSE s.x1
           Step(g) == [s \in InverseStates |->
                         IF s.a > 1 /\ s.m # 0 THEN g[Euclid(s)] ELSE s.x1]
<1>1. Falls(InverseStates, E, next, mu)
  <2>1. \A s \in InverseStates : mu[s] \in Nat
    BY DEF InverseStates
  <2>2. ASSUME NEW s \in InverseStates, s \notin E
        PROVE  next[s] \in InverseStates /\ mu[next[s]] < mu[s]
    <3>1. s.m # 0 /\ next[s] = Euclid(s)
      BY <2>2
    <3>2. Euclid(s) \in InverseStates /\ Euclid(s).m < s.m
      BY <3>1, EuclidType
    <3> QED
      BY <3>1, <3>2
  <2> HIDE DEF mu, next, E
  <2> QED
    BY <2>1, <2>2 DEF Falls
<1>2. PICK f : f = [s \in InverseStates |-> IF s \in E THEN out[s] ELSE f[next[s]]]
  <2> HIDE DEF E, out, next, mu
  <2> QED
    BY <1>1, LoopEnds
<1>3. f = Step(f)
  <2>1. \A s \in InverseStates : f[s] = IF s \in E THEN out[s] ELSE f[next[s]]
    BY <1>2
  <2>2. f = [s \in InverseStates |-> f[s]]
    BY <1>2
  <2>3. \A s \in InverseStates : f[s] = IF s.a > 1 /\ s.m # 0 THEN f[Euclid(s)] ELSE s.x1
    BY <2>1
  <2> QED
    BY <2>2, <2>3
<1>4. loop = CHOOSE g : g = Step(g)
  BY DEF Euclid, InverseStates
<1>5. \A a0 \in Nat, m0 \in Nat :
        modInverse(a0, m0) =
          LET x == loop[[a |-> a0, m |-> m0, x0 |-> 0, x1 |-> 1]]
          IN  IF m0 = 1 THEN 0 ELSE IF x < 0 THEN x + m0 ELSE x
  BY DEF modInverse
<1> HIDE DEF loop
<1>6. loop = Step(loop)
  <2> HIDE DEF Step
  <2> QED
    BY <1>3, <1>4
<1>7. \A s \in InverseStates :
        loop[s] = IF s.a > 1 /\ s.m # 0 THEN loop[Euclid(s)] ELSE s.x1
  BY <1>6
<1> QED
  BY <1>5, <1>7 DEF Euclidean

\* How large the coefficients of a round are, of either sign.
Sized(s, m0, u, v) ==
  /\ \/ s.x0 = u /\ s.x1 = 0 - v
     \/ s.x0 = 0 - u /\ s.x1 = v
  /\ u * s.a + v * s.m = m0 /\ v <= m0

\* In every round a and m are multiples of a0, up to multiples of m0.
Bezout(s, a0, m0) ==
  /\ s.a # 0 /\ gcd(s.a, s.m) = 1
  /\ Congruent(s.a, s.x1 * a0, m0) /\ Congruent(s.m, s.x0 * a0, m0)
  /\ \E u \in Nat, v \in Nat : Sized(s, m0, u, v)

LEMMA SizedNext ==
  ASSUME NEW u \in Nat, NEW v \in Nat, NEW a \in Nat \ {0}, NEW m \in Nat, NEW m0 \in Nat,
         u * a + v * m = m0, NEW q \in Nat, NEW r \in Nat, a = m * q + r
  PROVE  (v + q * u) * m + u * r = m0 /\ u <= m0 /\ v + q * u \in Nat
<1>1. PICK x \in Nat, y \in Nat : x = u * a /\ y = v * m
  OBVIOUS
<1>2. (v + q * u) * m = v * m + (q * u) * m
  OBVIOUS
<1>3. u * (m * q + r) = u * (m * q) + u * r
  OBVIOUS
<1>4. u * (m * q) = (q * u) * m
  <2>1. u * (m * q) = (u * m) * q /\ (q * u) * m = q * (u * m) /\ (u * m) * q = q * (u * m)
    OBVIOUS
  <2> QED
    BY <2>1
<1>5. (q * u) * m \in Nat /\ u * r \in Nat /\ q * u \in Nat
  OBVIOUS
<1>6. (v + q * u) * m + u * r = m0
  BY <1>1, <1>2, <1>3, <1>4, <1>5
<1>7. u <= u * a
  <2>1. \A c \in Nat, d \in Nat : c * (d + 1) = c * d + c /\ c * d \in Nat
    OBVIOUS
  <2>2. u * ((a - 1) + 1) = u * (a - 1) + u /\ u * (a - 1) \in Nat
    BY <2>1
  <2>3. (a - 1) + 1 = a
    OBVIOUS
  <2> QED
    BY <2>2, <2>3
<1>8. u <= m0
  BY <1>1, <1>7
<1> QED
  BY <1>5, <1>6, <1>8

LEMMA EuclidKeeps ==
  ASSUME NEW a0 \in Nat, NEW m0 \in Nat \ {0}, NEW s \in InverseStates, Bezout(s, a0, m0),
         s.a > 1, s.m # 0, NEW t, t = Euclid(s)
  PROVE  Bezout(t, a0, m0)
<1>1. PICK a \in Nat \ {0}, m \in Nat \ {0}, x0 \in Int, x1 \in Int :
        a = s.a /\ m = s.m /\ x0 = s.x0 /\ x1 = s.x1
  BY DEF InverseStates, Bezout
<1>2. PICK q \in Nat, r \in Nat : q = a \div m /\ r = a % m
  BY DivisionType
<1>3. a = m * q + r
  BY <1>2, Division
<1>4. t.a = m /\ t.m = r /\ t.x0 = x1 - q * x0 /\ t.x1 = x0
  BY <1>1, <1>2 DEF Euclid
<1>5. gcd(m, r) = 1
  BY <1>1, <1>2, GcdFacts DEF Bezout
<1>6. Congruent(r, (x1 - q * x0) * a0, m0)
  <2>1. PICK y0 \in Int, y1 \in Int : y0 = x0 * a0 /\ y1 = x1 * a0
    OBVIOUS
  <2>2. Divides(m0, a - y1) /\ Divides(m0, m - y0)
    BY <1>1, <2>1 DEF Bezout, Congruent
  <2>3. Divides(m0, q * (m - y0))
    BY <2>2, DividesTimes
  <2>4. q * (m - y0) \in Int /\ q * (m - y0) = q * m - q * y0 /\ q * m \in Int /\ q * y0 \in Int
    OBVIOUS
  <2>5. Divides(m0, (a - y1) - q * (m - y0))
    BY <2>2, <2>3, <2>4, DividesSum
  <2>6. (x1 - q * x0) * a0 = y1 - q * y0
    <3>1. (x1 - q * x0) * a0 = x1 * a0 - (q * x0) * a0
      OBVIOUS
    <3>2. (q * x0) * a0 = q * (x0 * a0)
      OBVIOUS
    <3> QED
      BY <2>1, <3>1, <3>2
  <2>7. m * q = q * m
    OBVIOUS
  <2>8. (a - y1) - q * (m - y0) = r - (y1 - q * y0)
    BY <1>3, <2>4, <2>7
  <2> QED
    BY <2>5, <2>6, <2>8 DEF Congruent
<1>7. Congruent(m, x0 * a0, m0)
  BY <1>1 DEF Bezout
<1>8. \E u \in Nat, v \in Nat : Sized(t, m0, u, v)
  <2>1. PICK u \in Nat, v \in Nat : Sized(s, m0, u, v)
    BY DEF Bezout
  <2>2. u * a + v * m = m0
    BY <1>1, <2>1 DEF Sized
  <2>3. PICK u1 \in Nat : u1 = v + q * u
    OBVIOUS
  <2>4. u1 * m + u * r = m0 /\ u <= m0
    BY <1>3, <2>2, <2>3, SizedNext
  <2>5. (x0 = u /\ x1 = 0 - v) \/ (x0 = 0 - u /\ x1 = v)
    BY <1>1, <2>1 DEF Sized
  <2>6. PICK z \in Int : z = q * u /\ q * (0 - u) = 0 - z
    OBVIOUS
  <2>7. PICK y \in Int : y = q * x0
    OBVIOUS
  <2>8. u1 = v + z /\ t.x0 = x1 - y
    BY <1>4, <2>3, <2>6, <2>7
  <2>9. (y = z /\ x0 = u /\ x1 = 0 - v) \/ (y = 0 - z /\ x0 = 0 - u /\ x1 = v)
    BY <2>5, <2>6, <2>7
  <2>10. (t.x0 = u1 /\ x0 = 0 - u) \/ (t.x0 = 0 - u1 /\ x0 = u)
    BY <2>8, <2>9
  <2>11. Sized(t, m0, u1, u)
    BY <1>4, <2>4, <2>10 DEF Sized
  <2> QED
    BY <2>11
<1> QED
  BY <1>4, <1>5, <1>6, <1>7, <1>8 DEF Bezout

\* The extended Euclidean algorithm finds an inverse of every number that has
\* one (modInverse).
THEOREM ModInverseIsInverse ==
  ASSUME NEW a0 \in Nat \ {0}, NEW m0 \in Nat \ {0}, gcd(a0, m0) = 1
  PROVE  modInverse(a0, m0) \in Nat /\ Congruent(modInverse(a0, m0) * a0, 1, m0)
<1>1. PICK loop : Euclidean(loop)
  BY InverseLoop
<1> DEFINE Good(x) == x \in Int /\ 0 - m0 <= x /\ Congruent(x * a0, 1, m0)
           E == {s \in InverseStates : ~ (s.a > 1 /\ s.m # 0)}
           next == [s \in InverseStates |-> Euclid(s)]
           mu == [s \in InverseStates |-> s.m]
           S == {s \in InverseStates : Bezout(s, a0, m0) => Good(loop[s])}
<1>2. Falls(InverseStates, E, next, mu)
  <2>1. \A s \in InverseStates : mu[s] \in Nat
    BY DEF InverseStates
  <2>2. ASSUME NEW s \in InverseStates, s \notin E
        PROVE  next[s] \in InverseStates /\ mu[next[s]] < mu[s]
    <3>1. s.m # 0 /\ next[s] = Euclid(s)
      BY <2>2
    <3>2. Euclid(s) \in InverseStates /\ Euclid(s).m < s.m
      BY <3>1, EuclidType
    <3> QED
      BY <3>1, <3>2
  <2> HIDE DEF mu, next, E
  <2> QED
    BY <2>1, <2>2 DEF Falls
<1>3. ASSUME NEW s \in InverseStates, s \in E \/ next[s] \in S
      PROVE  s \in S
  <2> SUFFICES ASSUME Bezout(s, a0, m0) PROVE Good(loop[s])
    OBVIOUS
  <2>1. s.a \in Nat \ {0} /\ s.m \in Nat /\ s.x0 \in Int /\ s.x1 \in Int
    BY DEF InverseStates, Bezout
  <2>2. CASE s.a > 1 /\ s.m # 0
    <3>1. PICK t : t = Euclid(s)
      OBVIOUS
    <3>2. t \in S
      BY <1>3, <2>2, <3>1
    <3>3. Bezout(t, a0, m0)
      BY <2>2, <3>1, EuclidKeeps
    <3>4. loop[s] = loop[t]
      BY <1>1, <2>2, <3>1 DEF Euclidean
    <3> HIDE DEF Good
    <3> QED
      BY <3>2, <3>3, <3>4
  <2>3. CASE ~ (s.a > 1 /\ s.m # 0)
    <3>1. loop[s] = s.x1
      BY <1>1, <2>3 DEF Euclidean
    <3>2. s.a = 1
      <4>1. CASE s.m = 0
        <5>1. gcd(s.a, 0) = s.a
          BY <2>1, GcdFacts
        <5> QED
          BY <4>1, <5>1 DEF Bezout
      <4>2. CASE ~ (s.a > 1)
        BY <2>1, <4>2
      <4> QED
        BY <2>3, <4>1, <4>2
    <3>3. PICK x \in Int : x = s.x1
      BY <2>1
    <3>4. Congruent(1, x * a0, m0)
      BY <3>2, <3>3 DEF Bezout
    <3>5. x * a0 \in Int
      OBVIOUS
    <3>6. Congruent(x * a0, 1, m0)
      BY <3>4, <3>5, CongruentSwap
    <3>7. PICK u \in Nat, v \in Nat : Sized(s, m0, u, v)
      BY DEF Bezout
    <3>8. 0 - m0 <= x
      BY <3>3, <3>7 DEF Sized
    <3> QED
      BY <3>1, <3>3, <3>6, <3>8
  <2> QED
    BY <2>2, <2>3
<1>4. \A s \in InverseStates : s \in S
  <2> HIDE DEF S, E, next, mu
  <2> QED
    BY <1>2, <1>3, FallInduction
<1>5. PICK s \in InverseStates : s = [a |-> a0, m |-> m0, x0 |-> 0, x1 |-> 1]
  <2>1. [a |-> a0, m |-> m0, x0 |-> 0, x1 |-> 1] \in InverseStates
    BY DEF InverseStates
  <2> QED
    BY <2>1
<1>6. Bezout(s, a0, m0)
  <2>1. s.a = a0 /\ s.m = m0 /\ s.x0 = 0 /\ s.x1 = 1 /\ 1 * a0 = a0 /\ 0 * a0 = 0
    BY <1>5
  <2>2. Congruent(a0, a0, m0)
    BY CongruentItself
  <2>3. Congruent(m0, 0, m0)
    <3>1. m0 - 0 = m0
      OBVIOUS
    <3> QED
      BY <3>1, DividesItself DEF Congruent
  <2>4. Sized(s, m0, 0, 1)
    BY <2>1 DEF Sized
  <2> QED
    BY <2>1, <2>2, <2>3, <2>4 DEF Bezout
<1>7. Good(loop[s])
  BY <1>4, <1>6
<1>8. PICK x \in Int : x = loop[s] /\ 0 - m0 <= x /\ Congruent(x * a0, 1, m0)
  BY <1>7
<1>9. modInverse(a0, m0) = IF m0 = 1 THEN 0 ELSE IF x < 0 THEN x + m0 ELSE x
  BY <1>1, <1>5, <1>8 DEF Euclidean
<1>10. CASE m0 = 1
  <2>1. modInverse(a0, m0) = 0 /\ 0 * a0 = 0 /\ 0 - 1 \in Int
    BY <1>9, <1>10
  <2>2. Congruent(0, 1, m0)
    BY <1>10, DividesItself DEF Congruent
  <2> QED
    BY <2>1, <2>2
<1>11. CASE m0 # 1 /\ x < 0
  <2>1. modInverse(a0, m0) = x + m0 /\ x + m0 \in Nat
    BY <1>8, <1>9, <1>11
  <2>2. (x + m0) * a0 = x * a0 + m0 * a0 /\ x * a0 \in Int /\ m0 * a0 \in Int
    OBVIOUS
  <2>3. PICK y \in Int, z \in Int : y = x * a0 /\ z = m0 * a0
    BY <2>2
  <2>4. Divides(m0, z)
    BY <2>3 DEF Divides
  <2>5. Divides(m0, y - 1) /\ y - 1 \in Int
    BY <1>8, <2>3 DEF Congruent
  <2>6. Divides(m0, (y - 1) + z)
    BY <2>4, <2>5, DividesSum
  <2>7. (x + m0) * a0 - 1 = (y - 1) + z
    BY <2>2, <2>3
  <2> QED
    BY <2>1, <2>6, <2>7 DEF Congruent
<1>12. CASE m0 # 1 /\ ~ (x < 0)
  BY <1>8, <1>9, <1>12
<1> QED
  BY <1>10, <1>11, <1>12

Coprimes(m, e) == {k \in Nat : e <= k /\ gcd(k, m) = 1}

\* There is always another number that has an inverse.
LEMMA CoprimeFurther ==
  ASSUME NEW m \in Nat \ {0, 1}, NEW e \in Nat
  PROVE  Coprimes(m, e) # {}
<1>1. PICK k \in Nat : k = m * e + 1
  OBVIOUS
<1>2. k % m = 1
  <2>1. PICK r \in 0 .. m - 1 : r = 1
    OBVIOUS
  <2>2. k = m * e + r /\ e \in Int /\ k \in Int /\ m \in Nat \ {0}
    BY <1>1, <2>1
  <2>3. k % m = r
    BY <2>2, Quotient
  <2> QED
    BY <2>1, <2>3
<1>3. gcd(k, m) = gcd(m, 1)
  BY <1>2, GcdFacts
<1>4. m % 1 = 0
  OBVIOUS
<1>5. gcd(m, 1) = gcd(1, 0) /\ gcd(1, 0) = 1
  BY <1>4, GcdFacts
<1>6. e <= k
  <2>1. m * e = (m - 1) * e + e /\ (m - 1) * e \in Nat
    OBVIOUS
  <2> QED
    BY <1>1, <2>1
<1> QED
  BY <1>3, <1>5, <1>6 DEF Coprimes

Least(T) == CHOOSE x \in T : \A y \in T : x <= y

\* The exponent generateKeys finds.
LEMMA KeysFound ==
  ASSUME NEW p \in Nat, NEW q \in Nat, NEW m \in Nat \ {0, 1}, m = (p - 1) * (q - 1)
  PROVE  \E e \in Nat \ {0} :
           /\ gcd(e, m) = 1
           /\ generateKeys(p, q) = [private |-> modInverse(e, m), public |-> e,
                                    modulus |-> (p * q) % Word]
<1> DEFINE E == {e \in Nat : gcd(e, m) = 1}
           out == [e \in Nat |-> e]
           next == [e \in Nat |-> e + 1]
           mu == [e \in Nat |-> Least(Coprimes(m, e)) - e]
           search[e \in Nat] == IF gcd(e, m) = 1 THEN e ELSE search[e + 1]
           Step(g) == [e \in Nat |-> IF gcd(e, m) = 1 THEN e ELSE g[e + 1]]
<1>1. ASSUME NEW e \in Nat
      PROVE  Least(Coprimes(m, e)) \in Nat /\ e <= Least(Coprimes(m, e))
  <2>1. Coprimes(m, e) \subseteq Nat /\ Coprimes(m, e) # {}
    BY CoprimeFurther DEF Coprimes
  <2>2. Least(Coprimes(m, e)) \in Coprimes(m, e)
    BY <2>1, LeastNatural DEF Least
  <2> QED
    BY <2>2 DEF Coprimes
<1>2. Falls(Nat, E, next, mu)
  <2>1. \A e \in Nat : mu[e] = Least(Coprimes(m, e)) - e /\ next[e] = e + 1 /\ e + 1 \in Nat
    OBVIOUS
  <2>2. \A e \in Nat : e \notin E => Coprimes(m, e) = Coprimes(m, e + 1)
    BY DEF Coprimes
  <2> HIDE DEF mu, next, E
  <2>3. ASSUME NEW e \in Nat
        PROVE  mu[e] \in Nat
    BY <1>1, <2>1
  <2>4. ASSUME NEW e \in Nat, e \notin E
        PROVE  next[e] \in Nat /\ mu[next[e]] < mu[e]
    <3>1. mu[e + 1] = Least(Coprimes(m, e)) - (e + 1)
      BY <2>1, <2>2, <2>4
    <3>2. Least(Coprimes(m, e)) \in Nat
      BY <1>1
    <3> QED
      BY <2>1, <3>1, <3>2
  <2> QED
    BY <2>3, <2>4 DEF Falls
<1>3. PICK f : f = [e \in Nat |-> IF e \in E THEN out[e] ELSE f[next[e]]]
  <2> DEFINE D == Nat
  <2>1. Falls(D, E, next, mu)
    BY <1>2
  <2> HIDE DEF D, E, out, next, mu
  <2>2. \E f : f = [x \in D |-> IF x \in E THEN out[x] ELSE f[next[x]]]
    BY <2>1, LoopEnds
  <2> QED
    BY <2>2 DEF D
<1>4. f = Step(f)
  <2>1. \A e \in Nat : f[e] = IF e \in E THEN out[e] ELSE f[next[e]]
    BY <1>3
  <2>2. f = [e \in Nat |-> f[e]]
    BY <1>3
  <2>3. \A e \in Nat : f[e] = IF gcd(e, m) = 1 THEN e ELSE f[e + 1]
    BY <2>1
  <2> QED
    BY <2>2, <2>3
<1>5. search = CHOOSE g : g = Step(g)
  OBVIOUS
<1>6. generateKeys(p, q) = [private |-> modInverse(search[12], m), public |-> search[12],
                            modulus |-> (p * q) % Word]
  BY DEF generateKeys
<1> HIDE DEF search
<1>7. search = Step(search)
  <2> HIDE DEF Step
  <2> QED
    BY <1>4, <1>5
<1>8. \A e \in Nat : search[e] = IF gcd(e, m) = 1 THEN e ELSE search[e + 1]
  BY <1>7
<1> HIDE DEF Step
<1> DEFINE S == {e \in Nat : search[e] \in Nat /\ e <= search[e] /\ gcd(search[e], m) = 1}
<1>9. ASSUME NEW e \in Nat, e \in E \/ next[e] \in S
      PROVE  e \in S
  <2>1. CASE gcd(e, m) = 1
    BY <1>8, <2>1
  <2>2. CASE gcd(e, m) # 1
    <3>1. e + 1 \in S
      BY <1>9, <2>2
    <3>2. search[e] = search[e + 1]
      BY <1>8, <2>2
    <3>3. search[e + 1] \in Nat /\ e + 1 <= search[e + 1] /\ gcd(search[e + 1], m) = 1
      BY <3>1
    <3> QED
      BY <3>2, <3>3
  <2> QED
    BY <2>1, <2>2
<1>10. \A e \in Nat : e \in S
  <2> HIDE DEF S, E, next, mu
  <2> QED
    BY <1>2, <1>9, FallInduction
<1>11. search[12] \in Nat \ {0} /\ gcd(search[12], m) = 1
  BY <1>10
<1> QED
  BY <1>6, <1>11

\* A key pair that undoes what it did, up to multiples of (p - 1)(q - 1).
LEMMA KeyPair ==
  ASSUME NEW p \in Nat, NEW q \in Nat, NEW m \in Nat \ {0, 1}, m = (p - 1) * (q - 1),
         NEW k, k = generateKeys(p, q)
  PROVE  /\ k.private \in Nat /\ k.public \in Nat \ {0} /\ k.modulus = (p * q) % Word
         /\ Congruent(k.private * k.public, 1, m)
<1>1. PICK e \in Nat \ {0} :
        /\ gcd(e, m) = 1
        /\ k = [private |-> modInverse(e, m), public |-> e, modulus |-> (p * q) % Word]
  BY KeysFound
<1>2. modInverse(e, m) \in Nat /\ Congruent(modInverse(e, m) * e, 1, m)
  BY <1>1, ModInverseIsInverse
<1> QED
  BY <1>1, <1>2

----------------------------------------------------------------------------
(* Primes, and what a power is modulo a product of two of them. *)

LEMMA DividesBelow ==
  ASSUME NEW d \in Nat, NEW a \in Nat, Divides(d, a), a < d
  PROVE  a = 0
<1>1. PICK k \in Int : a = d * k
  BY DEF Divides
<1>2. CASE k <= 0
  <2>1. \A j \in Nat : d * j \in Nat
    OBVIOUS
  <2>2. PICK j \in Nat : j = 0 - k
    BY <1>2
  <2>3. d * k = 0 - d * j
    <3>1. k = 0 - j
      BY <2>2
    <3>2. d * (0 - j) = 0 - d * j
      OBVIOUS
    <3> QED
      BY <3>1, <3>2
  <2> QED
    BY <1>1, <2>1, <2>3
<1>3. CASE k >= 1
  <2>1. PICK j \in Nat : j = k - 1
    BY <1>3
  <2>2. d * k = d * j + d /\ d * j \in Nat
    <3>1. k = j + 1
      BY <2>1
    <3>2. d * (j + 1) = d * j + d /\ d * j \in Nat
      OBVIOUS
    <3> QED
      BY <3>1, <3>2
  <2> QED
    BY <1>1, <2>2
<1> QED
  BY <1>2, <1>3

LEMMA DividesLess ==
  ASSUME NEW d \in Nat, NEW a \in Nat \ {0}, Divides(d, a)
  PROVE  d <= a
<1> SUFFICES ASSUME a < d PROVE FALSE
  OBVIOUS
<1> QED
  BY DividesBelow

\* A prime has no other divisors than itself and 1.
LEMMA PrimeDivisors ==
  ASSUME NEW p \in Nat, Prime(p), NEW d \in Nat, Divides(d, p)
  PROVE  d = 1 \/ d = p
<1> SUFFICES ASSUME d # 1, d # p PROVE FALSE
  OBVIOUS
<1>1. p > 1 /\ \A c \in 2 .. p - 1 : p % c # 0
  BY DEF Prime
<1>2. d # 0
  <2> SUFFICES ASSUME d = 0 PROVE FALSE
    OBVIOUS
  <2>1. PICK k \in Int : p = 0 * k
    BY DEF Divides
  <2>2. 0 * k = 0
    OBVIOUS
  <2> QED
    BY <1>1, <2>1, <2>2
<1>3. d <= p
  BY <1>1, DividesLess
<1>4. d \in 2 .. p - 1
  BY <1>2, <1>3
<1>5. p % d = 0
  BY <1>2, Remainders
<1> QED
  BY <1>1, <1>4, <1>5

\* The numbers whose product with b the number p divides.
Factors(p, b) == {k \in Nat \ {0} : Divides(p, k * b)}

\* All of them are multiples of the least.
LEMMA FactorsOfLeast ==
  ASSUME NEW p \in Nat, NEW b \in Int, NEW k \in Factors(p, b),
         \A x \in Factors(p, b) : k <= x
  PROVE  \A x \in Factors(p, b) : Divides(k, x)
<1> TAKE x \in Factors(p, b)
<1>1. k \in Nat \ {0} /\ x \in Nat \ {0} /\ Divides(p, k * b) /\ Divides(p, x * b)
  BY DEF Factors
<1>2. PICK q \in Nat, r \in 0 .. k - 1 : x = k * q + r /\ r = x % k
  <2>1. x \in Int /\ x \in Nat
    BY <1>1
  <2>2. /\ x \div k \in Nat /\ x % k \in 0 .. k - 1
        /\ x = k * (x \div k) + (x % k)
    BY <1>1, <2>1, Division
  <2> QED
    BY <2>2
<1>3. r * b = x * b - q * (k * b)
  <2>1. (k * q + r) * b = q * (k * b) + r * b
    <3>1. (k * q + r) * b = (k * q) * b + r * b
      BY <1>1
    <3>2. (k * q) * b = q * (k * b)
      BY <1>1
    <3> QED
      BY <3>1, <3>2
  <2>2. q * (k * b) \in Int /\ r * b \in Int /\ x * b \in Int
    BY <1>1
  <2> QED
    BY <1>2, <2>1, <2>2
<1>4. Divides(p, r * b)
  <2>1. PICK y \in Int, z \in Int : y = k * b /\ z = x * b
    BY <1>1
  <2>2. p \in Int /\ q \in Int /\ q * y \in Int
    OBVIOUS
  <2>3. Divides(p, q * y)
    <3>1. Divides(p, y)
      BY <1>1, <2>1
    <3> QED
      BY <2>2, <3>1, DividesTimes
  <2>4. Divides(p, z - q * y)
    BY <1>1, <2>1, <2>2, <2>3, DividesSum
  <2> QED
    BY <1>3, <2>1, <2>4
<1>5. r = 0
  <2> SUFFICES ASSUME r # 0 PROVE FALSE
    OBVIOUS
  <2>1. r \in Factors(p, b)
    BY <1>1, <1>4 DEF Factors
  <2> QED
    BY <1>1, <2>1
<1> QED
  BY <1>1, <1>2, <1>5, Remainders

\* A prime that divides a product divides a factor of it.
LEMMA EuclidsLemma ==
  ASSUME NEW p \in Nat, Prime(p), NEW a \in Nat, NEW b \in Int, Divides(p, a * b)
  PROVE  Divides(p, a) \/ Divides(p, b)
<1> SUFFICES ASSUME ~ Divides(p, a) PROVE Divides(p, b)
  OBVIOUS
<1>1. p > 1
  BY DEF Prime
<1>2. p \in Factors(p, b)
  <2>1. p \in Int
    OBVIOUS
  <2>2. Divides(p, p)
    BY <2>1, DividesItself
  <2>3. Divides(p, p * b)
    BY <2>1, <2>2, DividesTimes
  <2> QED
    BY <1>1, <2>3 DEF Factors
<1>3. a \in Factors(p, b)
  <2>1. a # 0
    BY DividesItself
  <2> QED
    BY <2>1 DEF Factors
<1>4. PICK k \in Factors(p, b) : \A x \in Factors(p, b) : k <= x
  <2>1. Factors(p, b) \subseteq Nat /\ Factors(p, b) # {}
    BY <1>2 DEF Factors
  <2> QED
    BY <2>1, LeastNatural
<1>5. Divides(k, p) /\ Divides(k, a) /\ k \in Nat /\ Divides(p, k * b)
  <2>1. \A x \in Factors(p, b) : Divides(k, x)
    BY <1>4, FactorsOfLeast
  <2> QED
    BY <1>2, <1>3, <2>1 DEF Factors
<1>6. k = 1
  BY <1>5, PrimeDivisors
<1>7. k * b = b
  BY <1>6
<1> QED
  BY <1>5, <1>7

\* What two primes divide their product divides.
LEMMA TwoPrimes ==
  ASSUME NEW p \in Nat, NEW q \in Nat, Prime(p), Prime(q), p # q,
         NEW x \in Int, Divides(p, x), Divides(q, x)
  PROVE  Divides(p * q, x)
<1>1. PICK u \in Int : x = p * u
  BY DEF Divides
<1>2. Divides(q, p) \/ Divides(q, u)
  BY <1>1, EuclidsLemma
<1>3. ~ Divides(q, p)
  <2>1. q > 1
    BY DEF Prime
  <2> QED
    BY <2>1, PrimeDivisors
<1>4. PICK v \in Int : u = q * v
  BY <1>2, <1>3 DEF Divides
<1>5. p * (q * v) = (p * q) * v
  OBVIOUS
<1> QED
  BY <1>1, <1>4, <1>5 DEF Divides

\* P[i] is the product of f[1] to f[i].
IsProduct(P, f, n) ==
  /\ P[0] = 1
  /\ \A i \in 0 .. n : P[i] \in Nat
  /\ \A i \in 1 .. n : f[i] \in Nat /\ P[i] = P[i - 1] * f[i]

LEMMA ProductExists ==
  ASSUME NEW n \in Nat, NEW f, \A i \in 1 .. n : f[i] \in Nat
  PROVE  \E P : IsProduct(P, f, n)
<1> DEFINE c == [z \in (1 .. n) \X Nat |-> z[2] * f[z[1]]]
<1>1. \A i \in 1 .. n, x \in Nat : c[<<i, x>>] = x * f[i]
  OBVIOUS
<1>2. \A i \in 1 .. n, x \in Nat : x * f[i] \in Nat
  <2> TAKE i \in 1 .. n, x \in Nat
  <2>1. PICK y \in Nat : y = f[i]
    OBVIOUS
  <2>2. x * y \in Nat
    OBVIOUS
  <2> QED
    BY <2>1, <2>2
<1> HIDE DEF c
<1>3. \A i \in 0 + 1 .. n : i \in 1 .. n
  OBVIOUS
<1>4. Stays(0, n, Nat, c)
  BY <1>1, <1>2, <1>3 DEF Stays
<1>5. PICK P : Counts(P, 0, n, Nat, 1, c)
  BY <1>4, Counting
<1>6. P \in [0 .. n -> Nat] /\ P[0] = 1 /\ \A i \in 0 + 1 .. n : P[i] = c[<<i, P[i - 1]>>]
  BY <1>5 DEF Counts
<1>7. ASSUME NEW i \in 1 .. n
      PROVE  f[i] \in Nat /\ P[i] = P[i - 1] * f[i]
  <2>1. i \in 0 + 1 .. n /\ i - 1 \in 0 .. n
    OBVIOUS
  <2>2. P[i - 1] \in Nat /\ P[i] = c[<<i, P[i - 1]>>]
    BY <1>6, <2>1
  <2> QED
    BY <1>1, <2>2
<1>8. IsProduct(P, f, n)
  BY <1>6, <1>7 DEF IsProduct
<1> QED
  BY <1>8

LEMMA TimesInAnyOrder ==
  \A x \in Nat, y \in Nat, z \in Nat :
     /\ x * y \in Nat /\ x * y = y * x /\ (x * y) * z = (x * z) * y
     /\ (x * y) * z = x * (y * z)
<1> TAKE x \in Nat, y \in Nat, z \in Nat
<1>1. \A u \in Nat, v \in Nat : u * v \in Nat /\ u * v = v * u
  OBVIOUS
<1>2. \A u \in Nat, v \in Nat, w \in Nat : (u * v) * w = u * (v * w)
  OBVIOUS
<1>3. (x * y) * z = x * (y * z) /\ (x * z) * y = x * (z * y) /\ y * z = z * y
  BY <1>1, <1>2
<1> QED
  BY <1>1, <1>3

\* How a product changes with one of its factors.
LEMMA ProductChanged ==
  ASSUME NEW n \in Nat, NEW f, NEW g, NEW P, NEW Q, IsProduct(P, f, n), IsProduct(Q, g, n),
         NEW j \in 1 .. n, \A i \in 1 .. n : i # j => g[i] = f[i]
  PROVE  Q[n] * f[j] = P[n] * g[j]
<1>1. PICK a \in Nat, b \in Nat : a = f[j] /\ b = g[j]
  BY DEF IsProduct
<1> DEFINE S == {i \in Nat : i <= n => IF i < j THEN Q[i] = P[i] ELSE Q[i] * a = P[i] * b}
<1>2. 0 \in S
  BY DEF IsProduct
<1>3. ASSUME NEW i \in Nat, i \in S
      PROVE  i + 1 \in S
  <2> SUFFICES ASSUME i + 1 <= n
               PROVE  IF i + 1 < j THEN Q[i + 1] = P[i + 1] ELSE Q[i + 1] * a = P[i + 1] * b
    OBVIOUS
  <2>1. i + 1 \in 1 .. n /\ i \in 0 .. n /\ (i + 1) - 1 = i
    OBVIOUS
  <2>2. /\ P[i + 1] = P[i] * f[i + 1] /\ f[i + 1] \in Nat /\ P[i] \in Nat
        /\ Q[i + 1] = Q[i] * g[i + 1] /\ g[i + 1] \in Nat /\ Q[i] \in Nat
    <3>1. P[i + 1] = P[(i + 1) - 1] * f[i + 1] /\ Q[i + 1] = Q[(i + 1) - 1] * g[i + 1]
      BY <2>1 DEF IsProduct
    <3>2. f[i + 1] \in Nat /\ P[i] \in Nat /\ g[i + 1] \in Nat /\ Q[i] \in Nat
      BY <2>1 DEF IsProduct
    <3> QED
      BY <2>1, <3>1, <3>2
  <2>3. PICK x \in Nat, y \in Nat, u \in Nat, v \in Nat :
          x = P[i] /\ y = Q[i] /\ u = f[i + 1] /\ v = g[i + 1]
    BY <2>2
  <2>4. CASE i + 1 < j
    <3>1. x = y /\ u = v
      BY <1>3, <2>1, <2>3, <2>4
    <3> QED
      BY <2>2, <2>3, <2>4, <3>1
  <2>5. CASE i + 1 = j
    <3>1. x = y /\ u = a /\ v = b
      BY <1>1, <1>3, <2>1, <2>3, <2>5
    <3>2. (x * b) * a = (x * a) * b
      BY TimesInAnyOrder
    <3> QED
      BY <2>2, <2>3, <2>5, <3>1, <3>2
  <2>6. CASE i + 1 > j
    <3>1. y * a = x * b /\ u = v
      BY <1>3, <2>1, <2>3, <2>6
    <3>2. (y * u) * a = (y * a) * u /\ (x * u) * b = (x * b) * u
      BY TimesInAnyOrder
    <3> QED
      BY <2>2, <2>3, <2>6, <3>1, <3>2
  <2> QED
    BY <2>4, <2>5, <2>6
<1>4. n \in S
  <2> HIDE DEF S
  <2> QED
    BY <1>2, <1>3, NaturalInduction
<1> QED
  BY <1>1, <1>4

Injections(n) ==
  {f \in [1 .. n -> 1 .. n] : \A i \in 1 .. n, k \in 1 .. n : f[i] = f[k] => i = k}

\* No value is left out.
LEMMA Onto ==
  ASSUME NEW n \in Nat \ {0}, NEW f \in Injections(n)
  PROVE  \E j \in 1 .. n : f[j] = n
<1> SUFFICES ASSUME \A j \in 1 .. n : f[j] # n PROVE FALSE
  OBVIOUS
<1>1. f \in [1 .. n -> 1 .. n - 1]
  BY DEF Injections
<1>2. /\ IsFiniteSet(1 .. n) /\ Cardinality(1 .. n) = n
      /\ IsFiniteSet(1 .. n - 1) /\ Cardinality(1 .. n - 1) = n - 1
  <2>1. IsFiniteSet(1 .. n) /\ Cardinality(1 .. n) = n
    BY FS_Interval
  <2>2. IsFiniteSet(1 .. n - 1) /\ Cardinality(1 .. n - 1) = n - 1
    <3>1. PICK k \in Int : k = n - 1 /\ (1 > k => k = 0)
      OBVIOUS
    <3>2. IsFiniteSet(1 .. k) /\ Cardinality(1 .. k) = IF 1 > k THEN 0 ELSE k - 1 + 1
      BY FS_Interval
    <3> QED
      BY <3>1, <3>2
  <2> QED
    BY <2>1, <2>2
<1>3. PICK x \in 1 .. n, y \in 1 .. n : x # y /\ f[x] = f[y]
  <2>1. Cardinality(1 .. n - 1) < Cardinality(1 .. n)
    BY <1>2
  <2> QED
    BY <1>1, <1>2, <2>1, FS_PigeonHole
<1> QED
  BY <1>3 DEF Injections

Identity == [i \in Nat |-> i]

\* The product of the numbers to n in any order.
LEMMA ProductOfAll ==
  ASSUME NEW G
  PROVE  \A n \in Nat : \A f \in Injections(n) : \A P :
            IsProduct(P, f, n) /\ IsProduct(G, Identity, n) => P[n] = G[n]
<1> DEFINE S == {n \in Nat : \A f \in Injections(n) : \A P :
                   IsProduct(P, f, n) /\ IsProduct(G, Identity, n) => P[n] = G[n]}
<1>1. 0 \in S
  BY DEF IsProduct
<1>2. ASSUME NEW n \in Nat, n \in S
      PROVE  n + 1 \in S
  <2> SUFFICES ASSUME NEW f \in Injections(n + 1), NEW P,
                      IsProduct(P, f, n + 1), IsProduct(G, Identity, n + 1)
               PROVE  P[n + 1] = G[n + 1]
    OBVIOUS
  <2>1. n + 1 \in 1 .. n + 1 /\ (n + 1) - 1 = n /\ n \in 0 .. n + 1 /\ n + 1 \in Nat \ {0}
    OBVIOUS
  <2>2. PICK j \in 1 .. n + 1 : f[j] = n + 1
    BY <2>1, Onto
  <2>3. PICK x \in Nat, y \in Nat, z \in Nat : x = P[n] /\ y = G[n] /\ z = f[n + 1]
    BY <2>1 DEF IsProduct
  <2>4. P[n + 1] = x * z /\ G[n + 1] = y * (n + 1)
    <3>1. P[n + 1] = P[(n + 1) - 1] * f[n + 1] /\ G[n + 1] = G[(n + 1) - 1] * Identity[n + 1]
      BY <2>1 DEF IsProduct
    <3> QED
      BY <2>1, <2>3, <3>1 DEF Identity
  <2>5. IsProduct(G, Identity, n)
    BY DEF IsProduct
  <2> DEFINE g == [i \in 1 .. n |-> IF i = j THEN f[n + 1] ELSE f[i]]
  <2>6. g \in Injections(n)
    <3>1. f \in [1 .. n + 1 -> 1 .. n + 1]
      BY DEF Injections
    <3>2. \A i \in 1 .. n + 1, k \in 1 .. n + 1 : f[i] = f[k] => i = k
      BY DEF Injections
    <3>3. ASSUME NEW i \in 1 .. n
          PROVE  g[i] \in 1 .. n
      <4>1. i \in 1 .. n + 1 /\ i # n + 1
        OBVIOUS
      <4>2. CASE i = j
        <5>1. f[n + 1] # n + 1 /\ f[n + 1] \in 1 .. n + 1
          BY <2>1, <2>2, <3>1, <3>2, <4>1, <4>2
        <5> QED
          BY <4>2, <5>1
      <4>3. CASE i # j
        <5>1. f[i] # n + 1 /\ f[i] \in 1 .. n + 1
          BY <2>2, <3>1, <3>2, <4>1, <4>3
        <5> QED
          BY <4>3, <5>1
      <4> QED
        BY <4>2, <4>3
    <3>4. ASSUME NEW i \in 1 .. n, NEW k \in 1 .. n, g[i] = g[k]
          PROVE  i = k
      <4>1. i \in 1 .. n + 1 /\ i # n + 1 /\ k \in 1 .. n + 1 /\ k # n + 1
        OBVIOUS
      <4> QED
        BY <2>1, <3>2, <3>4, <4>1
    <3> QED
      BY <3>3, <3>4 DEF Injections
  <2>7. \A i \in 1 .. n : g[i] \in Nat
    BY <2>6 DEF Injections
  <2>8. \A i \in 1 .. n : g[i] = IF i = j THEN f[n + 1] ELSE f[i]
    OBVIOUS
  <2> HIDE DEF g
  <2>9. CASE j = n + 1
    <3>1. IsProduct(P, g, n)
      BY <2>7, <2>8, <2>9 DEF IsProduct
    <3>2. x = y
      BY <1>2, <2>3, <2>5, <2>6, <3>1
    <3> QED
      BY <2>2, <2>3, <2>4, <2>9, <3>2
  <2>10. CASE j # n + 1
    <3>1. PICK Q : IsProduct(Q, g, n)
      BY <2>7, ProductExists
    <3>2. Q[n] = y
      BY <1>2, <2>3, <2>5, <2>6, <3>1
    <3>3. IsProduct(P, f, n)
      BY DEF IsProduct
    <3>4. j \in 1 .. n
      BY <2>10
    <3>5. Q[n] * f[j] = P[n] * g[j]
      BY <2>8, <3>1, <3>3, <3>4, ProductChanged
    <3>6. g[j] = z
      BY <2>3, <2>8, <3>4
    <3> QED
      BY <2>2, <2>3, <2>4, <3>2, <3>5, <3>6
  <2> QED
    BY <2>9, <2>10
<1>3. \A n \in Nat : n \in S
  <2> HIDE DEF S
  <2> QED
    BY <1>1, <1>2, NaturalInduction
<1> QED
  BY <1>3

\* No number below a prime is a multiple of it, and no product of such numbers.
LEMMA ProductBelowPrime ==
  ASSUME NEW p \in Nat, Prime(p), NEW G, IsProduct(G, Identity, p - 1)
  PROVE  ~ Divides(p, G[p - 1])
<1>1. p > 1
  BY DEF Prime
<1> DEFINE S == {i \in Nat : i <= p - 1 => ~ Divides(p, G[i])}
<1>2. 0 \in S
  <2>1. G[0] = 1
    BY DEF IsProduct
  <2>2. ~ Divides(p, 1)
    BY <1>1, DividesBelow
  <2> QED
    BY <2>1, <2>2
<1>3. ASSUME NEW i \in Nat, i \in S
      PROVE  i + 1 \in S
  <2> SUFFICES ASSUME i + 1 <= p - 1, Divides(p, G[i + 1]) PROVE FALSE
    OBVIOUS
  <2>1. i + 1 \in 1 .. p - 1 /\ i \in 0 .. p - 1 /\ (i + 1) - 1 = i /\ i + 1 \in Nat
    OBVIOUS
  <2>2. PICK x \in Nat : x = G[i] /\ G[i + 1] = x * (i + 1)
    <3>1. G[i + 1] = G[(i + 1) - 1] * Identity[i + 1] /\ G[i] \in Nat
      BY <2>1 DEF IsProduct
    <3> QED
      BY <2>1, <3>1 DEF Identity
  <2>3. Divides(p, x) \/ Divides(p, i + 1)
    BY <2>1, <2>2, EuclidsLemma
  <2>4. ~ Divides(p, i + 1)
    BY <2>1, DividesBelow
  <2>5. ~ Divides(p, x)
    BY <1>3, <2>1, <2>2
  <2> QED
    BY <2>3, <2>4, <2>5
<1>4. p - 1 \in S
  <2>1. p - 1 \in Nat
    BY <1>1
  <2> HIDE DEF S
  <2> QED
    BY <1>2, <1>3, <2>1, NaturalInduction
<1> QED
  BY <1>4

\* The multiples of a, modulo a prime.
LEMMA MultiplesPermute ==
  ASSUME NEW p \in Nat, Prime(p), NEW a \in Nat, ~ Divides(p, a), NEW f,
         f = [i \in 1 .. p - 1 |-> (a * i) % p]
  PROVE  f \in Injections(p - 1) /\ \A i \in 1 .. p - 1 : Congruent(f[i], a * i, p)
<1>1. p > 1 /\ p \in Nat \ {0} /\ p \in Int
  BY DEF Prime
<1>2. ASSUME NEW i \in 1 .. p - 1
      PROVE  a * i \in Nat /\ f[i] \in 0 .. p - 1 /\ Congruent(f[i], a * i, p) /\ f[i] = (a * i) % p
  <2>1. PICK x \in Nat : x = a * i
    OBVIOUS
  <2>2. x % p \in 0 .. p - 1 /\ Congruent(x % p, x, p)
    BY <1>1, Remainders
  <2> QED
    BY <2>1, <2>2
<1>3. ASSUME NEW i \in 1 .. p - 1, NEW x \in Int, Divides(p, a * x), x = i
      PROVE  FALSE
  <2>1. Divides(p, a) \/ Divides(p, x)
    BY <1>3, EuclidsLemma
  <2> QED
    BY <1>3, <2>1, DividesBelow
<1>4. \A i \in 1 .. p - 1 : f[i] \in 1 .. p - 1
  <2> TAKE i \in 1 .. p - 1
  <2>1. f[i] # 0
    <3> SUFFICES ASSUME f[i] = 0 PROVE FALSE
      OBVIOUS
    <3>1. PICK x \in Nat : x = a * i
      OBVIOUS
    <3>2. x % p = 0
      BY <1>2, <3>1
    <3>3. Divides(p, x)
      BY <1>1, <3>2, Remainders
    <3>4. i \in Int
      OBVIOUS
    <3> QED
      BY <1>3, <3>1, <3>3, <3>4
  <2> QED
    BY <1>2, <2>1
<1>5. ASSUME NEW i \in 1 .. p - 1, NEW k \in 1 .. p - 1, f[i] = f[k], k < i
      PROVE  FALSE
  <2>1. PICK x \in Nat, y \in Nat : x = a * i /\ y = a * k
    OBVIOUS
  <2>2. x % p = y % p
    BY <1>2, <1>5, <2>1
  <2>3. Congruent(x, y, p)
    BY <1>1, <2>2, CongruentRemainders
  <2>4. PICK d \in 1 .. p - 1 : d = i - k
    BY <1>5
  <2>5. a * i - a * k = a * (i - k)
    OBVIOUS
  <2>6. Divides(p, a * d)
    BY <2>1, <2>3, <2>4, <2>5 DEF Congruent
  <2>7. d \in Int
    OBVIOUS
  <2> QED
    BY <1>3, <2>6, <2>7
<1>6. \A i \in 1 .. p - 1, k \in 1 .. p - 1 : f[i] = f[k] => i = k
  <2> TAKE i \in 1 .. p - 1, k \in 1 .. p - 1
  <2> SUFFICES ASSUME f[i] = f[k] PROVE i = k
    OBVIOUS
  <2>1. ~ (k < i) /\ ~ (i < k)
    BY <1>5
  <2> QED
    BY <2>1
<1>7. f \in [1 .. p - 1 -> 1 .. p - 1]
  BY <1>4
<1> QED
  BY <1>2, <1>6, <1>7 DEF Injections

\* Fermat's little theorem.
LEMMA Fermat ==
  ASSUME NEW p \in Nat, Prime(p), NEW a \in Nat, ~ Divides(p, a)
  PROVE  Congruent(Power(a, p - 1), 1, p)
<1>1. p > 1 /\ p \in Nat \ {0} /\ p \in Int /\ p - 1 \in Nat
  BY DEF Prime
<1>2. PICK n \in Nat : n = p - 1
  BY <1>1
<1> DEFINE f == [i \in 1 .. n |-> (a * i) % p]
<1>3. f \in Injections(n) /\ \A i \in 1 .. n : Congruent(f[i], a * i, p)
  BY <1>2, MultiplesPermute
<1> HIDE DEF f
<1>4. \A i \in 1 .. n : f[i] \in Nat /\ Identity[i] \in Nat
  BY <1>3 DEF Injections, Identity
<1>5. PICK P : IsProduct(P, f, n)
  BY <1>4, ProductExists
<1>6. PICK G : IsProduct(G, Identity, n)
  BY <1>4, ProductExists
<1>7. P[n] = G[n]
  BY <1>3, <1>5, <1>6, ProductOfAll
<1> DEFINE S == {i \in Nat : i <= n => Congruent(P[i], Power(a, i) * G[i], p)}
<1>8. 0 \in S
  <2>1. Power(a, 0) = 1 /\ P[0] = 1 /\ G[0] = 1 /\ 1 * 1 = 1
    BY <1>5, <1>6, PowerFacts DEF IsProduct
  <2>2. Congruent(1, 1, p)
    BY <1>1, CongruentItself
  <2> QED
    BY <2>1, <2>2
<1>9. ASSUME NEW i \in Nat, i \in S
      PROVE  i + 1 \in S
  <2> SUFFICES ASSUME i + 1 <= n PROVE Congruent(P[i + 1], Power(a, i + 1) * G[i + 1], p)
    OBVIOUS
  <2>1. i + 1 \in 1 .. n /\ i \in 0 .. n /\ (i + 1) - 1 = i /\ i + 1 \in Nat
    OBVIOUS
  <2>2. PICK x \in Nat, y \in Nat, w \in Nat, u \in Nat, k \in Nat :
          x = P[i] /\ y = G[i] /\ w = Power(a, i) /\ u = f[i + 1] /\ k = i + 1
    <3>1. P[i] \in Nat /\ G[i] \in Nat
      BY <1>5, <1>6, <2>1 DEF IsProduct
    <3> QED
      BY <1>4, <2>1, <3>1, PowerType
  <2>3. P[k] = x * u /\ G[k] = y * k
    <3>1. P[i + 1] = P[(i + 1) - 1] * f[i + 1] /\ G[i + 1] = G[(i + 1) - 1] * Identity[i + 1]
      BY <1>5, <1>6, <2>1 DEF IsProduct
    <3> QED
      BY <2>1, <2>2, <3>1 DEF Identity
  <2>4. Power(a, k) = w * a
    BY <2>2, PowerFacts
  <2>5. Congruent(x, w * y, p)
    BY <1>9, <2>1, <2>2
  <2>6. Congruent(u, a * k, p)
    BY <1>3, <2>1, <2>2
  <2>7. Congruent(x * u, (w * y) * (a * k), p)
    <3>1. w * y \in Int /\ a * k \in Int /\ x \in Int /\ u \in Int
      OBVIOUS
    <3> QED
      BY <1>1, <2>5, <2>6, <3>1, CongruentTimes
  <2>8. (w * y) * (a * k) = (w * a) * (y * k)
    <3>1. PICK z \in Nat : z = w * y
      OBVIOUS
    <3>2. z * (a * k) = (z * a) * k
      BY TimesInAnyOrder
    <3>3. (w * y) * a = (w * a) * y
      BY TimesInAnyOrder
    <3>4. PICK v \in Nat : v = w * a
      OBVIOUS
    <3>5. (v * y) * k = v * (y * k)
      BY TimesInAnyOrder
    <3> QED
      BY <3>1, <3>2, <3>3, <3>4, <3>5
  <2> QED
    BY <2>2, <2>3, <2>4, <2>7, <2>8
<1>10. Congruent(G[n], Power(a, n) * G[n], p)
  <2>1. n \in S
    <3> HIDE DEF S
    <3> QED
      BY <1>8, <1>9, NaturalInduction
  <2> QED
    BY <1>7, <2>1
<1>11. PICK x \in Nat, w \in Nat : x = G[n] /\ w = Power(a, n)
  <2>1. n \in 0 .. n
    OBVIOUS
  <2>2. G[n] \in Nat
    BY <1>6, <2>1 DEF IsProduct
  <2>3. Power(a, n) \in Nat
    BY PowerType
  <2> QED
    BY <2>2, <2>3
<1>12. Divides(p, x * (1 - w))
  <2>1. x - w * x = x * (1 - w)
    OBVIOUS
  <2> QED
    BY <1>10, <1>11, <2>1 DEF Congruent
<1>13. ~ Divides(p, x)
  BY <1>2, <1>6, <1>11, ProductBelowPrime
<1>14. Divides(p, 1 - w)
  BY <1>12, <1>13, EuclidsLemma
<1>15. Congruent(1, w, p)
  BY <1>14 DEF Congruent
<1> QED
  BY <1>1, <1>2, <1>11, <1>15, CongruentSwap

\* The numbers of a key pair.
LEMMA PhiFacts ==
  ASSUME NEW p \in Nat, NEW q \in Nat, p > 1, q > 1, p # q
  PROVE  (p - 1) * (q - 1) \in Nat \ {0, 1} /\ p * q \in Nat \ {0, 1}
<1>1. \A a \in Nat \ {0}, b \in Nat \ {0} : a <= a * b /\ b <= a * b /\ a * b \in Nat
  <2> TAKE a \in Nat \ {0}, b \in Nat \ {0}
  <2>1. a * b = a * (b - 1) + a /\ a * (b - 1) \in Nat /\ a * b = (a - 1) * b + b /\ (a - 1) * b \in Nat
    OBVIOUS
  <2> QED
    BY <2>1
<1>2. PICK a \in Nat \ {0}, b \in Nat \ {0} : a = p - 1 /\ b = q - 1 /\ (a > 1 \/ b > 1)
  OBVIOUS
<1>3. a * b > 1 /\ a * b \in Nat
  BY <1>1, <1>2
<1>4. p * q > 1 /\ p * q \in Nat
  BY <1>1
<1> QED
  BY <1>2, <1>3, <1>4

\* A multiple of p - 1, and one more, in the exponent.
LEMMA PowerModPrime ==
  ASSUME NEW p \in Nat, Prime(p), NEW t \in Nat, NEW j \in Nat, NEW e \in Nat,
         e = (p - 1) * j + 1
  PROVE  Congruent(Power(t, e), t, p)
<1>1. p > 1 /\ p \in Int /\ p - 1 \in Nat
  BY DEF Prime
<1>2. PICK n \in Nat : n = p - 1
  BY <1>1
<1>3. PICK w \in Nat, v \in Nat : w = Power(t, n) /\ v = Power(w, j)
  BY PowerType
<1>4. Power(t, e) = v * t
  <2>1. PICK k \in Nat : k = n * j
    OBVIOUS
  <2>2. Power(t, k) = v
    BY <1>3, <2>1, PowerPower
  <2>3. e = k + 1
    BY <1>2, <2>1
  <2> QED
    BY <2>2, <2>3, PowerFacts
<1>5. CASE Divides(p, t)
  <2>1. Divides(p, v * t)
    BY <1>1, <1>5, DividesTimes
  <2>2. v * t \in Int
    OBVIOUS
  <2>3. Divides(p, v * t - t)
    BY <1>1, <1>5, <2>1, <2>2, DividesSum
  <2> QED
    BY <1>4, <2>3 DEF Congruent
<1>6. CASE ~ Divides(p, t)
  <2>1. Congruent(w, 1, p)
    BY <1>2, <1>3, <1>6, Fermat
  <2>2. Congruent(v, 1, p)
    <3>1. Congruent(Power(w, j), Power(1, j), p)
      BY <1>1, <2>1, PowerCongruent
    <3> QED
      BY <1>3, <3>1, PowerOfOne
  <2>3. Congruent(v * t, 1 * t, p)
    <3>1. Congruent(t, t, p)
      BY <1>1, CongruentItself
    <3> QED
      BY <1>1, <2>2, <3>1, CongruentTimes
  <2> QED
    BY <1>4, <2>3
<1> QED
  BY <1>5, <1>6

\* The exponents of a key pair undo each other.
LEMMA KeysUndo ==
  ASSUME NEW p \in Nat, NEW q \in Nat, Prime(p), Prime(q), p # q,
         NEW d \in Nat, NEW e \in Nat, Congruent(d * e, 1, (p - 1) * (q - 1)), NEW t \in Nat
  PROVE  Congruent(Power(t, d * e), t, p * q)
<1>1. p > 1 /\ q > 1
  BY DEF Prime
<1>2. PICK a \in Nat \ {0}, b \in Nat \ {0}, m \in Nat \ {0, 1} :
        a = p - 1 /\ b = q - 1 /\ m = a * b
  <2>1. (p - 1) * (q - 1) \in Nat \ {0, 1}
    BY <1>1, PhiFacts
  <2> QED
    BY <1>1, <2>1
<1>3. PICK x \in Nat : x = d * e
  OBVIOUS
<1>4. PICK k \in Int : x - 1 = m * k
  BY <1>2, <1>3 DEF Congruent, Divides
<1>5. k \in Nat
  <2> SUFFICES ASSUME k <= -1 PROVE FALSE
    OBVIOUS
  <2>1. PICK i \in Nat : k = (-1) - i
    <3>1. (-1) - k \in Nat /\ k = (-1) - ((-1) - k)
      OBVIOUS
    <3> QED
      BY <3>1
  <2>2. m * ((-1) - i) = 0 - m - m * i /\ m * i \in Nat
    OBVIOUS
  <2> QED
    BY <1>4, <2>1, <2>2
<1>6. x = a * (b * k) + 1 /\ x = b * (a * k) + 1 /\ b * k \in Nat /\ a * k \in Nat
  <2>1. m * k = a * (b * k) /\ m * k = b * (a * k)
    BY <1>2, <1>5, TimesInAnyOrder
  <2>2. b * k \in Nat /\ a * k \in Nat /\ m * k \in Nat
    BY <1>5
  <2> QED
    BY <1>4, <2>1, <2>2
<1>7. Congruent(Power(t, x), t, p) /\ Congruent(Power(t, x), t, q)
  BY <1>2, <1>6, PowerModPrime
<1>8. Power(t, x) - t \in Int
  <2>1. Power(t, x) \in Nat
    BY PowerType
  <2> QED
    BY <2>1
<1>9. Divides(p * q, Power(t, x) - t)
  BY <1>7, <1>8, TwoPrimes DEF Congruent
<1> QED
  BY <1>3, <1>9 DEF Congruent

KeysOf(p, q, d, e, n) ==
  /\ Prime(p) /\ Prime(q) /\ p # q /\ n = p * q
  /\ Congruent(d * e, 1, (p - 1) * (q - 1))

\* What is encrypted with one key of a pair comes back with the other, for all
\* primes and exponents and every timestamp below the modulus
\* (encryptTimestamp, decryptTimestamp).
THEOREM DecryptUndoesEncrypt ==
  ASSUME NEW p \in Nat, NEW q \in Nat, NEW d \in Nat, NEW e \in Nat, NEW n \in Nat \ {0},
         KeysOf(p, q, d, e, n), NEW t \in Nat, t < n
  PROVE  decryptTimestamp(encryptTimestamp(t, d, n), e, n) = t
<1>1. PICK w \in Nat, s \in Nat : w = Power(t, d) /\ s = w % n /\ Congruent(s, w, n)
  <2>1. Power(t, d) \in Nat
    BY PowerType
  <2>2. Power(t, d) % n \in 0 .. n - 1 /\ Congruent(Power(t, d) % n, Power(t, d), n)
    BY <2>1, Remainders
  <2> QED
    BY <2>1, <2>2
<1>2. encryptTimestamp(t, d, n) = s
  BY <1>1, ModPowIsPower DEF encryptTimestamp
<1>3. decryptTimestamp(s, e, n) = Power(s, e) % n
  BY ModPowIsPower DEF decryptTimestamp
<1>4. PICK x \in Nat, y \in Nat : x = Power(s, e) /\ y = Power(w, e)
  BY PowerType
<1>5. Congruent(x, y, n)
  <2>1. n \in Int
    OBVIOUS
  <2> QED
    BY <1>1, <1>4, <2>1, PowerCongruent
<1>6. Congruent(y, t, n)
  <2>1. Congruent(Power(t, d * e), t, p * q)
    BY KeysUndo DEF KeysOf
  <2>2. n = p * q
    BY DEF KeysOf
  <2>3. y = Power(t, d * e)
    BY <1>1, <1>4, PowerPower
  <2> QED
    BY <2>1, <2>2, <2>3
<1>7. Congruent(x, t, n)
  <2>1. n \in Int /\ x \in Int /\ y \in Int /\ t \in Int
    OBVIOUS
  <2> QED
    BY <1>5, <1>6, <2>1, CongruentThrough
<1>8. x % n = t % n
  BY <1>7, CongruentRemainders
<1>9. t % n = t
  <2>1. t = n * 0 + t /\ t \in 0 .. n - 1 /\ t \in Int
    OBVIOUS
  <2>2. 0 \in Int
    OBVIOUS
  <2> QED
    BY <2>1, <2>2, Quotient
<1> QED
  BY <1>2, <1>3, <1>4, <1>8, <1>9

----------------------------------------------------------------------------
(* Streams of bytes (receiveTcpMessage). *)

LEMMA SubSeqFacts ==
  ASSUME NEW S, NEW s \in Seq(S), NEW a \in Nat, NEW b \in Nat, 1 <= a, b <= Len(s)
  PROVE  /\ SubSeq(s, a, b) \in Seq(S)
         /\ Len(SubSeq(s, a, b)) = IF a <= b THEN b - a + 1 ELSE 0
         /\ \A i \in 1 .. Len(SubSeq(s, a, b)) : SubSeq(s, a, b)[i] = s[a + i - 1]
  OBVIOUS

LEMMA ConcatFacts ==
  ASSUME NEW S, NEW s \in Seq(S), NEW t \in Seq(S)
  PROVE  /\ s \o t \in Seq(S)
         /\ Len(s \o t) = Len(s) + Len(t)
         /\ \A i \in 1 .. Len(s) : (s \o t)[i] = s[i]
         /\ \A i \in 1 .. Len(t) : (s \o t)[Len(s) + i] = t[i]
  OBVIOUS

LEMMA EmptyFacts ==
  ASSUME NEW S
  PROVE  <<>> \in Seq(S) /\ \A s \in Seq(S) : Len(s) = 0 => s = <<>>
  OBVIOUS

LEMMA AppendFacts ==
  ASSUME NEW S, NEW s \in Seq(S), NEW x \in S
  PROVE  /\ Append(s, x) \in Seq(S) /\ Len(Append(s, x)) = Len(s) + 1
         /\ \A i \in 1 .. Len(s) : Append(s, x)[i] = s[i]
         /\ Append(s, x)[Len(s) + 1] = x
  OBVIOUS

LEMMA ElementFacts ==
  ASSUME NEW S, NEW s \in Seq(S)
  PROVE  /\ \A i \in 1 .. Len(s) : s[i] \in S
         /\ s # <<>> => Len(s) >= 1 /\ s[1] \in S
  OBVIOUS

\* What a call of recv returns, n bytes behind the first t.
LEMMA PieceFacts ==
  ASSUME NEW S, NEW s \in Seq(S), NEW t \in Nat, NEW n \in Nat \ {0}, t + n <= Len(s)
  PROVE  /\ SubSeq(s, t + 1, t + n) \in Seq(S)
         /\ Len(SubSeq(s, t + 1, t + n)) = n
         /\ \A i \in 1 .. n : SubSeq(s, t + 1, t + n)[i] = s[t + i]
  OBVIOUS

LEMMA SeqOfElements ==
  ASSUME NEW S, NEW T, NEW s \in Seq(S), \A i \in 1 .. Len(s) : s[i] \in T
  PROVE  s \in Seq(T)
  OBVIOUS

LEMMA PrefixOfItself ==
  ASSUME NEW S, NEW s \in Seq(S), NEW t \in Seq(S), Len(s) <= Len(t),
         \A i \in 1 .. Len(s) : s[i] = t[i]
  PROVE  IsPrefix(s, t)
  BY DEF IsPrefix

----------------------------------------------------------------------------
(* The request: a single message, cut into any pieces.  What is on its way *)
(* is the message up to some byte, and the server holds what it has taken.  *)

Requests == [1 .. RequestSize -> Digits]

LEMMA RequestsAreSequences ==
  ASSUME RequestSize \in Nat
  PROVE  \A m \in Requests : m \in Seq(Digits) /\ Len(m) = RequestSize
  BY DEF Requests

UpTyped ==
  /\ upGiven \in Seq(Requests) /\ upUnsent \in Seq(Digits) /\ upWire \in Seq(Digits)
  /\ upArrived \in Nat /\ upTaken \in Nat
  /\ upMessage \in Seq(Digits) /\ upGot \in Seq(Seq(Digits))
  /\ upHungUp \in BOOLEAN /\ upEnded \in BOOLEAN
  /\ upTaken <= upArrived /\ upArrived <= Len(upWire)
  /\ upHungUp => upUnsent = <<>>

LEMMA UpInitTyped == Up!Init => UpTyped
<1> SUFFICES ASSUME Up!Init PROVE UpTyped
  OBVIOUS
<1>1. <<>> \in Seq(Requests) /\ <<>> \in Seq(Digits) /\ <<>> \in Seq(Seq(Digits))
  BY EmptyFacts
<1>2. Len(<<>>) = 0
  OBVIOUS
<1>3. upGiven \in Seq(Requests) /\ upUnsent \in Seq(Digits) /\ upWire \in Seq(Digits)
      /\ upMessage \in Seq(Digits) /\ upGot \in Seq(Seq(Digits))
  BY <1>1, Zenon DEF Up!Init
<1>4. upArrived = 0 /\ upTaken = 0 /\ Len(upWire) = 0 /\ upUnsent = <<>>
      /\ upHungUp \in BOOLEAN /\ upEnded \in BOOLEAN
  BY <1>2 DEF Up!Init
<1> QED
  BY <1>3, <1>4 DEF UpTyped

LEMMA UpFramesFromPrefix ==
  ASSUME RequestSize \in Nat, UpTyped, Len(upMessage) <= RequestSize, Len(upGot) <= Len(upGiven),
         \A i \in 1 .. Len(upGot) : upGot[i] = upGiven[i]
  PROVE  Up!FramesWhole /\ ~ Up!Overrun
<1>0. ~ Len(upMessage) > RequestSize
  BY DEF UpTyped
<1>1. upGiven \in Seq(Seq(Digits))
  <2>1. upGiven \in Seq(Requests)
    BY DEF UpTyped
  <2>2. \A i \in 1 .. Len(upGiven) : upGiven[i] \in Seq(Digits)
    BY <2>1, ElementFacts, RequestsAreSequences
  <2> QED
    BY <2>1, <2>2, SeqOfElements
<1>2. IsPrefix(upGot, upGiven)
  BY <1>1, PrefixOfItself DEF UpTyped
<1> QED
  BY <1>0, <1>2 DEF Up!FramesWhole, Up!Overrun, Up!IsPrefix, IsPrefix

LEMMA UpTypedStep ==
  ASSUME RequestSize \in Nat \ {0}, RequestRoom \in Nat, UpTyped, Up!Next
  PROVE  UpTyped'
<1>1. ASSUME NEW m \in Requests, Up!Send(m) PROVE UpTyped'
  <2>1. m \in Seq(Digits)
    BY RequestsAreSequences
  <2>2. upGiven' \in Seq(Requests)
    BY <1>1 DEF Up!Send, UpTyped
  <2> QED
    BY <1>1, <2>1, <2>2 DEF Up!Send, UpTyped
<1>2. CASE Up!Copy
  <2> DEFINE n == Up!Less(Len(upUnsent), RequestRoom - (Len(upWire) - upTaken))
  <2>1. n \in Nat \ {0} /\ n <= Len(upUnsent)
    BY <1>2 DEF Up!Copy, Up!Less, UpTyped
  <2>2. upWire' = upWire \o SubSeq(upUnsent, 1, n) /\ upUnsent' = SubSeq(upUnsent, n + 1, Len(upUnsent))
        /\ UNCHANGED <<upGiven, upArrived, upTaken, upMessage, upGot, upHungUp, upEnded>> /\ upUnsent # <<>>
    BY <1>2 DEF Up!Copy, Up!Sending
  <2> HIDE DEF n
  <2>3. SubSeq(upUnsent, 1, n) \in Seq(Digits) /\ SubSeq(upUnsent, n + 1, Len(upUnsent)) \in Seq(Digits)
    BY <2>1, SubSeqFacts DEF UpTyped
  <2>4. upWire' \in Seq(Digits) /\ Len(upWire) <= Len(upWire')
    BY <2>2, <2>3, ConcatFacts DEF UpTyped
  <2> QED
    BY <2>2, <2>3, <2>4 DEF UpTyped
<1>3. CASE Up!Arrive
  BY <1>3 DEF Up!Arrive, UpTyped
<1>4. CASE Up!HangUp
  BY <1>4 DEF Up!HangUp, UpTyped
<1>5. CASE Up!Recv
  <2> DEFINE n == Up!Less(RequestSize, upArrived - upTaken)
             m == upMessage \o SubSeq(upWire, upTaken + 1, upTaken + n)
  <2>1. n \in Nat \ {0} /\ upTaken + n <= upArrived
    BY <1>5 DEF Up!Recv, Up!Less, UpTyped
  <2>2. m \in Seq(Digits)
    BY <2>1, SubSeqFacts, ConcatFacts DEF UpTyped
  <2>3. /\ upTaken' = upTaken + n
        /\ \/ upGot' = Append(upGot, m) /\ upMessage' = <<>>
           \/ upMessage' = m /\ upGot' = upGot
        /\ UNCHANGED <<upGiven, upUnsent, upWire, upArrived, upHungUp, upEnded>>
    BY <1>5 DEF Up!Recv
  <2> HIDE DEF n, m
  <2>4. upGot' \in Seq(Seq(Digits)) /\ upMessage' \in Seq(Digits)
    <3>1. upGot \in Seq(Seq(Digits))
      BY DEF UpTyped
    <3>2. Append(upGot, m) \in Seq(Seq(Digits))
      BY <2>2, <3>1, AppendFacts, Zenon
    <3>3. <<>> \in Seq(Digits)
      BY EmptyFacts
    <3> QED
      BY <2>2, <2>3, <3>1, <3>2, <3>3
  <2>5. upTaken' \in Nat /\ upTaken' <= upArrived
    BY <2>1, <2>3 DEF UpTyped
  <2> QED
    BY <2>3, <2>4, <2>5 DEF UpTyped
<1>6. CASE Up!RecvEnd
  BY <1>6 DEF Up!RecvEnd, UpTyped
<1> QED
  BY <1>1, <1>2, <1>3, <1>4, <1>5, <1>6 DEF Up!Next, Requests

UpOnItsWay ==
  /\ Len(upWire) + Len(upUnsent) <= RequestSize
  /\ \A i \in 1 .. Len(upWire) : upWire[i] = upGiven[1][i]
  /\ \A i \in 1 .. Len(upUnsent) : upUnsent[i] = upGiven[1][Len(upWire) + i]

UpPartly ==
  /\ upGot = <<>> /\ upTaken < RequestSize
  /\ IF upEnded THEN upMessage = <<>> ELSE Len(upMessage) = upTaken
  /\ \A i \in 1 .. Len(upMessage) : upMessage[i] = upGiven[1][i]

UpWhole == upGot = <<upGiven[1]>> /\ upMessage = <<>> /\ upTaken = RequestSize

UpInv ==
  /\ UpTyped /\ Len(upGiven) <= 1
  /\ upGiven = <<>> => upUnsent = <<>> /\ upWire = <<>> /\ upGot = <<>> /\ upMessage = <<>>
  /\ upGiven # <<>> => UpOnItsWay /\ (UpPartly \/ UpWhole)

LEMMA UpNextKeeps ==
  ASSUME RequestSize \in Nat \ {0}, RequestRoom \in Nat, UpInv, Up!Next
  PROVE  UpInv'
<1> USE DEF UpInv
<1>1. UpTyped'
  BY UpTypedStep
<1>2. upGiven # <<>> => upGiven[1] \in Seq(Digits) /\ Len(upGiven[1]) = RequestSize
  <2> SUFFICES ASSUME upGiven # <<>> PROVE upGiven[1] \in Requests
    BY RequestsAreSequences
  <2> QED
    BY ElementFacts DEF UpTyped
<1>3. ASSUME NEW m \in Requests, Up!Send(m) PROVE UpInv'
  <2>1. upGiven = <<>> /\ upGiven' # <<>> /\ Len(upGiven') = 1 /\ upGiven'[1] = m /\ upUnsent' = m
    <3>1. upGiven \in Seq(Requests) /\ Len(upGiven) \in Nat
      BY DEF UpTyped
    <3>2. Len(upGiven) = 0 /\ upGiven' = Append(upGiven, m) /\ upUnsent' = m
      BY <1>3, <3>1 DEF Up!Send
    <3>3. upGiven = <<>>
      BY <3>1, <3>2, EmptyFacts
    <3> QED
      BY <3>1, <3>2, <3>3, AppendFacts
  <2>2. upWire = <<>> /\ upTaken = 0 /\ upEnded' = upEnded
        /\ UNCHANGED <<upWire, upTaken, upMessage, upGot>>
    BY <1>3, <2>1 DEF Up!Send, UpTyped
  <2>3. m \in Seq(Digits) /\ Len(m) = RequestSize
    BY RequestsAreSequences
  <2>4. UpOnItsWay'
    BY <2>1, <2>2, <2>3 DEF UpOnItsWay
  <2>5. UpPartly'
    BY <2>1, <2>2 DEF UpPartly
  <2> QED
    BY <1>1, <2>1, <2>4, <2>5
<1>4. CASE Up!Copy
  <2> DEFINE n == Up!Less(Len(upUnsent), RequestRoom - (Len(upWire) - upTaken))
  <2>1. n \in Nat \ {0} /\ n <= Len(upUnsent)
    BY <1>4 DEF Up!Copy, Up!Less, UpTyped
  <2>2. upWire' = upWire \o SubSeq(upUnsent, 1, n) /\ upUnsent' = SubSeq(upUnsent, n + 1, Len(upUnsent))
        /\ UNCHANGED <<upGiven, upArrived, upTaken, upMessage, upGot, upHungUp, upEnded>> /\ upUnsent # <<>>
    BY <1>4 DEF Up!Copy, Up!Sending
  <2> HIDE DEF n
  <2>3. upGiven # <<>> /\ UpOnItsWay
    BY <2>2
  <2>4. /\ SubSeq(upUnsent, 1, n) \in Seq(Digits) /\ Len(SubSeq(upUnsent, 1, n)) = n
        /\ \A i \in 1 .. n : SubSeq(upUnsent, 1, n)[i] = upUnsent[i]
    BY <2>1, SubSeqFacts DEF UpTyped
  <2>5. /\ Len(upUnsent') = Len(upUnsent) - n
        /\ \A i \in 1 .. Len(upUnsent') : upUnsent'[i] = upUnsent[n + i]
    BY <2>1, <2>2, SubSeqFacts DEF UpTyped
  <2>6. /\ Len(upWire') = Len(upWire) + n
        /\ \A i \in 1 .. Len(upWire) : upWire'[i] = upWire[i]
        /\ \A i \in 1 .. n : upWire'[Len(upWire) + i] = upUnsent[i]
    BY <2>2, <2>4, ConcatFacts DEF UpTyped
  <2>7. \A i \in 1 .. Len(upWire') : upWire'[i] = upGiven'[1][i]
    <3> TAKE i \in 1 .. Len(upWire')
    <3>1. CASE i <= Len(upWire)
      BY <2>2, <2>3, <2>6, <3>1 DEF UpOnItsWay, UpTyped
    <3>2. CASE i > Len(upWire)
      <4> DEFINE k == i - Len(upWire)
      <4>1. k \in 1 .. n /\ k \in 1 .. Len(upUnsent) /\ i = Len(upWire) + k
        BY <2>1, <2>6, <3>2 DEF UpTyped
      <4>2. upWire'[i] = upUnsent[k] /\ upUnsent[k] = upGiven[1][i]
        BY <2>3, <2>6, <4>1 DEF UpOnItsWay
      <4> QED
        BY <2>2, <4>2
    <3> QED
      BY <3>1, <3>2, <1>1 DEF UpTyped
  <2>8. \A i \in 1 .. Len(upUnsent') : upUnsent'[i] = upGiven'[1][Len(upWire') + i]
    <3> TAKE i \in 1 .. Len(upUnsent')
    <3>1. n + i \in 1 .. Len(upUnsent) /\ Len(upWire) + (n + i) = Len(upWire') + i
      BY <2>1, <2>5, <2>6 DEF UpTyped
    <3>2. upUnsent[n + i] = upGiven[1][Len(upWire) + (n + i)]
      BY <2>3, <3>1 DEF UpOnItsWay
    <3> QED
      BY <2>2, <2>5, <3>1, <3>2
  <2>9. UpOnItsWay'
    BY <2>1, <2>3, <2>5, <2>6, <2>7, <2>8 DEF UpOnItsWay, UpTyped
  <2>10. (UpPartly \/ UpWhole)'
    BY <2>2, <2>3 DEF UpPartly, UpWhole
  <2> QED
    BY <1>1, <2>2, <2>3, <2>9, <2>10
<1>5. CASE Up!Arrive
  BY <1>1, <1>5 DEF Up!Arrive, UpOnItsWay, UpPartly, UpWhole
<1>6. CASE Up!HangUp
  <2>1. UpOnItsWay => UpOnItsWay'
    BY <1>6 DEF Up!HangUp, UpOnItsWay, UpTyped
  <2> QED
    BY <1>1, <1>6, <2>1 DEF Up!HangUp, UpPartly, UpWhole
<1>7. CASE Up!Recv
  <2> DEFINE n == Up!Less(RequestSize, upArrived - upTaken)
             m == upMessage \o SubSeq(upWire, upTaken + 1, upTaken + n)
  <2>1. n \in Nat \ {0} /\ upTaken + n <= upArrived /\ ~ upEnded
    BY <1>7 DEF Up!Recv, Up!Less, UpTyped
  <2>2. /\ upTaken' = upTaken + n
        /\ \/ Len(m) = RequestSize /\ upGot' = Append(upGot, m) /\ upMessage' = <<>>
           \/ Len(m) # RequestSize /\ upMessage' = m /\ upGot' = upGot
        /\ UNCHANGED <<upGiven, upUnsent, upWire, upArrived, upHungUp, upEnded>>
    BY <1>7 DEF Up!Recv
  <2> HIDE DEF n
  <2>3. upGiven # <<>> /\ UpOnItsWay /\ upTaken + n <= Len(upWire) /\ Len(upWire) <= RequestSize
    BY <2>1 DEF UpTyped, UpOnItsWay
  <2>4. UpPartly /\ Len(upMessage) = upTaken
    BY <2>1, <2>3 DEF UpPartly, UpWhole, UpTyped
  <2> DEFINE piece == SubSeq(upWire, upTaken + 1, upTaken + n)
  <2>5. /\ piece \in Seq(Digits) /\ Len(piece) = n
        /\ \A i \in 1 .. n : piece[i] = upWire[upTaken + i]
    <3>1. upWire \in Seq(Digits) /\ upTaken \in Nat /\ n \in Nat \ {0} /\ upTaken + n <= Len(upWire)
      BY <2>1, <2>3 DEF UpTyped
    <3> HIDE DEF m
    <3> QED
      BY ONLY <3>1, PieceFacts DEF piece
  <2>10. m = upMessage \o piece
    OBVIOUS
  <2> HIDE DEF m, piece
  <2>6. /\ m \in Seq(Digits) /\ Len(m) = upTaken + n
        /\ \A i \in 1 .. upTaken : m[i] = upMessage[i]
        /\ \A i \in 1 .. n : m[upTaken + i] = upWire[upTaken + i]
    <3>1. upMessage \in Seq(Digits)
      BY DEF UpTyped
    <3>2. /\ m \in Seq(Digits) /\ Len(m) = Len(upMessage) + Len(piece)
          /\ \A i \in 1 .. Len(upMessage) : m[i] = upMessage[i]
          /\ \A i \in 1 .. Len(piece) : m[Len(upMessage) + i] = piece[i]
      <4>1. piece \in Seq(Digits)
        BY <2>5
      <4> QED
        BY <2>10, <3>1, <4>1, ConcatFacts
    <3> QED
      BY <2>4, <2>5, <3>2
  <2>7. \A i \in 1 .. Len(m) : m[i] = upGiven[1][i]
    <3> TAKE i \in 1 .. Len(m)
    <3>1. CASE i <= upTaken
      BY <2>4, <2>6, <3>1 DEF UpPartly
    <3>2. CASE i > upTaken
      <4> DEFINE k == i - upTaken
      <4>1. k \in 1 .. n /\ i = upTaken + k /\ i \in 1 .. Len(upWire)
        BY <2>1, <2>3, <2>6, <3>2 DEF UpTyped
      <4>2. m[i] = upWire[i]
        BY <2>6, <4>1
      <4> QED
        BY <2>3, <4>1, <4>2 DEF UpOnItsWay
    <3> QED
      BY <2>6, <3>1, <3>2 DEF UpTyped
  <2>8. CASE Len(m) = RequestSize /\ upGot' = Append(upGot, m) /\ upMessage' = <<>>
    <3>1. m = upGiven[1]
      BY <1>2, <2>3, <2>6, <2>7, <2>8
    <3>2. UpWhole'
      BY <2>2, <2>4, <2>6, <2>8, <3>1 DEF UpPartly, UpWhole
    <3> QED
      BY <1>1, <2>2, <2>3, <3>2 DEF UpOnItsWay
  <2>9. CASE Len(m) # RequestSize /\ upMessage' = m /\ upGot' = upGot
    <3>1. UpPartly'
      BY <2>1, <2>2, <2>3, <2>4, <2>6, <2>7, <2>9 DEF UpPartly, UpTyped
    <3> QED
      BY <1>1, <2>2, <2>3, <3>1 DEF UpOnItsWay
  <2> QED
    BY <2>2, <2>8, <2>9
<1>8. CASE Up!RecvEnd
  BY <1>1, <1>8 DEF Up!RecvEnd, UpOnItsWay, UpPartly, UpWhole
<1> QED
  BY <1>3, <1>4, <1>5, <1>6, <1>7, <1>8 DEF Up!Next, Requests

LEMMA UpStarts == Up!Init => UpInv
  BY UpInitTyped DEF Up!Init, UpInv

LEMMA UpWholeFrames ==
  ASSUME RequestSize \in Nat \ {0}, UpInv
  PROVE  Up!FramesWhole /\ ~ Up!Overrun
<1>1. Len(upMessage) <= RequestSize
  BY DEF UpInv, UpTyped, UpPartly, UpWhole
<1>2. Len(upGot) <= Len(upGiven) /\ \A i \in 1 .. Len(upGot) : upGot[i] = upGiven[i]
  BY DEF UpInv, UpTyped, UpPartly, UpWhole
<1> QED
  BY <1>1, <1>2, UpFramesFromPrefix DEF UpInv

----------------------------------------------------------------------------
(* The answer: any number of messages, cut into any pieces.  What the       *)
(* client has taken is the messages it got and what its buffer holds, and  *)
(* it takes nothing more after an overrun.                                 *)

LEMMA TimesNext ==
  ASSUME NEW s \in Nat, NEW i \in Int
  PROVE  s * i \in Int /\ s * (i + 1) = s * i + s /\ s * (i - 1) = s * i - s
  OBVIOUS

LEMMA TimesOrder ==
  ASSUME NEW s \in Nat, NEW i \in Nat, NEW k \in Nat, i <= k
  PROVE  s * i <= s * k
  OBVIOUS

LEMMA TimesLess ==
  ASSUME NEW s \in Nat, NEW i \in Nat, NEW k \in Nat, s * i < s * k
  PROVE  i < k
<1> SUFFICES ASSUME k <= i PROVE FALSE
  OBVIOUS
<1> QED
  BY TimesOrder

Responses == [1 .. ResponseSize -> Digits]

LEMMA ResponsesAreSequences ==
  ASSUME ResponseSize \in Nat
  PROVE  \A m \in Responses : m \in Seq(Digits) /\ Len(m) = ResponseSize
  BY DEF Responses

DownTyped ==
  /\ dnGiven \in Seq(Responses) /\ dnUnsent \in Seq(Digits) /\ dnWire \in Seq(Digits)
  /\ dnArrived \in Nat /\ dnTaken \in Nat
  /\ dnMessage \in Seq(Digits) /\ dnGot \in Seq(Seq(Digits))
  /\ dnHungUp \in BOOLEAN /\ dnEnded \in BOOLEAN
  /\ dnTaken <= dnArrived /\ dnArrived <= Len(dnWire)
  /\ dnHungUp => dnUnsent = <<>>

LEMMA DownInitTyped == Down!Init => DownTyped
<1> SUFFICES ASSUME Down!Init PROVE DownTyped
  OBVIOUS
<1>1. <<>> \in Seq(Responses) /\ <<>> \in Seq(Digits) /\ <<>> \in Seq(Seq(Digits))
  BY EmptyFacts
<1>2. Len(<<>>) = 0
  OBVIOUS
<1>3. dnGiven \in Seq(Responses) /\ dnUnsent \in Seq(Digits) /\ dnWire \in Seq(Digits)
      /\ dnMessage \in Seq(Digits) /\ dnGot \in Seq(Seq(Digits))
  BY <1>1, Zenon DEF Down!Init
<1>4. dnArrived = 0 /\ dnTaken = 0 /\ Len(dnWire) = 0 /\ dnUnsent = <<>>
      /\ dnHungUp \in BOOLEAN /\ dnEnded \in BOOLEAN
  BY <1>2 DEF Down!Init
<1> QED
  BY <1>3, <1>4 DEF DownTyped

LEMMA DownFramesFromPrefix ==
  ASSUME ResponseSize \in Nat, DownTyped, Len(dnGot) <= Len(dnGiven),
         Len(dnMessage) > ResponseSize => Len(dnGiven) > Len(dnGot) + 1,
         \A i \in 1 .. Len(dnGot) : dnGot[i] = dnGiven[i]
  PROVE  Down!FramesWhole
<1>1. dnGiven \in Seq(Seq(Digits))
  <2>1. dnGiven \in Seq(Responses)
    BY DEF DownTyped
  <2>2. \A i \in 1 .. Len(dnGiven) : dnGiven[i] \in Seq(Digits)
    BY <2>1, ElementFacts, ResponsesAreSequences
  <2> QED
    BY <2>1, <2>2, SeqOfElements
<1>2. IsPrefix(dnGot, dnGiven)
  BY <1>1, PrefixOfItself DEF DownTyped
<1> QED
  BY <1>2 DEF Down!FramesWhole, Down!Overrun, Down!IsPrefix, IsPrefix

LEMMA DownTypedStep ==
  ASSUME ResponseSize \in Nat \ {0}, ResponseRoom \in Nat, DownTyped, Down!Next
  PROVE  DownTyped'
<1>1. ASSUME NEW m \in Responses, Down!Send(m) PROVE DownTyped'
  <2>1. m \in Seq(Digits)
    BY ResponsesAreSequences
  <2>2. dnGiven' \in Seq(Responses)
    BY <1>1 DEF Down!Send, DownTyped
  <2> QED
    BY <1>1, <2>1, <2>2 DEF Down!Send, DownTyped
<1>2. CASE Down!Copy
  <2> DEFINE n == Down!Less(Len(dnUnsent), ResponseRoom - (Len(dnWire) - dnTaken))
  <2>1. n \in Nat \ {0} /\ n <= Len(dnUnsent)
    BY <1>2 DEF Down!Copy, Down!Less, DownTyped
  <2>2. dnWire' = dnWire \o SubSeq(dnUnsent, 1, n) /\ dnUnsent' = SubSeq(dnUnsent, n + 1, Len(dnUnsent))
        /\ UNCHANGED <<dnGiven, dnArrived, dnTaken, dnMessage, dnGot, dnHungUp, dnEnded>> /\ dnUnsent # <<>>
    BY <1>2 DEF Down!Copy, Down!Sending
  <2> HIDE DEF n
  <2>3. SubSeq(dnUnsent, 1, n) \in Seq(Digits) /\ SubSeq(dnUnsent, n + 1, Len(dnUnsent)) \in Seq(Digits)
    BY <2>1, SubSeqFacts DEF DownTyped
  <2>4. dnWire' \in Seq(Digits) /\ Len(dnWire) <= Len(dnWire')
    BY <2>2, <2>3, ConcatFacts DEF DownTyped
  <2> QED
    BY <2>2, <2>3, <2>4 DEF DownTyped
<1>3. CASE Down!Arrive
  BY <1>3 DEF Down!Arrive, DownTyped
<1>4. CASE Down!HangUp
  BY <1>4 DEF Down!HangUp, DownTyped
<1>5. CASE Down!Recv
  <2> DEFINE n == Down!Less(ResponseSize, dnArrived - dnTaken)
             m == dnMessage \o SubSeq(dnWire, dnTaken + 1, dnTaken + n)
  <2>1. n \in Nat \ {0} /\ dnTaken + n <= dnArrived
    BY <1>5 DEF Down!Recv, Down!Less, DownTyped
  <2>2. m \in Seq(Digits)
    BY <2>1, SubSeqFacts, ConcatFacts DEF DownTyped
  <2>3. /\ dnTaken' = dnTaken + n
        /\ \/ dnGot' = Append(dnGot, m) /\ dnMessage' = <<>>
           \/ dnMessage' = m /\ dnGot' = dnGot
        /\ UNCHANGED <<dnGiven, dnUnsent, dnWire, dnArrived, dnHungUp, dnEnded>>
    BY <1>5 DEF Down!Recv
  <2> HIDE DEF n, m
  <2>4. dnGot' \in Seq(Seq(Digits)) /\ dnMessage' \in Seq(Digits)
    <3>1. dnGot \in Seq(Seq(Digits))
      BY DEF DownTyped
    <3>2. Append(dnGot, m) \in Seq(Seq(Digits))
      BY <2>2, <3>1, AppendFacts, Zenon
    <3>3. <<>> \in Seq(Digits)
      BY EmptyFacts
    <3> QED
      BY <2>2, <2>3, <3>1, <3>2, <3>3
  <2>5. dnTaken' \in Nat /\ dnTaken' <= dnArrived
    BY <2>1, <2>3 DEF DownTyped
  <2> QED
    BY <2>3, <2>4, <2>5 DEF DownTyped
<1>6. CASE Down!RecvEnd
  BY <1>6 DEF Down!RecvEnd, DownTyped
<1> QED
  BY <1>1, <1>2, <1>3, <1>4, <1>5, <1>6 DEF Down!Next, Responses

LastGiven == dnGiven[Len(dnGiven)]

DownOnItsWay ==
  /\ \A i \in 1 .. Len(dnGiven), j \in 1 .. ResponseSize :
       ResponseSize * (i - 1) + j <= Len(dnWire) => dnWire[ResponseSize * (i - 1) + j] = dnGiven[i][j]
  /\ Len(dnUnsent) <= ResponseSize
  /\ Len(dnWire) + Len(dnUnsent) <= ResponseSize * Len(dnGiven)
  /\ ~ dnHungUp => Len(dnWire) + Len(dnUnsent) = ResponseSize * Len(dnGiven)
  /\ \A k \in 1 .. Len(dnUnsent) : dnUnsent[k] = LastGiven[ResponseSize - Len(dnUnsent) + k]

DownReceived ==
  /\ dnEnded => dnMessage = <<>>
  /\ ~ dnEnded =>
       /\ dnTaken = ResponseSize * Len(dnGot) + Len(dnMessage)
       /\ \A k \in 1 .. Len(dnMessage) :
            dnMessage[k] = dnWire[ResponseSize * Len(dnGot) + k]
  /\ Len(dnGot) <= Len(dnGiven)
  /\ \A i \in 1 .. Len(dnGot) : dnGot[i] = dnGiven[i]

DownInv == DownTyped /\ DownOnItsWay /\ DownReceived

LEMMA DownGiven ==
  ASSUME ResponseSize \in Nat \ {0}, DownTyped
  PROVE  /\ Len(dnGiven) \in Nat /\ ResponseSize * Len(dnGiven) \in Nat
         /\ \A i \in 1 .. Len(dnGiven) : dnGiven[i] \in Seq(Digits) /\ Len(dnGiven[i]) = ResponseSize
<1>1. dnGiven \in Seq(Responses)
  BY DEF DownTyped
<1>2. \A i \in 1 .. Len(dnGiven) : dnGiven[i] \in Responses
  BY <1>1, ElementFacts, Zenon
<1>3. Len(dnGiven) \in Nat
  BY <1>1
<1>4. ResponseSize * Len(dnGiven) \in Nat
  BY <1>3
<1> QED
  BY <1>2, <1>3, <1>4, ResponsesAreSequences

LEMMA DownSendKeeps ==
  ASSUME ResponseSize \in Nat \ {0}, DownInv, NEW m \in Responses, Down!Send(m)
  PROVE  DownOnItsWay' /\ DownReceived'
<1> DEFINE l == Len(dnGiven)
<1>1. /\ dnGiven \in Seq(Responses) /\ l \in Nat /\ Len(dnWire) \in Nat
      /\ dnUnsent = <<>> /\ Len(dnUnsent) = 0 /\ ~ dnHungUp
      /\ dnGiven' = Append(dnGiven, m) /\ dnUnsent' = m
      /\ UNCHANGED <<dnWire, dnArrived, dnTaken, dnMessage, dnGot, dnHungUp, dnEnded>>
  BY DEF Down!Send, Down!Sending, DownInv, DownTyped
<1>2. /\ Len(dnGiven') = l + 1 /\ dnGiven'[l + 1] = m
      /\ \A i \in 1 .. l : dnGiven'[i] = dnGiven[i]
  BY <1>1, AppendFacts
<1>3. m \in Seq(Digits) /\ Len(m) = ResponseSize
  BY ResponsesAreSequences
<1>4. Len(dnWire) = ResponseSize * l /\ ResponseSize * (l + 1) = ResponseSize * l + ResponseSize
  BY <1>1, TimesNext DEF DownInv, DownOnItsWay
<1>5. \A i \in 1 .. Len(dnGiven'), j \in 1 .. ResponseSize :
        ResponseSize * (i - 1) + j <= Len(dnWire') => dnWire'[ResponseSize * (i - 1) + j] = dnGiven'[i][j]
  <2> TAKE i \in 1 .. Len(dnGiven'), j \in 1 .. ResponseSize
  <2>1. CASE i = l + 1
    <3>1. ResponseSize * (i - 1) = ResponseSize * l
      BY <1>1, <2>1
    <3> QED
      BY <1>1, <1>4, <3>1
  <2>2. CASE i # l + 1
    <3>1. i \in 1 .. l
      BY <1>1, <1>2, <2>2
    <3> QED
      BY <1>1, <1>2, <3>1 DEF DownInv, DownOnItsWay
  <2> QED
    BY <2>1, <2>2
<1>6. \A k \in 1 .. Len(dnUnsent') : dnUnsent'[k] = LastGiven'[ResponseSize - Len(dnUnsent') + k]
  BY <1>1, <1>2, <1>3 DEF LastGiven
<1>7. Len(dnWire') + Len(dnUnsent') = ResponseSize * Len(dnGiven')
  BY <1>1, <1>2, <1>3, <1>4
<1>8. DownOnItsWay'
  BY <1>1, <1>3, <1>5, <1>6, <1>7 DEF DownOnItsWay
<1>9. DownReceived'
  <2>1. Len(dnGot) \in Nat
    BY DEF DownInv, DownTyped
  <2> QED
    BY <1>1, <1>2, <2>1 DEF DownInv, DownReceived
<1> QED
  BY <1>8, <1>9

LEMMA DownCopyKeeps ==
  ASSUME ResponseSize \in Nat \ {0}, ResponseRoom \in Nat, DownInv, Down!Copy
  PROVE  DownOnItsWay' /\ DownReceived'
<1> DEFINE n == Down!Less(Len(dnUnsent), ResponseRoom - (Len(dnWire) - dnTaken))
           l == Len(dnGiven)
           w == Len(dnWire)
           u == Len(dnUnsent)
<1>1. /\ l \in Nat /\ w \in Nat /\ u \in Nat /\ n \in Nat \ {0} /\ n <= u
      /\ dnWire \in Seq(Digits) /\ dnUnsent \in Seq(Digits)
  BY DEF Down!Copy, Down!Less, DownInv, DownTyped
<1>2. /\ dnWire' = dnWire \o SubSeq(dnUnsent, 1, n) /\ dnUnsent' = SubSeq(dnUnsent, n + 1, u)
      /\ UNCHANGED <<dnGiven, dnArrived, dnTaken, dnMessage, dnGot, dnHungUp, dnEnded>>
      /\ dnUnsent # <<>>
  BY DEF Down!Copy, Down!Sending
<1>3. ~ dnHungUp /\ w + u = ResponseSize * l /\ u <= ResponseSize /\ ResponseSize * l \in Nat
  BY <1>2, DownGiven DEF DownInv, DownTyped, DownOnItsWay
<1> HIDE DEF n
<1>4. /\ SubSeq(dnUnsent, 1, n) \in Seq(Digits) /\ Len(SubSeq(dnUnsent, 1, n)) = n
      /\ \A i \in 1 .. n : SubSeq(dnUnsent, 1, n)[i] = dnUnsent[i]
  BY <1>1, SubSeqFacts
<1>5. Len(dnUnsent') = u - n /\ \A i \in 1 .. Len(dnUnsent') : dnUnsent'[i] = dnUnsent[n + i]
  BY <1>1, <1>2, SubSeqFacts
<1>6. /\ Len(dnWire') = w + n
      /\ \A i \in 1 .. w : dnWire'[i] = dnWire[i]
      /\ \A i \in 1 .. n : dnWire'[w + i] = dnUnsent[i]
  BY <1>1, <1>2, <1>4, ConcatFacts
<1>7. \A i \in 1 .. Len(dnGiven'), j \in 1 .. ResponseSize :
        ResponseSize * (i - 1) + j <= Len(dnWire') => dnWire'[ResponseSize * (i - 1) + j] = dnGiven'[i][j]
  <2> TAKE i \in 1 .. Len(dnGiven'), j \in 1 .. ResponseSize
  <2> DEFINE p == ResponseSize * (i - 1) + j
  <2>1. i \in 1 .. l /\ dnGiven' = dnGiven /\ p \in Nat /\ p >= 1
    <3>1. i \in 1 .. l /\ dnGiven' = dnGiven /\ j \in Nat /\ j >= 1
      BY <1>1, <1>2
    <3>2. i - 1 \in Nat
      BY <1>1, <3>1
    <3>3. ResponseSize * (i - 1) \in Nat
      BY <3>2
    <3> QED
      BY <3>1, <3>3
  <2>2. CASE p <= w
    <3>1. dnWire'[p] = dnWire[p]
      BY <1>1, <1>6, <2>1, <2>2
    <3> QED
      BY <2>1, <2>2, <3>1 DEF DownInv, DownOnItsWay
  <2>3. CASE p > w /\ p <= w + n
    \* Bytes that were not sent before are of the last dnMessage.
    <3>1. i = l
      <4> SUFFICES ASSUME i < l PROVE FALSE
        BY <1>1, <2>1
      <4>1. ResponseSize * (i - 1) = ResponseSize * i - ResponseSize /\ ResponseSize * (l - 1) = ResponseSize * l - ResponseSize
        BY <1>1, TimesNext
      <4>2. ResponseSize * i <= ResponseSize * (l - 1)
        BY <1>1, <2>1, TimesOrder
      <4>3. ResponseSize * i \in Int /\ ResponseSize * (l - 1) \in Int
        BY <1>1, TimesNext
      <4> QED
        BY <1>1, <1>3, <2>3, <4>1, <4>2, <4>3
    <3>2. ResponseSize * (i - 1) = ResponseSize * l - ResponseSize
      BY <1>1, <3>1, TimesNext
    <3>3. p - w \in 1 .. n /\ p - w \in 1 .. u
      BY <1>1, <2>1, <2>3
    <3>6. ResponseSize - u + (p - w) = j
      BY <1>1, <1>3, <3>2
    <3>4. dnWire'[p] = dnUnsent[p - w]
      <4>1. w + (p - w) = p
        BY <1>1, <2>1
      <4> QED
        BY <1>6, <3>3, <4>1
    <3>5. dnUnsent[p - w] = dnGiven[l][j]
      BY <3>3, <3>6 DEF DownInv, DownOnItsWay, LastGiven
    <3> QED
      BY <2>1, <3>1, <3>4, <3>5
  <2> QED
    BY <1>1, <1>6, <2>1, <2>2, <2>3
<1>8. \A k \in 1 .. Len(dnUnsent') : dnUnsent'[k] = LastGiven'[ResponseSize - Len(dnUnsent') + k]
  <2> TAKE k \in 1 .. Len(dnUnsent')
  <2>1. n + k \in 1 .. u /\ ResponseSize - u + (n + k) = ResponseSize - Len(dnUnsent') + k
    BY <1>1, <1>5
  <2>2. dnUnsent[n + k] = LastGiven[ResponseSize - u + (n + k)]
    BY <2>1 DEF DownInv, DownOnItsWay
  <2> QED
    BY <1>2, <1>5, <2>1, <2>2 DEF LastGiven
<1>9. Len(dnWire') + Len(dnUnsent') = ResponseSize * Len(dnGiven') /\ Len(dnUnsent') <= ResponseSize
  <2>1. ResponseSize * Len(dnGiven') = ResponseSize * l
    BY <1>2
  <2>2. Len(dnWire') = w + n /\ Len(dnUnsent') = u - n
    BY <1>5, <1>6
  <2> HIDE DEF l, w, u
  <2>3. (w + n) + (u - n) = ResponseSize * l /\ u - n <= ResponseSize
    BY <1>1, <1>3
  <2> QED
    BY <2>1, <2>2, <2>3
<1>10. DownOnItsWay'
  BY <1>3, <1>7, <1>8, <1>9 DEF DownOnItsWay
<1>11. DownReceived'
  <2>1. ASSUME ~ dnEnded, NEW k \in 1 .. Len(dnMessage)
        PROVE  dnWire'[ResponseSize * Len(dnGot) + k] = dnWire[ResponseSize * Len(dnGot) + k]
    <3>1. ResponseSize * Len(dnGot) \in Nat /\ Len(dnMessage) \in Nat
      BY DEF DownInv, DownTyped
    <3>2. ResponseSize * Len(dnGot) + Len(dnMessage) <= w
      BY <2>1 DEF DownInv, DownTyped, DownReceived
    <3>3. ResponseSize * Len(dnGot) + k \in 1 .. w
      BY <1>1, <3>1, <3>2
    <3> QED
      BY <1>6, <3>3
  <2> QED
    BY <1>2, <2>1 DEF DownInv, DownReceived
<1> QED
  BY <1>10, <1>11

LEMMA DownRecvKeeps ==
  ASSUME ResponseSize \in Nat \ {0}, DownInv, Down!Recv
  PROVE  DownOnItsWay' /\ DownReceived'
<1> DEFINE n == Down!Less(ResponseSize, dnArrived - dnTaken)
           piece == SubSeq(dnWire, dnTaken + 1, dnTaken + n)
           m == dnMessage \o piece
           g == Len(dnGot)
           l == Len(dnGiven)
           h == Len(dnMessage)
<1>1. /\ g \in Nat /\ l \in Nat /\ h \in Nat /\ dnTaken \in Nat
      /\ dnWire \in Seq(Digits) /\ dnMessage \in Seq(Digits)
      /\ Len(dnWire) \in Nat /\ ~ dnEnded /\ ResponseSize * g \in Nat
      /\ n \in Nat \ {0} /\ dnTaken + n <= Len(dnWire)
      /\ dnTaken = ResponseSize * g + h
      /\ Len(dnWire) <= ResponseSize * l /\ ResponseSize * l \in Nat
  <2>1. g \in Nat /\ ResponseSize * g \in Nat
    BY DEF DownInv, DownTyped
  <2>2. ~ dnEnded /\ n > 0
    BY DEF Down!Recv
  <2>3. dnArrived \in Nat /\ dnTaken \in Nat /\ dnArrived <= Len(dnWire) /\ h \in Nat
        /\ dnWire \in Seq(Digits) /\ dnMessage \in Seq(Digits) /\ Len(dnWire) \in Nat
        /\ Len(dnUnsent) \in Nat
    BY DEF DownInv, DownTyped
  <2>4. n \in Int /\ n <= dnArrived - dnTaken
    BY <2>3 DEF Down!Less
  <2>5. dnTaken = ResponseSize * g + h
    BY <2>2 DEF DownInv, DownReceived
  <2>6. l \in Nat /\ ResponseSize * l \in Nat
    BY DownGiven DEF DownInv
  <2>7. Len(dnWire) <= ResponseSize * l
    BY <2>3, <2>6 DEF DownInv, DownOnItsWay
  <2> HIDE DEF n, g, h, l
  <2> QED
    BY <2>1, <2>2, <2>3, <2>4, <2>5, <2>6, <2>7
<1>2. /\ dnTaken' = dnTaken + n
      /\ \/ Len(m) = ResponseSize /\ dnGot' = Append(dnGot, m) /\ dnMessage' = <<>>
         \/ Len(m) # ResponseSize /\ dnMessage' = m /\ dnGot' = dnGot
      /\ UNCHANGED <<dnGiven, dnUnsent, dnWire, dnArrived, dnHungUp, dnEnded>>
  BY DEF Down!Recv
<1> HIDE DEF n
<1>3. /\ piece \in Seq(Digits) /\ Len(piece) = n
      /\ \A j \in 1 .. n : piece[j] = dnWire[dnTaken + j]
  BY <1>1, PieceFacts
<1> HIDE DEF piece
<1>4. /\ m \in Seq(Digits) /\ Len(m) = h + n
      /\ \A k \in 1 .. h : m[k] = dnMessage[k]
      /\ \A j \in 1 .. n : m[h + j] = piece[j]
  <2>1. dnMessage \in Seq(Digits) /\ piece \in Seq(Digits)
    BY <1>1, <1>3
  <2>2. m = dnMessage \o piece
    OBVIOUS
  <2> HIDE DEF m
  <2>3. /\ m \in Seq(Digits) /\ Len(m) = Len(dnMessage) + Len(piece)
        /\ \A k \in 1 .. Len(dnMessage) : m[k] = dnMessage[k]
        /\ \A j \in 1 .. Len(piece) : m[Len(dnMessage) + j] = piece[j]
    BY <2>1, <2>2, ConcatFacts
  <2> QED
    BY <1>3, <2>3
<1> HIDE DEF m
<1>5. \A k \in 1 .. Len(m) : m[k] = dnWire[ResponseSize * g + k]
  <2> TAKE k \in 1 .. Len(m)
  <2>1. CASE k <= h
    BY <1>1, <1>4, <2>1 DEF DownInv, DownReceived
  <2>2. CASE k > h
    <3>1. k - h \in 1 .. n /\ h + (k - h) = k
      BY <1>1, <1>4, <2>2
    <3>2. dnTaken + (k - h) = ResponseSize * g + k
      BY <1>1, <3>1
    <3> QED
      BY <1>3, <1>4, <3>1, <3>2
  <2> QED
    BY <1>1, <1>4, <2>1, <2>2
<1>6. DownOnItsWay'
  BY <1>2 DEF DownInv, DownOnItsWay, LastGiven
<1>7. CASE Len(m) = ResponseSize
  <2>1. ResponseSize * (g + 1) = ResponseSize * g + ResponseSize
    BY <1>1, TimesNext
  <2>2. dnTaken' = ResponseSize * (g + 1)
    <3>1. dnTaken' = dnTaken + n /\ dnTaken = ResponseSize * g + h /\ h + n = ResponseSize
      BY <1>1, <1>2, <1>4, <1>7
    <3> HIDE DEF g, h
    <3> QED
      BY <1>1, <2>1, <3>1
  <2>3. g + 1 <= l
    <3> SUFFICES ASSUME l <= g PROVE FALSE
      BY <1>1
    <3>1. ResponseSize * l <= ResponseSize * g
      BY <1>1, TimesOrder
    <3> QED
      BY <1>1, <3>1
  <2>4. m = dnGiven[g + 1]
    <3>1. dnGiven[g + 1] \in Seq(Digits) /\ Len(dnGiven[g + 1]) = ResponseSize
      BY <1>1, <2>3, DownGiven DEF DownInv
    <3>2. \A j \in 1 .. ResponseSize : dnWire[ResponseSize * g + j] = dnGiven[g + 1][j]
      <4> TAKE j \in 1 .. ResponseSize
      <4>1. g + 1 \in 1 .. l /\ (g + 1) - 1 = g
        BY <1>1, <2>3
      <4>2. ResponseSize * ((g + 1) - 1) + j = ResponseSize * g + j
            /\ ResponseSize * g + j <= Len(dnWire)
        BY <1>1, <1>4, <1>7, <4>1
      <4> QED
        BY <4>1, <4>2 DEF DownInv, DownOnItsWay
    <3>3. \A j \in 1 .. ResponseSize : m[j] = dnGiven[g + 1][j]
      BY <1>5, <1>7, <3>2
    <3> HIDE DEF g
    <3> QED
      BY <1>4, <1>7, <3>1, <3>3
  <2>5. dnGot' = Append(dnGot, dnGiven[g + 1]) /\ dnMessage' = <<>>
    BY <1>2, <1>7, <2>4
  <2>6. /\ Len(dnGot') = g + 1 /\ dnGot'[g + 1] = dnGiven[g + 1]
        /\ \A i \in 1 .. g : dnGot'[i] = dnGot[i]
    <3>1. dnGiven[g + 1] \in Seq(Digits) /\ dnGot \in Seq(Seq(Digits))
      BY <1>4, <2>4 DEF DownInv, DownTyped
    <3> QED
      BY <2>5, <3>1, AppendFacts
  <2>7. \A i \in 1 .. Len(dnGot') : dnGot'[i] = dnGiven'[i]
    <3> TAKE i \in 1 .. Len(dnGot')
    <3>1. CASE i = g + 1
      BY <1>2, <2>6, <3>1
    <3>2. CASE i # g + 1
      <4>1. i \in 1 .. g
        BY <1>1, <2>6, <3>2
      <4> QED
        BY <1>2, <2>6, <4>1 DEF DownInv, DownReceived
    <3> QED
      BY <3>1, <3>2
  <2>8. Len(dnMessage') = 0
    BY <2>5
  <2>9. DownReceived'
    <3>1. dnTaken' = ResponseSize * Len(dnGot') + Len(dnMessage')
      BY <1>1, <2>1, <2>2, <2>6, <2>8
    <3>2. Len(dnGot') <= Len(dnGiven')
      BY <1>2, <2>3, <2>6
    <3> QED
      BY <1>1, <1>2, <2>5, <2>7, <2>8, <3>1, <3>2 DEF DownReceived
  <2> QED
    BY <1>6, <2>9
<1>8. CASE Len(m) # ResponseSize
  <2>1. dnMessage' = m /\ dnGot' = dnGot
    BY <1>2, <1>8
  <2>2. dnTaken' = ResponseSize * g + Len(m)
    BY <1>1, <1>2, <1>4
  <2>3. DownReceived'
    BY <1>1, <1>2, <1>5, <2>1, <2>2 DEF DownInv, DownReceived
  <2> QED
    BY <1>6, <2>3
<1> QED
  BY <1>7, <1>8

LEMMA DownNextKeeps ==
  ASSUME ResponseSize \in Nat \ {0}, ResponseRoom \in Nat, DownInv, Down!Next
  PROVE  DownInv'
<1>1. DownTyped'
  BY DownTypedStep DEF DownInv
<1>2. ASSUME NEW m \in Responses, Down!Send(m) PROVE DownOnItsWay' /\ DownReceived'
  BY <1>2, DownSendKeeps
<1>3. CASE Down!Copy
  BY <1>1, <1>3, DownCopyKeeps DEF DownInv
<1>4. CASE Down!Arrive
  BY <1>1, <1>4 DEF Down!Arrive, DownInv, DownOnItsWay, DownReceived, LastGiven
<1>5. CASE Down!HangUp
  <2>1. Len(dnWire) \in Nat /\ Len(dnUnsent) \in Nat /\ ResponseSize * Len(dnGiven) \in Nat
    BY DownGiven DEF DownInv, DownTyped
  <2>2. Len(dnUnsent') = 0 /\ dnHungUp'
        /\ UNCHANGED <<dnGiven, dnWire, dnArrived, dnTaken, dnMessage, dnGot, dnEnded>>
    BY <1>5 DEF Down!HangUp
  <2>3. Len(dnWire) <= ResponseSize * Len(dnGiven)
    BY <2>1 DEF DownInv, DownOnItsWay
  <2>4. DownOnItsWay'
    BY <2>1, <2>2, <2>3 DEF DownInv, DownOnItsWay
  <2> QED
    BY <1>1, <2>2, <2>4 DEF DownInv, DownReceived
<1>6. CASE Down!Recv
  BY <1>1, <1>6, DownRecvKeeps DEF DownInv
<1>7. CASE Down!RecvEnd
  BY <1>1, <1>7 DEF Down!RecvEnd, DownInv, DownOnItsWay, DownReceived, LastGiven
<1> QED
  BY <1>1, <1>2, <1>3, <1>4, <1>5, <1>6, <1>7 DEF Down!Next, Responses, DownInv

LEMMA DownStarts ==
  ASSUME ResponseSize \in Nat \ {0}
  PROVE  Down!Init => DownInv
<1> SUFFICES ASSUME Down!Init PROVE DownInv
  OBVIOUS
<1>1. DownTyped
  BY DownInitTyped
<1>2. /\ Len(dnGiven) = 0 /\ Len(dnWire) = 0 /\ Len(dnUnsent) = 0 /\ Len(dnGot) = 0
      /\ dnArrived = 0 /\ dnTaken = 0 /\ dnMessage = <<>> /\ ResponseSize * 0 = 0
  BY DEF Down!Init
<1>3. DownOnItsWay
  BY <1>2 DEF DownOnItsWay
<1>4. DownReceived
  BY <1>2 DEF DownReceived
<1> QED
  BY <1>1, <1>3, <1>4 DEF DownInv

LEMMA DownWholeFrames ==
  ASSUME ResponseSize \in Nat \ {0}, DownInv
  PROVE  Down!FramesWhole
<1>1. Len(dnMessage) > ResponseSize => Len(dnGiven) > Len(dnGot) + 1
  <2> SUFFICES ASSUME Len(dnMessage) > ResponseSize
               PROVE  Len(dnGot) + 1 < Len(dnGiven)
    BY DownGiven DEF DownInv, DownTyped
  <2> DEFINE g == Len(dnGot)
             l == Len(dnGiven)
             h == Len(dnMessage)
  <2>1. g \in Nat /\ l \in Nat /\ h \in Nat /\ ResponseSize * g \in Nat /\ ResponseSize * l \in Nat
    BY DownGiven DEF DownInv, DownTyped
  <2>2. ~ dnEnded
    BY DEF DownInv, DownReceived
  <2>3. ResponseSize * g + h <= ResponseSize * l
    <3>1. dnTaken = ResponseSize * g + h /\ dnTaken <= Len(dnWire)
      BY <2>2 DEF DownInv, DownTyped, DownReceived
    <3>2. Len(dnWire) \in Nat /\ Len(dnUnsent) \in Nat
          /\ Len(dnWire) + Len(dnUnsent) <= ResponseSize * l
      BY DEF DownInv, DownTyped, DownOnItsWay
    <3> QED
      BY <2>1, <3>1, <3>2
  <2>4. ResponseSize * (g + 1) = ResponseSize * g + ResponseSize
    BY <2>1, TimesNext
  <2>5. ResponseSize * (g + 1) < ResponseSize * l
    BY <2>1, <2>3, <2>4
  <2> QED
    BY <2>1, <2>5, TimesLess
<1>2. Len(dnGot) <= Len(dnGiven) /\ \A i \in 1 .. Len(dnGot) : dnGot[i] = dnGiven[i]
  BY DEF DownInv, DownReceived
<1> QED
  BY <1>1, <1>2, DownFramesFromPrefix DEF DownInv

----------------------------------------------------------------------------
(* The messages of the exchange. *)

LEMMA UintFacts ==
  /\ Uint \subseteq Nat /\ Ulong \subseteq Nat
  /\ \A v \in Uint : Fits(v, 4)
  /\ \A v \in Ulong : Fits(v, 8)
  /\ \A x \in Uint, y \in Uint : x * y \in Ulong
<1>1. Uint \subseteq Nat /\ Ulong \subseteq Nat
  BY UintTypes DEF Uint, Ulong
<1>2. \A v \in Uint : Fits(v, 4)
  BY FourDigits DEF Uint
<1>3. \A v \in Ulong : Fits(v, 8)
  BY EightDigits DEF Ulong
<1>4. ASSUME NEW x \in Uint, NEW y \in Uint
      PROVE  x * y \in Ulong
  <2>1. PICK u \in Nat \ {0} : u = Uint32
    BY UintTypes
  <2>2. x \in Nat /\ y \in Nat /\ x < u /\ y < u
    BY <1>1, <2>1 DEF Uint
  <2>3. x * y \in Nat /\ x * y < u * u
    <3>1. \A a \in Nat, b \in Nat, c \in Nat : a <= b => a * c <= b * c /\ c * a <= c * b
      OBVIOUS
    <3>2. x * y <= (u - 1) * y /\ (u - 1) * y <= (u - 1) * u
      BY <2>2, <3>1
    <3>3. (u - 1) * u = u * u - u /\ u * u \in Nat /\ x * y \in Nat /\ (u - 1) * y \in Nat
      BY <2>2
    <3> QED
      BY <3>2, <3>3
  <2>4. Uint64 = u * u /\ u * u \in Nat
    BY <2>1 DEF Uint64
  <2> QED
    BY <2>3, <2>4 DEF Ulong
<1> QED
  BY <1>1, <1>2, <1>3, <1>4

\* What is read is what was written.
Reads(r, layout, values) ==
  /\ DOMAIN r = {layout[i].name : i \in 1 .. Len(layout)}
  /\ \A name \in DOMAIN r : r[name] = values[name]

\* A message with a text behind its fields is read as it was written, for every
\* layout with different names whose widths hold the values (serialize and
\* deserialize of lodi.c, pke.c and tfa.c, appendUint and getUint).
THEOREM LayoutRoundTrip ==
  ASSUME NEW layout, IsLayout(layout), Named(layout), NEW values, AllFit(layout, values),
         NEW text \in Seq(Digits)
  PROVE  Reads(Deserialize(layout, Serialize(layout, values) \o text), layout, values)
<1> DEFINE r == Deserialize(layout, Serialize(layout, values) \o text)
           s == Serialize(layout, values)
           bytes == s \o text
<1>1. Numbers(layout, values)
  BY DEF AllFit, Fits, Numbers
<1>2. Written(layout, values, s, Len(layout)) /\ s \in Seq(Digits)
  BY <1>1, SerializeWrites DEF Written
<1>3. Joined(bytes, s, text)
  <2> HIDE DEF s
  <2> QED
    BY <1>2, JoinFacts
<1>4. Carries(layout, values, bytes)
  <2> HIDE DEF s, bytes
  <2> QED
    BY <1>2, <1>3 DEF Carries, Written, Joined
<1>5. DOMAIN layout = 1 .. Len(layout)
  BY DEF IsLayout
<1>6. r = Deserialize(layout, bytes)
  OBVIOUS
<1> HIDE DEF bytes, r
<1>7. DOMAIN r = {layout[i].name : i \in 1 .. Len(layout)}
  BY <1>5, <1>6 DEF Deserialize
<1>8. \A i \in 1 .. Len(layout) : r[layout[i].name] = values[layout[i].name]
  BY <1>4, <1>6, MessageRoundTrip
<1>9. Reads(r, layout, values)
  BY <1>7, <1>8 DEF Reads
<1> QED
  BY <1>9 DEF r

LEMMA MessageLayouts ==
  /\ IsLayout(serializeClientLodi) /\ Named(serializeClientLodi)
  /\ IsLayout(serializeServerLoginLodi)
  /\ IsLayout(serializeClientPK) /\ Named(serializeClientPK)
  /\ IsLayout(serializeClientTFA) /\ Named(serializeClientTFA)
<1>1. Len(serializeClientLodi) = 5 /\ DOMAIN serializeClientLodi = 1 .. 5
  BY DEF serializeClientLodi
<1>2. Len(serializeServerLoginLodi) = 3 /\ DOMAIN serializeServerLoginLodi = 1 .. 3
  BY DEF serializeServerLoginLodi
<1>3. Len(serializeClientPK) = 3 /\ DOMAIN serializeClientPK = 1 .. 3
  BY DEF serializeClientPK
<1>4. Len(serializeClientTFA) = 4 /\ DOMAIN serializeClientTFA = 1 .. 4
  BY DEF serializeClientTFA
<1>5. IsLayout(serializeClientLodi) /\ Named(serializeClientLodi)
  <2>1. \A i \in 1 .. 5 : i = 1 \/ i = 2 \/ i = 3 \/ i = 4 \/ i = 5
    OBVIOUS
  <2> QED
    BY <1>1, <2>1 DEF IsLayout, Named, serializeClientLodi, F
<1>6. IsLayout(serializeServerLoginLodi)
  BY <1>2 DEF IsLayout, serializeServerLoginLodi, F
<1>7. IsLayout(serializeClientPK) /\ Named(serializeClientPK)
  BY <1>3 DEF IsLayout, Named, serializeClientPK, F
<1>8. IsLayout(serializeClientTFA) /\ Named(serializeClientTFA)
  BY <1>4 DEF IsLayout, Named, serializeClientTFA, F
<1> QED
  BY <1>5, <1>6, <1>7, <1>8

LEMMA ClientLodiRoundTrip ==
  ASSUME NEW v, v.messageType \in Uint, v.userID \in Uint, v.recipientID \in Uint,
         v.timestamp \in Ulong, v.digitalSig \in Ulong, NEW text \in Seq(Digits), NEW r,
         r = Deserialize(deserializeClientLodi, Serialize(serializeClientLodi, v) \o text)
  PROVE  /\ DOMAIN r = {"messageType", "userID", "recipientID", "timestamp", "digitalSig"}
         /\ \A name \in DOMAIN r : r[name] = v[name]
<1>1. AllFit(serializeClientLodi, v)
  <2>1. /\ Fits(v.messageType, 4) /\ Fits(v.userID, 4) /\ Fits(v.recipientID, 4)
        /\ Fits(v.timestamp, 8) /\ Fits(v.digitalSig, 8)
    BY UintFacts
  <2>2. ASSUME NEW i \in 1 .. 5
        PROVE  Fits(v[serializeClientLodi[i].name], serializeClientLodi[i].width)
    <3>1. CASE i = 1
      BY <2>1, <3>1 DEF serializeClientLodi, F
    <3>2. CASE i = 2
      BY <2>1, <3>2 DEF serializeClientLodi, F
    <3>3. CASE i = 3
      BY <2>1, <3>3 DEF serializeClientLodi, F
    <3>4. CASE i = 4
      BY <2>1, <3>4 DEF serializeClientLodi, F
    <3>5. CASE i = 5
      BY <2>1, <3>5 DEF serializeClientLodi, F
    <3> QED
      BY <3>1, <3>2, <3>3, <3>4, <3>5
  <2>3. Len(serializeClientLodi) = 5
    BY DEF serializeClientLodi
  <2> QED
    BY <2>2, <2>3 DEF AllFit
<1>2. deserializeClientLodi = serializeClientLodi
  BY DEF deserializeClientLodi, serializeClientLodi
<1>3. Reads(Deserialize(serializeClientLodi, Serialize(serializeClientLodi, v) \o text), serializeClientLodi, v)
  BY <1>1, LayoutRoundTrip, MessageLayouts
<1>4. {serializeClientLodi[i].name : i \in 1 .. Len(serializeClientLodi)} =
        {"messageType", "userID", "recipientID", "timestamp", "digitalSig"}
  BY DEF serializeClientLodi, F
<1> QED
  BY <1>2, <1>3, <1>4 DEF Reads

\* A message without a text.
LEMMA DatagramRoundTrip ==
  ASSUME NEW layout, IsLayout(layout), Named(layout), NEW values, AllFit(layout, values)
  PROVE  Reads(Deserialize(layout, Serialize(layout, values)), layout, values)
<1>1. Numbers(layout, values)
  BY DEF AllFit, Fits, Numbers
<1>2. PICK s \in Seq(Digits) : s = Serialize(layout, values)
  BY <1>1, SerializeType
<1>3. PICK text \in Seq(Digits) : s = s \o text
  <2>1. <<>> \in Seq(Digits) /\ s = s \o <<>>
    OBVIOUS
  <2> QED
    BY <2>1
<1>4. Reads(Deserialize(layout, Serialize(layout, values) \o text), layout, values)
  BY LayoutRoundTrip
<1> QED
  BY <1>2, <1>3, <1>4

LEMMA ClientTFARoundTrip ==
  ASSUME NEW v, v.messageType \in Uint, v.userID \in Uint, v.timestamp \in Ulong,
         v.digitalSig \in Ulong, NEW r,
         r = Deserialize(deserializeClientTFA, Serialize(serializeClientTFA, v))
  PROVE  /\ DOMAIN r = {"messageType", "userID", "timestamp", "digitalSig"}
         /\ \A name \in DOMAIN r : r[name] = v[name]
<1>1. AllFit(serializeClientTFA, v)
  <2>1. /\ Fits(v.messageType, 4) /\ Fits(v.userID, 4) /\ Fits(v.timestamp, 8)
        /\ Fits(v.digitalSig, 8)
    BY UintFacts
  <2>2. ASSUME NEW i \in 1 .. 4
        PROVE  Fits(v[serializeClientTFA[i].name], serializeClientTFA[i].width)
    <3>1. CASE i = 1
      BY <2>1, <3>1 DEF serializeClientTFA, F
    <3>2. CASE i = 2
      BY <2>1, <3>2 DEF serializeClientTFA, F
    <3>3. CASE i = 3
      BY <2>1, <3>3 DEF serializeClientTFA, F
    <3>4. CASE i = 4
      BY <2>1, <3>4 DEF serializeClientTFA, F
    <3> QED
      BY <3>1, <3>2, <3>3, <3>4
  <2>3. Len(serializeClientTFA) = 4
    BY DEF serializeClientTFA
  <2> QED
    BY <2>2, <2>3 DEF AllFit
<1>2. deserializeClientTFA = serializeClientTFA
  BY DEF deserializeClientTFA, serializeClientTFA
<1>3. Reads(Deserialize(serializeClientTFA, Serialize(serializeClientTFA, v)), serializeClientTFA, v)
  BY <1>1, DatagramRoundTrip, MessageLayouts
<1>4. {serializeClientTFA[i].name : i \in 1 .. Len(serializeClientTFA)} =
        {"messageType", "userID", "timestamp", "digitalSig"}
  BY DEF serializeClientTFA, F
<1> QED
  BY <1>2, <1>3, <1>4 DEF Reads

LEMMA KeyRoundTrip ==
  ASSUME NEW v, v.messageType \in Uint, v.userID \in Uint, v.publicKey \in Uint, NEW r,
         r = Deserialize(deserializeClientPK, Serialize(serializeClientPK, v))
  PROVE  /\ DOMAIN r = {"messageType", "userID", "publicKey"}
         /\ \A name \in DOMAIN r : r[name] = v[name]
<1>1. AllFit(serializeClientPK, v)
  <2>1. Fits(v.messageType, 4) /\ Fits(v.userID, 4) /\ Fits(v.publicKey, 4)
    BY UintFacts
  <2>2. ASSUME NEW i \in 1 .. 3
        PROVE  Fits(v[serializeClientPK[i].name], serializeClientPK[i].width)
    <3>1. CASE i = 1
      BY <2>1, <3>1 DEF serializeClientPK, F
    <3>2. CASE i = 2
      BY <2>1, <3>2 DEF serializeClientPK, F
    <3>3. CASE i = 3
      BY <2>1, <3>3 DEF serializeClientPK, F
    <3> QED
      BY <3>1, <3>2, <3>3
  <2>3. Len(serializeClientPK) = 3
    BY DEF serializeClientPK
  <2> QED
    BY <2>2, <2>3 DEF AllFit
<1>2. deserializeClientPK = serializeClientPK
  BY DEF deserializeClientPK, serializeClientPK
<1>3. Reads(Deserialize(serializeClientPK, Serialize(serializeClientPK, v)), serializeClientPK, v)
  BY <1>1, DatagramRoundTrip, MessageLayouts
<1>4. {serializeClientPK[i].name : i \in 1 .. Len(serializeClientPK)} =
        {"messageType", "userID", "publicKey"}
  BY DEF serializeClientPK, F
<1> QED
  BY <1>2, <1>3, <1>4 DEF Reads

----------------------------------------------------------------------------
(* The exchange. *)

JobRight == job \in Jobs /\ keys = generateKeys(job.p, job.q)

LEMMA JobFacts ==
  ASSUME NEW j \in Jobs
  PROVE  /\ j.p \in Uint /\ j.q \in Uint /\ j.timestamp \in Ulong
         /\ j.userID \in Uint /\ j.messageType \in Uint /\ j.to \in {"lodi", "tfa"}
         /\ Prime(j.p) /\ Prime(j.q) /\ j.p # j.q /\ j.timestamp < j.p * j.q
         /\ generateKeys(j.p, j.q).public \in Uint
  BY JobsAssumption DEF Job

LEMMA SignedFacts ==
  ASSUME JobRight
  PROVE  /\ keys.private \in Nat /\ keys.public \in Uint /\ MODULUS = job.p * job.q
         /\ MODULUS \in Nat \ {0, 1}
         /\ Congruent(keys.private * keys.public, 1, (job.p - 1) * (job.q - 1))
         /\ Signed.digitalSig = Power(job.timestamp, keys.private) % MODULUS
         /\ Signed.digitalSig \in Ulong
<1>1. /\ job.p \in Uint /\ job.q \in Uint /\ job.timestamp \in Ulong
      /\ Prime(job.p) /\ Prime(job.q) /\ job.p # job.q
      /\ generateKeys(job.p, job.q).public \in Uint
  BY JobFacts DEF JobRight
<1>2. job.p \in Nat /\ job.q \in Nat /\ job.p > 1 /\ job.q > 1 /\ job.timestamp \in Nat
  BY <1>1, UintFacts DEF Prime
<1>3. PICK p \in Nat, q \in Nat : p = job.p /\ q = job.q
  BY <1>2
<1>4. PICK m \in Nat \ {0, 1}, n \in Nat \ {0, 1} : m = (p - 1) * (q - 1) /\ n = p * q
  BY <1>1, <1>2, <1>3, PhiFacts
<1>5. /\ keys.private \in Nat /\ keys.public \in Nat \ {0} /\ keys.modulus = (p * q) % Word
      /\ Congruent(keys.private * keys.public, 1, m)
  BY <1>3, <1>4, KeyPair DEF JobRight
<1>6. n \in Ulong /\ n < Word /\ Word \in Nat \ {0}
  <2>1. n \in Ulong
    BY <1>1, <1>3, <1>4, UintFacts
  <2> QED
    BY <2>1, WidthAssumption, UintTypes DEF Ulong
<1>7. MODULUS = n
  <2>1. n % Word = n
    <3>1. PICK w \in Nat \ {0} : w = Word /\ n \in 0 .. w - 1
      BY <1>6
    <3>2. n = w * 0 + n
      OBVIOUS
    <3>3. n % w = n
      BY <3>1, <3>2, Quotient
    <3> QED
      BY <3>1, <3>3
  <2> QED
    BY <1>4, <1>5, <2>1 DEF MODULUS
<1>8. Signed.digitalSig = Power(job.timestamp, keys.private) % n
  BY <1>2, <1>5, <1>7, ModPowIsPower DEF Signed, encryptTimestamp
<1>9. Signed.digitalSig \in Ulong
  <2>1. Power(job.timestamp, keys.private) \in Nat
    BY <1>2, <1>5, PowerType
  <2>2. Signed.digitalSig \in Nat /\ Signed.digitalSig < n
    BY <1>8, <2>1, DivisionType
  <2> QED
    BY <1>6, <2>2, UintTypes DEF Ulong
<1> QED
  BY <1>1, <1>3, <1>4, <1>5, <1>7, <1>8, <1>9 DEF JobRight

SignedBytes == Serialize(serializeClientLodi, Signed) \o Blank

LEMMA SignedFields ==
  ASSUME JobRight
  PROVE  /\ Signed.messageType \in Uint /\ Signed.userID \in Uint /\ Signed.recipientID \in Uint
         /\ Signed.timestamp \in Ulong /\ Signed.digitalSig \in Ulong
<1>1. Signed.digitalSig \in Ulong
  BY SignedFacts
<1>2. 0 \in Uint
  BY UintTypes DEF Uint
<1> QED
  BY <1>1, <1>2, JobFacts DEF JobRight, Signed

LEMMA BlankText == Blank \in Seq(Digits) /\ Len(Blank) = MessageLength
<1>1. 0 \in Digits /\ MessageLength \in Nat
  BY RadixType, WireAssumption
<1> HIDE DEF Digits
<1> QED
  BY <1>1 DEF Blank

LEMMA Sizes ==
  /\ RequestSize \in Nat \ {0} /\ ResponseSize \in Nat \ {0}
  /\ RequestSize = Fixed(serializeClientLodi) + MessageLength
  /\ ResponseSize = Fixed(serializeServerLoginLodi) + MessageLength
<1>1. ASSUME NEW layout, IsLayout(layout), layout[1].width = 4
      PROVE  Fixed(layout) \in Nat \ {0}
  <2>1. PICK n \in Nat \ {0} : n = Len(layout)
    BY <1>1 DEF IsLayout
  <2>2. \A i \in 1 .. n + 1 : Offset(layout, i) \in Nat
    BY <1>1, <2>1, OffsetFacts
  <2>3. \A i \in 1 .. n : Offset(layout, i + 1) = Offset(layout, i) + layout[i].width
    BY <1>1, <2>1, OffsetFacts
  <2>4. \A i \in 1 .. n : layout[i].width \in Nat
    BY <1>1, <2>1 DEF IsLayout
  <2> DEFINE S == {i \in Nat : i \in 1 .. n => Offset(layout, i + 1) >= 4}
  <2>5. 0 \in S
    OBVIOUS
  <2>6. ASSUME NEW i \in Nat, i \in S
        PROVE  i + 1 \in S
    <3> SUFFICES ASSUME i + 1 \in 1 .. n PROVE Offset(layout, (i + 1) + 1) >= 4
      OBVIOUS
    <3>1. PICK w \in Nat : w = layout[i + 1].width
      BY <2>4
    <3>2. PICK x \in Nat : x = Offset(layout, i + 1)
      BY <2>2
    <3>3. Offset(layout, (i + 1) + 1) = x + w
      BY <2>3, <3>1, <3>2
    <3>4. CASE i = 0
      <4>1. w = 4
        BY <1>1, <3>1, <3>4
      <4> QED
        BY <3>3, <4>1
    <3>5. CASE i # 0
      <4>1. x >= 4
        BY <2>6, <3>2, <3>5
      <4> QED
        BY <3>3, <4>1
    <3> QED
      BY <3>4, <3>5
  <2>7. n \in S
    <3> HIDE DEF S
    <3> QED
      BY <2>5, <2>6, NaturalInduction
  <2>8. Offset(layout, n + 1) >= 4 /\ Offset(layout, n + 1) \in Nat
    BY <2>2, <2>7
  <2> QED
    BY <2>1, <2>8 DEF Fixed
<1>2. Fixed(serializeClientLodi) \in Nat \ {0}
  <2>1. serializeClientLodi[1].width = 4
    BY DEF serializeClientLodi, F
  <2> QED
    BY <1>1, <2>1, MessageLayouts
<1>3. Fixed(serializeServerLoginLodi) \in Nat \ {0}
  <2>1. serializeServerLoginLodi[1].width = 4
    BY DEF serializeServerLoginLodi, F
  <2> QED
    BY <1>1, <2>1, MessageLayouts
<1> QED
  BY <1>2, <1>3, WireAssumption DEF RequestSize, ResponseSize

\* Fields and a text are a message of the right size.
LEMMA MessageSize ==
  ASSUME NEW layout, IsLayout(layout), NEW values, Numbers(layout, values),
         NEW text \in Seq(Digits), NEW n \in Nat, n = Fixed(layout) + Len(text)
  PROVE  Serialize(layout, values) \o text \in [1 .. n -> Digits]
<1>1. PICK s \in Seq(Digits) : s = Serialize(layout, values) /\ Len(s) = Fixed(layout)
  BY SerializeType
<1> HIDE DEF Digits
<1>2. s \o text \in Seq(Digits) /\ Len(s \o text) = n
  BY <1>1, ConcatFacts
<1>3. \A r \in Seq(Digits) : r \in [1 .. Len(r) -> Digits]
  OBVIOUS
<1> QED
  BY <1>1, <1>2, <1>3

LEMMA SignedBytesSize == ASSUME JobRight PROVE SignedBytes \in Requests
<1>1. Numbers(serializeClientLodi, Signed)
  <2>1. \A i \in 1 .. 5 : i = 1 \/ i = 2 \/ i = 3 \/ i = 4 \/ i = 5
    OBVIOUS
  <2>2. Len(serializeClientLodi) = 5
    BY DEF serializeClientLodi
  <2>3. /\ Signed.messageType \in Nat /\ Signed.userID \in Nat /\ Signed.recipientID \in Nat
        /\ Signed.timestamp \in Nat /\ Signed.digitalSig \in Nat
    BY SignedFields, UintFacts
  <2> QED
    BY <2>1, <2>2, <2>3 DEF Numbers, serializeClientLodi, F
<1> QED
  BY <1>1, BlankText, MessageLayouts, MessageSize, Sizes DEF Requests, SignedBytes

LEMMA ResponseSized ==
  ASSUME request.userID \in Nat, NEW k \in Nat
  PROVE  Response(k) \in Responses
<1> DEFINE v == [messageType |-> 2, userID |-> request.userID, recipientID |-> k]
           text == [i \in 1 .. MessageLength |-> k % Radix]
<1>1. Numbers(serializeServerLoginLodi, v)
  <2>1. \A i \in 1 .. 3 : i = 1 \/ i = 2 \/ i = 3
    OBVIOUS
  <2>2. Len(serializeServerLoginLodi) = 3
    BY DEF serializeServerLoginLodi
  <2> QED
    BY <2>1, <2>2 DEF Numbers, serializeServerLoginLodi, F
<1>2. k % Radix \in Digits /\ MessageLength \in Nat
  BY Shift, WireAssumption
<1>3. text \in Seq(Digits) /\ Len(text) = MessageLength
  <2> HIDE DEF Digits
  <2> QED
    BY <1>2
<1>4. Response(k) = Serialize(serializeServerLoginLodi, v) \o text
  BY DEF Response
<1> HIDE DEF v, text
<1> QED
  BY <1>1, <1>3, <1>4, MessageLayouts, MessageSize, Sizes DEF Responses
----------------------------------------------------------------------------
(* The invariant of the exchange.  The stream to the server carries the    *)
(* signed request or nothing, so that what the server deserialises has the *)
(* fields that were signed; the answers it sends are therefore of the size *)
(* the client waits for.                                                   *)

SameFields ==
  /\ "userID" \in DOMAIN request
  /\ \A name \in DOMAIN request : request[name] = Signed[name]

RequestInv ==
  /\ JobRight /\ UpInv
  /\ upGiven # <<>> => upGiven[1] = SignedBytes
  /\ verdict # "none" => SameFields

ExchangeInv == RequestInv /\ DownInv

LEMMA ExchangeStarts == Init => RequestInv /\ DownInv
<1> SUFFICES ASSUME Init PROVE RequestInv /\ DownInv
  OBVIOUS
<1>1. UpInv /\ upGiven = <<>>
  BY UpStarts DEF Init, Up!Init
<1>2. DownInv
  BY DownStarts, Sizes DEF Init
<1> QED
  BY <1>1, <1>2 DEF Init, RequestInv, JobRight

\* What the jobs decide is decided once.
LEMMA JobStays ==
  ASSUME JobRight, UNCHANGED <<job, keys>>
  PROVE  JobRight' /\ Signed' = Signed /\ SignedBytes' = SignedBytes
<1>1. Signed' = Signed
  BY DEF Signed, MODULUS
<1> QED
  BY <1>1 DEF JobRight, SignedBytes, Blank

LEMMA AnsweredId ==
  ASSUME JobRight, SameFields
  PROVE  request.userID \in Nat
  BY SignedFields, UintFacts DEF SameFields

\* Both formats have what authenticate looks at.
LEMMA RequestDomain ==
  ASSUME serveRequest \/ handleRegisterTfa
  PROVE  "timestamp" \in DOMAIN request' /\ "digitalSig" \in DOMAIN request'
<1>1. /\ {deserializeClientLodi[i].name : i \in DOMAIN deserializeClientLodi}
           = {"messageType", "userID", "recipientID", "timestamp", "digitalSig"}
      /\ {deserializeClientTFA[i].name : i \in DOMAIN deserializeClientTFA}
           = {"messageType", "userID", "timestamp", "digitalSig"}
  BY DEF deserializeClientLodi, deserializeClientTFA, F
<1>2. CASE serveRequest
  BY <1>1, <1>2 DEF serveRequest, Deserialize
<1>3. CASE handleRegisterTfa
  BY <1>1, <1>3 DEF handleRegisterTfa, Deserialize
<1> QED
  BY <1>2, <1>3

\* The server reads what the client signed, in a stream or a datagram.
LEMMA RequestRead ==
  ASSUME RequestInv, serveRequest \/ handleRegisterTfa
  PROVE  SameFields'
<1> USE DEF RequestInv
<1>1. Signed' = Signed
  BY JobStays DEF serveRequest, handleRegisterTfa
<1>2. /\ Signed.messageType \in Uint /\ Signed.userID \in Uint /\ Signed.recipientID \in Uint
      /\ Signed.timestamp \in Ulong /\ Signed.digitalSig \in Ulong
  BY SignedFields
<1>3. CASE serveRequest
  <2>1. Head(upGot) = SignedBytes
    <3>1. upGot # <<>> /\ upGot \in Seq(Seq(Digits))
      BY <1>3 DEF serveRequest, UpInv, UpTyped
    <3>2. upGiven # <<>> /\ upGot = <<upGiven[1]>>
      BY <3>1 DEF UpInv, UpPartly, UpWhole
    <3> QED
      BY <3>2
  <2>2. request' = Deserialize(deserializeClientLodi, Serialize(serializeClientLodi, Signed) \o Blank)
    BY <1>3, <2>1 DEF serveRequest, SignedBytes
  <2>3. PICK v : v = Signed
    OBVIOUS
  <2>4. /\ DOMAIN request' = {"messageType", "userID", "recipientID", "timestamp", "digitalSig"}
        /\ \A name \in DOMAIN request' : request'[name] = v[name]
    BY <1>2, <2>2, <2>3, BlankText, ClientLodiRoundTrip
  <2> QED
    BY <1>1, <2>3, <2>4 DEF SameFields
<1>4. CASE handleRegisterTfa
  <2>1. request' = Deserialize(deserializeClientTFA, Serialize(serializeClientTFA, Signed))
    BY <1>4 DEF handleRegisterTfa
  <2>2. PICK v : v = Signed
    OBVIOUS
  <2>3. /\ DOMAIN request' = {"messageType", "userID", "timestamp", "digitalSig"}
        /\ \A name \in DOMAIN request' : request'[name] = v[name]
    BY <1>2, <2>1, <2>2, ClientTFARoundTrip
  <2> QED
    BY <1>1, <2>2, <2>3 DEF SameFields
<1> QED
  BY <1>3, <1>4

LEMMA UpStays ==
  ASSUME UpInv, UNCHANGED up
  PROVE  UpInv'
  BY DEF up, UpInv, UpTyped, UpOnItsWay, UpPartly, UpWhole

LEMMA DownStays ==
  ASSUME DownInv, UNCHANGED down
  PROVE  DownInv'
  BY DEF down, DownInv, DownTyped, DownOnItsWay, DownReceived, LastGiven

LEMMA GivenStays ==
  ASSUME upGiven # <<>> => upGiven[1] = SignedBytes, SignedBytes' = SignedBytes, upGiven' = upGiven
  PROVE  (upGiven # <<>> => upGiven[1] = SignedBytes)'
  OBVIOUS

LEMMA FieldsStay ==
  ASSUME verdict # "none" => SameFields, Signed' = Signed, UNCHANGED <<verdict, request>>
  PROVE  (verdict # "none" => SameFields)'
  BY DEF SameFields

LEMMA RequestNext ==
  ASSUME RequestInv, [Next]_vars
  PROVE  RequestInv'
<1> USE DEF RequestInv
<1>1. JobRight' /\ Signed' = Signed /\ SignedBytes' = SignedBytes
  <2>1. UNCHANGED <<job, keys>>
    BY DEF Next, vars, local, lodiClientSend, serveRequest, handleRegisterTfa,
           streamServerSend, Upstream, Downstream, clientDies
  <2> QED
    BY <2>1, JobStays
<1>2. RequestSize \in Nat \ {0} /\ RequestRoom \in Nat
  BY Sizes, ChannelAssumption
<1>3. CASE lodiClientSend
  <2>1. Up!Send(SignedBytes) /\ UNCHANGED local
    BY <1>3 DEF lodiClientSend, SignedBytes
  <2>2. Up!Next
    BY <2>1, SignedBytesSize DEF Up!Next, Requests
  <2>3. UpInv'
    BY <1>2, <2>2, UpNextKeeps
  <2>4. upGiven' = <<SignedBytes>>
    BY <1>3, <2>1 DEF lodiClientSend, Up!Send
  <2>5. upGiven'[1] = SignedBytes'
    BY <1>1, <2>4
  <2> QED
    BY <1>1, <2>1, <2>3, <2>5, FieldsStay DEF local
<1>4. CASE serveRequest \/ handleRegisterTfa
  <2>1. UNCHANGED up
    BY <1>4 DEF serveRequest, handleRegisterTfa
  <2>2. SameFields'
    BY <1>4, RequestRead
  <2>3. upGiven' = upGiven
    BY <2>1 DEF up
  <2> QED
    BY <1>1, <2>1, <2>2, <2>3, UpStays
<1>5. CASE Upstream \/ clientDies
  <2>1. Up!Copy \/ Up!Arrive \/ Up!RecvEnd \/ Up!Recv \/ Up!HangUp
    BY <1>5 DEF Upstream, clientDies
  <2>2. UNCHANGED local
    BY <1>5 DEF Upstream, clientDies
  <2>3. UpInv'
    BY <1>2, <2>1, UpNextKeeps DEF Up!Next
  <2>4. upGiven' = upGiven
    BY <2>1 DEF Up!Copy, Up!Arrive, Up!RecvEnd, Up!Recv, Up!HangUp
  <2> QED
    BY <1>1, <2>2, <2>3, <2>4, FieldsStay DEF local
<1>6. CASE streamServerSend \/ Downstream \/ UNCHANGED vars
  <2>1. UNCHANGED <<local, up>>
    BY <1>6 DEF streamServerSend, Downstream, vars
  <2>2. upGiven' = upGiven
    BY <2>1 DEF up
  <2> QED
    BY <1>1, <2>1, <2>2, UpStays, FieldsStay DEF local
<1> QED
  BY <1>3, <1>4, <1>5, <1>6 DEF Next

LEMMA AnswerNext ==
  ASSUME ExchangeInv, [Next]_vars
  PROVE  DownInv'
<1> USE DEF ExchangeInv
<1>1. ResponseSize \in Nat \ {0} /\ ResponseRoom \in Nat
  BY Sizes, ChannelAssumption
<1>2. CASE streamServerSend
  <2>1. Down!Send(Response(Len(dnGiven) + 1)) /\ verdict # "none"
    BY <1>2 DEF streamServerSend
  <2>2. Len(dnGiven) + 1 \in Nat
    BY DEF DownInv, DownTyped
  <2>3. Response(Len(dnGiven) + 1) \in Responses
    BY <2>1, <2>2, AnsweredId, ResponseSized DEF RequestInv
  <2>4. Down!Next
    BY <2>1, <2>3 DEF Down!Next, Responses
  <2> QED
    BY <1>1, <2>4, DownNextKeeps
<1>3. CASE Downstream
  <2>1. Down!Copy \/ Down!Arrive \/ Down!Recv
    BY <1>3 DEF Downstream
  <2> QED
    BY <1>1, <2>1, DownNextKeeps DEF Down!Next
<1>4. CASE \/ lodiClientSend \/ serveRequest \/ handleRegisterTfa \/ Upstream \/ clientDies
           \/ UNCHANGED vars
  <2>1. UNCHANGED down
    BY <1>4 DEF lodiClientSend, serveRequest, handleRegisterTfa, Upstream, clientDies, vars
  <2> QED
    BY <2>1, DownStays
<1> QED
  BY <1>2, <1>3, <1>4 DEF Next

\* The half of StreamsWhole that is about requests, for every size of a
\* message and of the buffers and every way to cut the stream: the server gets
\* the request as it was sent, in a buffer that holds it (receiveTcpMessage).
THEOREM RequestsStayWhole == Spec => [](Up!FramesWhole /\ ~ Up!Overrun)
<1>1. Init => RequestInv
  BY ExchangeStarts
<1>2. RequestInv /\ [Next]_vars => RequestInv'
  BY RequestNext
<1>3. RequestInv => Up!FramesWhole /\ ~ Up!Overrun
  BY Sizes, UpWholeFrames DEF RequestInv
<1> QED
  BY <1>1, <1>2, <1>3, PTL DEF Spec

\* StreamsWhole, for every size of a message and of the buffers, every number
\* of messages and every way to cut the streams: what the client gets of an
\* answer is its messages in order and unmixed, and only a further message
\* sent too early makes it overrun its buffer (receiveTcpMessage).
THEOREM StreamsStayWhole == Spec => []StreamsWhole
<1>1. Init => ExchangeInv
  BY ExchangeStarts DEF ExchangeInv
<1>2. ExchangeInv /\ [Next]_vars => ExchangeInv'
  BY RequestNext, AnswerNext DEF ExchangeInv
<1>3. ExchangeInv => StreamsWhole
  BY Sizes, UpWholeFrames, DownWholeFrames DEF ExchangeInv, RequestInv, StreamsWhole
<1> QED
  BY <1>1, <1>2, <1>3, PTL DEF Spec

----------------------------------------------------------------------------
(* The verdict.  The public key crosses the network twice, cut to 32 bits, *)
(* and undoes what the private key did to the timestamp.                   *)

LEMMA ServerPKIsClientPK ==
  serializeServerPK = serializeClientPK /\ deserializeServerPK = deserializeClientPK
  BY DEF serializeServerPK, serializeClientPK, deserializeServerPK, deserializeClientPK

LEMMA KeyIsRegistered ==
  ASSUME JobRight
  PROVE  getPublicKey = keys.public
<1>1. keys.public \in Uint /\ job.userID \in Uint /\ 0 \in Uint /\ 1 \in Uint
  <2>1. 1 \in Uint
    <3>1. PICK x \in Nat : x = Radix
      BY RadixType
    <3>2. \A a \in Nat, b \in Nat : a > 1 /\ b > 0 => a * b > 1 /\ a * b \in Nat
      <4> TAKE a \in Nat, b \in Nat
      <4> SUFFICES ASSUME a > 1, b > 0 PROVE a * b > 1 /\ a * b \in Nat
        OBVIOUS
      <4>1. PICK c \in Nat : b = c + 1
        <5>1. b - 1 \in Nat /\ b = (b - 1) + 1
          OBVIOUS
        <5> QED
          BY <5>1
      <4>2. a * (c + 1) = a * c + a /\ a * c \in Nat
        OBVIOUS
      <4> QED
        BY <4>1, <4>2
    <3>3. x > 1
      BY <3>1, RadixType
    <3>4. x * x > 1 /\ x * x \in Nat
      BY <3>2, <3>3
    <3>5. x * x * x > 1 /\ x * x * x \in Nat
      BY <3>2, <3>3, <3>4
    <3>6. x * x * x * x > 1
      BY <3>2, <3>3, <3>5
    <3>7. Uint32 > 1
      BY <3>1, <3>6 DEF Uint32
    <3> QED
      BY <3>7, UintTypes DEF Uint
  <2>2. 0 \in Uint
    BY UintTypes DEF Uint
  <2> QED
    BY <2>1, <2>2, JobFacts, SignedFacts DEF JobRight
<1>2. keys.public % Uint32 = keys.public
  <2>1. PICK u \in Nat \ {0}, x \in Nat : u = Uint32 /\ x = keys.public /\ x \in 0 .. u - 1
    BY <1>1, UintTypes DEF Uint
  <2>2. x = u * 0 + x /\ x \in Int /\ 0 \in Int
    OBVIOUS
  <2>3. x % u = x
    BY <2>1, <2>2, Quotient
  <2> QED
    BY <2>1, <2>3
<1>3. PICK v : v = [messageType |-> 0, userID |-> job.userID, publicKey |-> keys.public]
  OBVIOUS
<1>4. RegisteredKey = Deserialize(deserializeClientPK, Serialize(serializeClientPK, v))
  BY <1>2, <1>3 DEF RegisteredKey
<1>5. PICK r : r = RegisteredKey
  OBVIOUS
<1>6. /\ DOMAIN r = {"messageType", "userID", "publicKey"}
      /\ \A name \in DOMAIN r : r[name] = v[name]
  <2>1. v.messageType \in Uint /\ v.userID \in Uint /\ v.publicKey \in Uint
    BY <1>1, <1>3
  <2> QED
    BY <1>4, <1>5, <2>1, KeyRoundTrip
<1>7. r = [name \in DOMAIN r |-> r[name]]
  BY <1>4, <1>5 DEF Deserialize
<1>8. PICK w : w = [r EXCEPT !.messageType = 1]
  OBVIOUS
<1>9. w.messageType \in Uint /\ w.userID \in Uint /\ w.publicKey = keys.public
  <2>1. w.messageType = 1 /\ w.userID = r.userID /\ w.publicKey = r.publicKey
    BY <1>6, <1>7, <1>8
  <2>2. r.userID = job.userID /\ r.publicKey = keys.public
    BY <1>3, <1>6
  <2> QED
    BY <1>1, <2>1, <2>2
<1>10. PICK s : s = Deserialize(deserializeClientPK, Serialize(serializeClientPK, w))
  OBVIOUS
<1>11. s.publicKey = w.publicKey
  <2>1. w.publicKey \in Uint
    BY <1>1, <1>9
  <2>2. /\ DOMAIN s = {"messageType", "userID", "publicKey"}
        /\ \A name \in DOMAIN s : s[name] = w[name]
    BY <1>9, <1>10, <2>1, KeyRoundTrip
  <2> QED
    BY <2>2
<1>12. getPublicKey = s.publicKey
  BY <1>5, <1>8, <1>10, ServerPKIsClientPK DEF getPublicKey
<1> QED
  BY <1>9, <1>11, <1>12

\* Whoever reads the fields as they were signed accepts them.
LEMMA SignedIsAccepted ==
  ASSUME JobRight, NEW r, r.timestamp = Signed.timestamp, r.digitalSig = Signed.digitalSig
  PROVE  authenticate(r) = "accepted"
<1>1. /\ job.p \in Nat /\ job.q \in Nat /\ Prime(job.p) /\ Prime(job.q) /\ job.p # job.q
      /\ job.timestamp \in Nat /\ job.timestamp < job.p * job.q
  BY JobFacts, UintFacts DEF JobRight
<1>2. /\ keys.private \in Nat /\ keys.public \in Nat /\ MODULUS \in Nat \ {0}
      /\ MODULUS = job.p * job.q
      /\ Congruent(keys.private * keys.public, 1, (job.p - 1) * (job.q - 1))
  BY SignedFacts, UintFacts
<1>3. PICK p \in Nat, q \in Nat, d \in Nat, e \in Nat, n \in Nat \ {0}, t \in Nat :
        /\ p = job.p /\ q = job.q /\ d = keys.private /\ e = keys.public /\ n = MODULUS
        /\ t = job.timestamp
  BY <1>1, <1>2
<1>4. decryptTimestamp(encryptTimestamp(t, d, n), e, n) = t
  <2>1. KeysOf(p, q, d, e, n) /\ t < n
    BY <1>1, <1>2, <1>3 DEF KeysOf
  <2> QED
    BY <2>1, DecryptUndoesEncrypt
<1>5. Signed.digitalSig = encryptTimestamp(t, d, n) /\ Signed.timestamp = t
  BY <1>3 DEF Signed
<1>6. getPublicKey = e
  BY <1>3, KeyIsRegistered
<1> QED
  BY <1>3, <1>4, <1>5, <1>6 DEF authenticate

VerdictInv == RequestInv /\ (verdict # "none" => verdict = "accepted")

LEMMA VerdictNext ==
  ASSUME VerdictInv, [Next]_vars
  PROVE  VerdictInv'
<1> USE DEF VerdictInv
<1>1. RequestInv'
  BY RequestNext
<1>2. CASE serveRequest \/ handleRegisterTfa
  <2>1. PICK r : r = request'
    OBVIOUS
  <2>2. verdict' = authenticate(r)
    BY <1>2, <2>1 DEF serveRequest, handleRegisterTfa
  <2>3. r.timestamp = Signed.timestamp /\ r.digitalSig = Signed.digitalSig
    <3>1. Signed' = Signed
      BY <1>2, JobStays DEF serveRequest, handleRegisterTfa, RequestInv
    <3>2. PICK v : v = Signed
      OBVIOUS
    <3>3. "timestamp" \in DOMAIN r /\ "digitalSig" \in DOMAIN r
      BY <1>2, <2>1, RequestDomain
    <3>4. \A name \in DOMAIN r : r[name] = v[name]
      BY <1>2, <2>1, <3>1, <3>2, RequestRead DEF SameFields
    <3> QED
      BY <3>2, <3>3, <3>4
  <2>4. verdict' = "accepted"
    BY <2>2, <2>3, SignedIsAccepted DEF RequestInv
  <2> QED
    BY <1>1, <2>4
<1>3. CASE UNCHANGED verdict
  BY <1>1, <1>3
<1> QED
  BY <1>2, <1>3 DEF Next, vars, local, lodiClientSend, streamServerSend, Upstream, Downstream,
                    clientDies

\* AcceptedIfSigned, for every pair of primes, every timestamp below their
\* product and every way to cut the stream: whatever the server has decided
\* about a signed request, it has accepted it and read all its fields as they
\* were (rsa.c, the serialisers, authenticate).
THEOREM SignedStaysAccepted == Spec => []AcceptedIfSigned
<1>1. Init => VerdictInv
  BY ExchangeStarts DEF Init, VerdictInv
<1>2. VerdictInv /\ [Next]_vars => VerdictInv'
  BY VerdictNext
<1>3. VerdictInv => AcceptedIfSigned
  BY DEF VerdictInv, RequestInv, SameFields, AcceptedIfSigned
<1> QED
  BY <1>1, <1>2, <1>3, PTL DEF Spec
=============================================================================
