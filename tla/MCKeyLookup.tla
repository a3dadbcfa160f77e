----------------------------- MODULE MCKeyLookup -----------------------------
(***************************************************************************)
(* TLC instances of KeyLookup.                                             *)
(***************************************************************************)
EXTENDS KeyLookup, TLC

CONSTANTS u1, u2, k1, k2, a1, a2

\* The first user tries twice, with different keys; the second one never does.
Owners == [a \in Attempts |-> u1]
KeysOfAttempts == [a \in Attempts |-> IF a = a1 THEN k1 ELSE k2]
=============================================================================
