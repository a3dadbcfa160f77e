-------------------------- MODULE MCSignedRequests --------------------------
(***************************************************************************)
(* TLC instance of SignedRequests.  A byte has four values, so that 32 bits*)
(* end at 256 and 64 bits at 65536: moduli and signatures beyond the first *)
(* and products beyond the second occur.                                   *)
(***************************************************************************)
EXTENDS SignedRequests, TLC

CONSTANTS Primes, Timestamps, UserIDs

\* rsa_generate.c: the product of the primes is larger than the timestamp.
MCJobs ==
  {j \in [p : Primes, q : Primes, timestamp : Timestamps, userID : UserIDs,
          messageType : {5}, to : {"lodi", "tfa"}] :
     j.p < j.q /\ j.timestamp < j.p * j.q}
=============================================================================
