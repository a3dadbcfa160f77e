--------------------------- MODULE MCConfirmation ---------------------------
(***************************************************************************)
(* TLC instances of Confirmation.                                          *)
(***************************************************************************)
EXTENDS Confirmation, TLC

CONSTANTS u1, u2, d1, d2, d3

\* One device each, and a second one of the first user.
Owners == [d \in Devices |-> IF d = d2 THEN u2 ELSE u1]
=============================================================================
