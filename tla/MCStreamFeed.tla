---------------------------- MODULE MCStreamFeed ----------------------------
(***************************************************************************)
(* The points at which SIGTERM may come in the TLC instances of StreamFeed.*)
(***************************************************************************)
EXTENDS StreamFeed

\* From the fork to the exit.
Anywhere == Starting \cup Looping \cup {"ended"}

\* In the loop.
InLoop == Looping
=============================================================================
