------------------------------ MODULE FeedLife ------------------------------
(***************************************************************************)
(* What a Lodi client can rely on of the process that streams its feed: it *)
(* asks the server for the feed, anew after a loss, it ends when it is told*)
(* to or refused and for no other reason, it takes its stream with it, and *)
(* the client is past stopStreamFeed only when the process has ended.      *)
(***************************************************************************)
VARIABLES process,   \* "none", "running", "ended", "reaped" by its parent
          stream,    \* "closed", "asked", "admitted", "refused"
          told       \* the process has been sent SIGTERM

Init == process = "none" /\ stream = "closed" /\ told = FALSE

Start ==
  /\ process \in {"none", "reaped"}
  /\ process' = "running" /\ stream' = "closed" /\ told' = FALSE

Ask ==
  /\ process = "running" /\ stream = "closed"
  /\ stream' = "asked" /\ UNCHANGED <<process, told>>

Admit ==
  /\ stream = "asked"
  /\ stream' = "admitted" /\ UNCHANGED <<process, told>>

Refuse ==
  /\ stream = "asked"
  /\ stream' = "refused" /\ UNCHANGED <<process, told>>

\* The connection is lost, and the process has noticed.
Lose ==
  /\ stream \in {"asked", "admitted"}
  /\ stream' = "closed" /\ UNCHANGED <<process, told>>

\* The signal may find the process at a point where it ends it at once, or
\* where it makes it close its stream.
Tell ==
  /\ process \in {"running", "ended"} /\ told' = TRUE
  /\ \/ UNCHANGED <<process, stream>>
     \/ stream' = "closed" /\ process' \in {process, "ended"}

\* Mutant: a refusal does not end the process.
EndWhenTold ==
  /\ process = "running" /\ told
  /\ process' = "ended" /\ stream' = "closed" /\ UNCHANGED told

End ==
  /\ process = "running" /\ (told \/ stream = "refused")
  /\ process' = "ended" /\ stream' = "closed" /\ UNCHANGED told

\* waitpid of stopStreamFeed returns.
Reap ==
  /\ process = "ended" /\ told
  /\ process' = "reaped" /\ UNCHANGED <<stream, told>>

Next == Start \/ Ask \/ Admit \/ Refuse \/ Lose \/ Tell \/ End \/ Reap

Spec == Init /\ [][Next]_<<process, stream, told>>
=============================================================================
