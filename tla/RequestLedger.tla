--------------------------- MODULE RequestLedger ---------------------------
(***************************************************************************)
(* What the GitHub-native request queue promises to the person who wrote   *)
(* `/repobrain audit` or `/repobrain score` in a repository whose workflow *)
(* uses transport_mode github_app_queue: the request is answered, and it   *)
(* is answered once.  Nothing here knows about comments, markers, windows  *)
(* or worker runs; ControlWorker implements this module.                   *)
(***************************************************************************)
EXTENDS Naturals

CONSTANT Requests        \* request ids (the rbq_... hashes of the queue marker)

VARIABLES asked,         \* the requests that were queued
          answers        \* answers[r]: how many replies r got

vars == <<asked, answers>>

LedgerTypeOK ==
  /\ asked \in SUBSET Requests
  /\ answers \in [Requests -> {0, 1}]

Init ==
  /\ asked = {}
  /\ answers = [r \in Requests |-> 0]

Ask(r) ==
  /\ r \notin asked
  /\ asked' = asked \cup {r}
  /\ UNCHANGED answers

Answer(r) ==
  /\ r \in asked
  /\ answers[r] = 0
  /\ answers' = [answers EXCEPT ![r] = 1]
  /\ UNCHANGED asked

Next == \E r \in Requests : Ask(r) \/ Answer(r)

\* The promise without a deadline: at most one answer, only to what was asked.
SafeSpec == Init /\ [][Next]_vars

\* What is asked is answered in the end.
Answering == \A r \in Requests : WF_vars(Answer(r))

\* The whole promise: every request that was asked is answered.
Spec == SafeSpec /\ Answering
=============================================================================
