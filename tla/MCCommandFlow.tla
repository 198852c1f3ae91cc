--------------------------- MODULE MCCommandFlow ---------------------------
(* Instances of CommandFlow for TLC.                                       *)
EXTENDS CommandFlow, TLC

CONSTANTS c1, c2

OneCommand  == {c1}
TwoCommands == {c1, c2}

\* A comment on the pull request, and a run started by hand.
Comments(routes, deferred) ==
  [route : routes, dispatched : {FALSE}, dry : {FALSE}, pull : {TRUE}, thread : {TRUE},
   deferred : deferred]
ByHand(routes, dry, thread) ==
  [route : routes, dispatched : {TRUE}, dry : dry, pull : {TRUE}, thread : thread,
   deferred : {TRUE}]

AllKinds ==
  Comments({"ignored", "notice", "hosted", "report"}, {TRUE})
    \cup Comments({"queue", "qa", "patch"}, BOOLEAN)
    \cup ByHand({"hosted", "report", "qa", "patch"}, {FALSE}, BOOLEAN)
    \cup ByHand({"notice", "hosted", "report", "qa", "patch"}, {TRUE}, {TRUE})
DryKinds == ByHand({"qa", "patch"}, {TRUE}, {TRUE})

=============================================================================
