-------------------------- MODULE MCControlWorker --------------------------
(* Instances of ControlWorker for TLC.                                     *)
EXTENDS ControlWorker

CONSTANTS r1, r2, r3, repoA, repoB, repoC, w1, w2

TwoRequests    == {r1, r2}
ThreeRequests  == {r1, r2, r3}
OneRepo        == {repoA}
TwoRepos       == {repoA, repoB}
ThreeRepos     == {repoA, repoB, repoC}
VisitOne       == <<repoA>>
VisitTwo       == <<repoA, repoB>>
VisitThree     == <<repoA, repoB, repoC>>

\* The functions are restricted to the requests of the instance.
SameRepo       == [r \in Requests |-> repoA]
OneEach        == [r \in Requests |->
                     CASE r = r1 -> repoA [] r = r2 -> repoB [] OTHER -> repoC]

\* Chatter nowhere, or in the first repository.
Quiet          == [p \in Repos |-> 0]
OneWord        == [p \in Repos |-> IF p = repoA THEN 1 ELSE 0]
=============================================================================
