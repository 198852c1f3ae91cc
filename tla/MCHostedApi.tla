----------------------------- MODULE MCHostedApi -----------------------------
(* Two requests of two tenants to a server of one thread, over a midnight and *)
(* a restart.                                                                 *)
EXTENDS HostedApi, TLC

CONSTANTS t1, t2, r1, r2

Ask(t, profile, f) ==
  [tenant |-> t, route |-> "ask", profile |-> profile, faults |-> f, direct |-> FALSE]
Audit(t, profile, f, direct) ==
  [tenant |-> t, route |-> "audit", profile |-> profile, faults |-> f, direct |-> direct]

\* Sound requests of every kind of bucket, requests that the client stops, and
\* requests of other callers with one or two faults.
SomeKinds ==
  {Audit(t1, "default", {}, FALSE), Audit(t1, "premium", {}, FALSE), Ask(t1, "premium", {}),
   Audit(t2, "premium", {}, FALSE), Audit(t2, "premium", {"workflow"}, TRUE),
   Audit(t1, "premium", {"shape", "claims"}, TRUE),
   Ask(t2, "default", {"unsafe", "terms"})}

TwoTenants  == {t1, t2}
TwoRequests == {r1, r2}
OneEach     == [b \in Buckets |-> 1]
RequestSymmetry == Permutations(TwoRequests)
==============================================================================
