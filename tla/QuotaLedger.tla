---------------------------- MODULE QuotaLedger ----------------------------
(***************************************************************************)
(* What the daily quotas promise to a tenant and to its host: a request    *)
(* uses one unit of each of its buckets, of all of them or of none, on the *)
(* day it is granted, and never more of a bucket than its ceiling.  Here   *)
(* looking and charging are one step, and nothing is known of handlers;    *)
(* HostedApi implements this module.                                       *)
(***************************************************************************)
EXTENDS Naturals

CONSTANTS
  Tenants, Buckets,
  Days,       \* the windows of the quota
  Uses,       \* the sets of buckets that a request may use
  Ceiling     \* how often each bucket of a day can be used

VARIABLES
  day,        \* today
  charged     \* charged[t][d][b]: the units tenant t has used of bucket b on day d

vars == <<day, charged>>

Nothing == [t \in Tenants |-> [d \in Days |-> [b \in Buckets |-> 0]]]

Init ==
  /\ day = 0
  /\ charged = Nothing

Grant(t, use) ==
  /\ \A b \in use : charged[t][day][b] < Ceiling[b]
  /\ charged' = [charged EXCEPT ![t][day] =
                   [b \in Buckets |-> IF b \in use THEN @[b] + 1 ELSE @[b]]]
  /\ UNCHANGED day

NewDay ==
  /\ day + 1 \in Days
  /\ day' = day + 1
  /\ UNCHANGED charged

\* Usage is kept in memory: a restart forgets the units, of all tenants at once.
Forget ==
  /\ charged' = Nothing
  /\ UNCHANGED day

Next ==
  \/ NewDay
  \/ Forget
  \/ \E t \in Tenants, use \in Uses : Grant(t, use)

Spec == Init /\ [][Next]_vars
=============================================================================
