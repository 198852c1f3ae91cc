------------------------------ MODULE HostedApi ------------------------------
(***************************************************************************)
(* Hosted self-service audits.  A run of the Action, or any other caller,  *)
(* posts a signed request; the handler checks it, provisions the tenant,   *)
(* charges the tenant's daily quota and only then asks TopoCore.  Tenants  *)
(* and usage live in the memory of the server.  The client gives up after  *)
(* its timeout whatever the server is doing, and sends nothing twice: who  *)
(* wants another answer writes another command.                            *)
(***************************************************************************)
EXTENDS Naturals, FiniteSets, Sequences

CONSTANTS
  Requests,     \* the requests that callers make
  Kinds,        \* what a request can be like: tenant, route, profile, faults, direct
  Tenants,      \* GitHub repositories (owner id and repository id)
  Limit,        \* PartnerQuotaPolicy: runs per day of each bucket
  Workers,      \* threads that run the handler on the same stores
  None,
  MaxDay,       \* bound: midnights that pass
  MaxRestarts   \* bound: restarts of the server

Buckets == {"audit_score", "ask", "premium_narrative"}

\* The checks of the handler, in its order.  The signing keys are fetched in
\* between, once the token has been parsed.
BeforeKeys == <<"shape", "evidence", "unsafe", "disabled", "terms", "noToken", "malformed">>
AfterKeys  == <<"unknownKey", "claims", "repository", "workflow">>
Faults     == {BeforeKeys[i] : i \in DOMAIN BeforeKeys} \cup {AfterKeys[i] : i \in DOMAIN AfterKeys}
                \cup {"metadata", "url"}

ASSUME HostedApiAssumption ==
  /\ Kinds \subseteq [tenant : Tenants, route : {"audit", "score", "ask"},
                      profile : {"default", "premium"}, faults : SUBSET Faults, direct : BOOLEAN]
  /\ Limit \in [Buckets -> Nat]
  /\ None \notin Requests /\ None \notin Nat /\ None \notin [first : Nat, last : Nat]
  /\ MaxDay \in Nat /\ MaxRestarts \in Nat
  /\ IsFiniteSet(Requests) /\ IsFiniteSet(Workers)

VARIABLES
  kind,      \* what each request is like
  shown,     \* what its caller has in the end
  reply,     \* the handler's answer
  job, at,   \* the request a worker handles, and where it is
  window,    \* the day whose usage a worker charges
  due,       \* the buckets it still has to charge
  seen,      \* InMemoryTenantStore: first and last day of each tenant
  usage,     \* InMemoryQuotaStore._usage
  day, restarts,
  granted    \* history: the day on which a request passed the quota, in this life of the server

client == <<kind, shown>>
server == <<job, at, window, due>>
stores == <<seen, usage>>
vars   == <<client, server, stores, reply, day, restarts, granted>>

Days      == 0..MaxDay
Rejection == Faults \cup {"keys", "quota"}
Failures  == {"unavailable", "internal"}
Replies   == Rejection \cup Failures \cup {"report"}

\* Type correctness of the variables.
TypeOK ==
  /\ kind \in [Requests -> Kinds]
  /\ shown \in [Requests -> Replies \cup {"idle", "waiting", "local", "blocked", "raised", "noAnswer"}]
  /\ reply \in [Requests -> Replies \cup {"none"}]
  /\ job \in [Workers -> Requests \cup {None}]
  /\ at \in [Workers -> {"free", "check", "keys", "provision", "evaluate", "consume", "run"}]
  /\ \A w \in Workers : (job[w] = None) <=> (at[w] = "free")
  /\ window \in [Workers -> Days] /\ due \in [Workers -> SUBSET Buckets]
  /\ seen \in [Tenants -> [first : Days, last : Days] \cup {None}]
  /\ usage \in [Tenants -> [Days -> [Buckets -> Nat]]]
  /\ day \in Days /\ restarts \in Nat
  /\ granted \in [Requests -> Days \cup {None}]

Unused == [t \in Tenants |-> [d \in Days |-> [b \in Buckets |-> 0]]]

Init ==
  /\ kind \in [Requests -> Kinds]
  /\ shown = [r \in Requests |-> "idle"] /\ reply = [r \in Requests |-> "none"]
  /\ job = [w \in Workers |-> None] /\ at = [w \in Workers |-> "free"]
  /\ window = [w \in Workers |-> 0] /\ due = [w \in Workers |-> {}]
  /\ seen = [t \in Tenants |-> None] /\ usage = Unused
  /\ day = 0 /\ restarts = 0
  /\ granted = [r \in Requests |-> None]

-----------------------------------------------------------------------------
(* The client                                                              *)

\* What keeps a run of the Action from sending: self-service is off; the
\* preview of the request is unsafe; the gate finds terms, token or workflow
\* metadata missing; the request breaks the contract; the URL is no API.  Only
\* HostedApiClientError is caught where the request is sent.
Stopped(f) ==
  IF "disabled" \in f THEN "local"
  ELSE IF "unsafe" \in f /\ "noToken" \notin f THEN "raised"
  ELSE IF f \cap {"terms", "noToken", "metadata"} # {} THEN "blocked"
  ELSE IF f \cap {"unsafe", "shape", "evidence"} # {} THEN "raised"
  ELSE IF "url" \in f THEN "unavailable"
  ELSE "waiting"

Send(r) ==
  /\ shown[r] = "idle"
  /\ shown' = [shown EXCEPT ![r] = IF kind[r].direct THEN "waiting" ELSE Stopped(kind[r].faults)]
  /\ UNCHANGED <<kind, server, stores, reply, day, restarts, granted>>

\* The answer arrives within the timeout of the client.
Receive(r) ==
  /\ shown[r] = "waiting" /\ reply[r] # "none"
  /\ shown' = [shown EXCEPT ![r] = reply[r]]
  /\ UNCHANGED <<kind, server, stores, reply, day, restarts, granted>>

\* It does not, or it comes as a redirect, a server error or no JSON.
GiveUp(r) ==
  /\ shown[r] = "waiting"
  /\ shown' = [shown EXCEPT ![r] = "noAnswer"]
  /\ UNCHANGED <<kind, server, stores, reply, day, restarts, granted>>

-----------------------------------------------------------------------------
(* The handler                                                             *)

Goto(w, stage) == at' = [at EXCEPT ![w] = stage]

\* Mistake: the worker keeps the request it has answered.
Answer_Holding(w, with) ==
  /\ reply' = [reply EXCEPT ![job[w]] = with]
  /\ Goto(w, "free")
  /\ UNCHANGED <<job, window, due>>

Answer(w, with) ==
  /\ reply' = [reply EXCEPT ![job[w]] = with]
  /\ job' = [job EXCEPT ![w] = None]
  /\ Goto(w, "free")
  /\ UNCHANGED <<window, due>>

\* A request that was sent is handled at most once, also when its caller has
\* given up.
Take(w, r) ==
  /\ at[w] = "free"
  /\ shown[r] \in {"waiting", "noAnswer"} /\ reply[r] = "none"
  /\ \A v \in Workers : job[v] # r
  /\ job' = [job EXCEPT ![w] = r]
  /\ Goto(w, "check")
  /\ UNCHANGED <<client, stores, reply, window, due, day, restarts, granted>>

\* The first check that fails names the error.
FirstOf(checks, f) ==
  checks[CHOOSE i \in DOMAIN checks :
           checks[i] \in f /\ \A j \in 1..(i - 1) : checks[j] \notin f]

Passes(checks, f) == \A i \in DOMAIN checks : checks[i] \notin f

Check(w, stage, checks, next) ==
  /\ at[w] = stage
  /\ LET f == kind[job[w]].faults
     IN  \/ /\ Passes(checks, f)
            /\ Goto(w, next)
            /\ UNCHANGED <<reply, job, window, due>>
         \/ /\ ~Passes(checks, f)
            /\ Answer(w, FirstOf(checks, f))
  /\ UNCHANGED <<client, stores, day, restarts, granted>>

\* The contract, the terms, and the token as far as it can be parsed.
CheckRequest(w) == Check(w, "check", BeforeKeys, "keys")

\* The token with the keys of GitHub, and its claims with the identity block.
VerifyToken(w) == Check(w, "keys", AfterKeys, "provision")

\* Discovery document or key set cannot be had.
KeysUnavailable(w) ==
  /\ at[w] = "keys"
  /\ Answer(w, "keys")
  /\ UNCHANGED <<client, stores, day, restarts, granted>>

TenantOf(w) == kind[job[w]].tenant

Provision(w) ==
  /\ at[w] = "provision"
  /\ seen' = [seen EXCEPT ![TenantOf(w)] =
                [first |-> IF @ = None THEN day ELSE @.first, last |-> day]]
  /\ Goto(w, "evaluate")
  /\ UNCHANGED <<client, job, window, due, usage, reply, day, restarts, granted>>

\* _quota_buckets_for
BucketsFor(k) ==
  {IF k.route = "ask" THEN "ask" ELSE "audit_score"}
    \cup (IF k.profile = "premium" THEN {"premium_narrative"} ELSE {})

\* Mistake: only the bucket of the route is looked at.
Evaluate_RouteOnly(w) ==
  /\ at[w] = "evaluate"
  /\ LET k    == kind[job[w]]
         full == {b \in BucketsFor([k EXCEPT !.profile = "default"]) :
                    usage[TenantOf(w)][day][b] >= Limit[b]}
     IN  \/ /\ full = {}
            /\ window' = [window EXCEPT ![w] = day]
            /\ due' = [due EXCEPT ![w] = BucketsFor(k)]
            /\ Goto(w, "consume")
            /\ granted' = [granted EXCEPT ![job[w]] = day]
            /\ UNCHANGED <<job, reply>>
         \/ /\ full # {}
            /\ Answer(w, "quota")
            /\ UNCHANGED granted
  /\ UNCHANGED <<client, stores, day, restarts>>

\* Every bucket is looked at before one is charged, on the day it is now.
Evaluate(w) ==
  /\ at[w] = "evaluate"
  /\ LET buckets == BucketsFor(kind[job[w]])
         full    == {b \in buckets : usage[TenantOf(w)][day][b] >= Limit[b]}
     IN  \/ /\ full = {}
            /\ window' = [window EXCEPT ![w] = day]
            /\ due' = [due EXCEPT ![w] = buckets]
            /\ Goto(w, "consume")
            /\ granted' = [granted EXCEPT ![job[w]] = day]
            /\ UNCHANGED <<job, reply>>
         \/ /\ full # {}
            /\ Answer(w, "quota")
            /\ UNCHANGED granted
  /\ UNCHANGED <<client, stores, day, restarts>>

\* Mistake: the day is read again when the bucket is charged.
Consume_Today(w) ==
  /\ at[w] = "consume"
  /\ \E b \in due[w] :
       /\ usage' = [usage EXCEPT ![TenantOf(w)][day][b] = @ + 1]
       /\ due' = [due EXCEPT ![w] = @ \ {b}]
       /\ Goto(w, IF due[w] = {b} THEN "run" ELSE "consume")
  /\ UNCHANGED <<client, job, window, seen, reply, day, restarts, granted>>

Consume(w) ==
  /\ at[w] = "consume"
  /\ \E b \in due[w] :
       /\ usage' = [usage EXCEPT ![TenantOf(w)][window[w]][b] = @ + 1]
       /\ due' = [due EXCEPT ![w] = @ \ {b}]
       /\ Goto(w, IF due[w] = {b} THEN "run" ELSE "consume")
  /\ UNCHANGED <<client, job, window, seen, reply, day, restarts, granted>>

\* The private runtime answers, is unavailable, or fails in another way, the
\* building of the response included.  What was charged stays charged.
RunAudit(w) ==
  /\ at[w] = "run"
  /\ \E result \in {"report"} \cup Failures : Answer(w, result)
  /\ UNCHANGED <<client, stores, day, restarts, granted>>

-----------------------------------------------------------------------------
(* The surroundings                                                        *)

Midnight ==
  /\ day < MaxDay /\ day' = day + 1
  /\ UNCHANGED <<client, server, stores, reply, restarts, granted>>

\* Tenants, usage and the requests in hand are in memory only.  A request in
\* hand gets no answer any more; it counts as handled.
Restart ==
  /\ restarts < MaxRestarts /\ restarts' = restarts + 1
  /\ seen' = [t \in Tenants |-> None] /\ usage' = Unused
  /\ job' = [w \in Workers |-> None] /\ at' = [w \in Workers |-> "free"]
  /\ due' = [w \in Workers |-> {}]
  /\ reply' = [r \in Requests |-> IF \E w \in Workers : job[w] = r THEN "internal" ELSE reply[r]]
  /\ shown' = [r \in Requests |-> IF \E w \in Workers : job[w] = r THEN "noAnswer" ELSE shown[r]]
  /\ granted' = [r \in Requests |-> None]
  /\ UNCHANGED <<kind, window, day>>

Handler(w) ==
  \/ \E r \in Requests : Take(w, r)
  \/ CheckRequest(w) \/ VerifyToken(w) \/ KeysUnavailable(w)
  \/ Provision(w) \/ Evaluate(w) \/ Consume(w) \/ RunAudit(w)

Next ==
  \/ \E r \in Requests : Send(r) \/ Receive(r) \/ GiveUp(r)
  \/ \E w \in Workers : Handler(w)
  \/ Midnight
  \/ Restart

Spec == Init /\ [][Next]_vars

-----------------------------------------------------------------------------
(* Properties                                                              *)

\* A tenant never has more of a bucket on a day than the policy grants, though
\* the store looks first and charges later.
QuotaKept == \A t \in Tenants, d \in Days, b \in Buckets : usage[t][d][b] <= Limit[b]

Passed(t, d, b) == {r \in Requests : /\ granted[r] = d /\ kind[r].tenant = t
                                     /\ b \in BucketsFor(kind[r])}
Owed(t, d, b)   == {w \in Workers : /\ at[w] = "consume" /\ b \in due[w]
                                    /\ window[w] = d /\ TenantOf(w) = t}

\* The usage of a day is the number of requests that passed the quota on that
\* day, except for what is being charged right now: a request that is refused,
\* for whatever reason and at whichever bucket, leaves no trace in it.
AccountsAgree ==
  \A t \in Tenants, d \in Days, b \in Buckets :
    usage[t][d][b] + Cardinality(Owed(t, d, b)) = Cardinality(Passed(t, d, b))

\* Only a tenant whose token was verified is charged, and never for a day
\* before it was first seen.
ChargedTenantsAreKnown ==
  \A t \in Tenants, d \in Days, b \in Buckets :
    usage[t][d][b] > 0 => seen[t] # None /\ seen[t].first <= d

-----------------------------------------------------------------------------
(* The promise                                                             *)

\* The buckets that one request may use, and how often each can be used: as many
\* handlers as there are may look before one of them has charged.
Uses    == {BucketsFor(k) : k \in Kinds}
Ceiling == [b \in Buckets |-> Limit[b] + Cardinality(Workers) - 1]

\* A unit is used from the moment it is granted, though it is charged later.
Charged == [t \in Tenants |-> [d \in Days |-> [b \in Buckets |->
              usage[t][d][b] + Cardinality(Owed(t, d, b))]]]
Quota   == INSTANCE QuotaLedger WITH charged <- Charged

\* The handlers keep the promise of the quota, though each looks at the buckets
\* first and charges them one after the other (evaluate_and_consume): a request
\* uses all of its buckets or none, on one day, and within the limit where there
\* is one handler.
KeepsQuota == Quota!Spec

=============================================================================
