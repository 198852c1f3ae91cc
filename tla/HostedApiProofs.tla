--------------------------- MODULE HostedApiProofs ---------------------------
(* What holds of the hosted handler for every number of requests, tenants and *)
(* days: the types, that only known tenants are charged, what the accounts    *)
(* are worth, that no quota is exceeded where a single thread runs the        *)
(* handler, by how much it may be where several do, and that the handlers     *)
(* keep the promise of QuotaLedger.                                           *)
EXTENDS HostedApi, FiniteSetTheorems, TLAPS

-----------------------------------------------------------------------------
(* The checks                                                              *)

LEMMA FirstBefore ==
  ASSUME NEW f, ~Passes(BeforeKeys, f)
  PROVE  FirstOf(BeforeKeys, f) \in Faults
<1> DEFINE Least(i) == /\ i \in DOMAIN BeforeKeys /\ BeforeKeys[i] \in f
                       /\ \A j \in 1..(i - 1) : BeforeKeys[j] \notin f
<1>1. DOMAIN BeforeKeys = 1..7
  BY DEF BeforeKeys
<1>2. \E i \in 1..7 : Least(i)
  BY <1>1, SMTT(60) DEF Passes
<1>3. FirstOf(BeforeKeys, f) \in {BeforeKeys[i] : i \in DOMAIN BeforeKeys}
  BY <1>1, <1>2 DEF FirstOf
<1>4. QED BY <1>3 DEF Faults

LEMMA FirstAfter ==
  ASSUME NEW f, ~Passes(AfterKeys, f)
  PROVE  FirstOf(AfterKeys, f) \in Faults
<1> DEFINE Least(i) == /\ i \in DOMAIN AfterKeys /\ AfterKeys[i] \in f
                       /\ \A j \in 1..(i - 1) : AfterKeys[j] \notin f
<1>1. DOMAIN AfterKeys = 1..4
  BY DEF AfterKeys
<1>2. \E i \in 1..4 : Least(i)
  BY <1>1, SMTT(60) DEF Passes
<1>3. FirstOf(AfterKeys, f) \in {AfterKeys[i] : i \in DOMAIN AfterKeys}
  BY <1>1, <1>2 DEF FirstOf
<1>4. QED BY <1>3 DEF Faults

LEMMA BucketsOfKinds ==
  ASSUME NEW k PROVE BucketsFor(k) \subseteq Buckets
BY DEF BucketsFor, Buckets

-----------------------------------------------------------------------------
(* Type correctness                                                        *)

LEMMA InitType == Init => TypeOK
BY HostedApiAssumption DEF HostedApiAssumption, Init, TypeOK, Unused, Days, Buckets

LEMMA NextType == TypeOK /\ [Next]_vars => TypeOK'
<1> USE HostedApiAssumption DEF HostedApiAssumption
<1> SUFFICES ASSUME TypeOK, [Next]_vars PROVE TypeOK'
  OBVIOUS
<1>a. Replies = Faults \cup {"keys", "quota", "unavailable", "internal", "report"}
  BY DEF Replies, Rejection, Failures
<1>b. ASSUME NEW w \in Workers, at[w] # "free" PROVE job[w] \in Requests
  BY <1>b DEF TypeOK
<1>c. ASSUME NEW w \in Workers, at[w] # "free", NEW x \in Replies, Answer(w, x)
      PROVE  /\ reply' \in [Requests -> Replies \cup {"none"}]
             /\ job' \in [Workers -> Requests \cup {None}]
             /\ at' \in [Workers -> {"free", "check", "keys", "provision", "evaluate", "consume", "run"}]
             /\ \A v \in Workers : (job'[v] = None) <=> (at'[v] = "free")
             /\ window' = window /\ due' = due
  BY <1>c, <1>b DEF Answer, Goto, TypeOK
<1>1. ASSUME NEW r \in Requests, Send(r) PROVE TypeOK'
  <2>1. Stopped(kind[r].faults) \in {"local", "raised", "blocked", "unavailable", "waiting"}
    BY DEF Stopped
  <2> QED BY <1>1, <2>1, <1>a DEF Send, TypeOK, server, stores
<1>2. ASSUME NEW r \in Requests, Receive(r) PROVE TypeOK'
  BY <1>2 DEF Receive, TypeOK, server, stores
<1>3. ASSUME NEW r \in Requests, GiveUp(r) PROVE TypeOK'
  BY <1>3 DEF GiveUp, TypeOK, server, stores
<1>4. ASSUME NEW w \in Workers, NEW r \in Requests, Take(w, r) PROVE TypeOK'
  BY <1>4 DEF Take, Goto, TypeOK, client, stores
<1>5. ASSUME NEW w \in Workers, CheckRequest(w) PROVE TypeOK'
  <2>1. CASE Passes(BeforeKeys, kind[job[w]].faults)
    BY <1>5, <2>1, <1>b DEF CheckRequest, Check, Goto, TypeOK, client, stores
  <2>2. CASE ~Passes(BeforeKeys, kind[job[w]].faults)
    <3>1. FirstOf(BeforeKeys, kind[job[w]].faults) \in Replies
      BY <2>2, FirstBefore, <1>a
    <3> QED BY <1>5, <2>2, <3>1, <1>c DEF CheckRequest, Check, TypeOK, client, stores
  <2> QED BY <2>1, <2>2
<1>6. ASSUME NEW w \in Workers, VerifyToken(w) PROVE TypeOK'
  <2>1. CASE Passes(AfterKeys, kind[job[w]].faults)
    BY <1>6, <2>1, <1>b DEF VerifyToken, Check, Goto, TypeOK, client, stores
  <2>2. CASE ~Passes(AfterKeys, kind[job[w]].faults)
    <3>1. FirstOf(AfterKeys, kind[job[w]].faults) \in Replies
      BY <2>2, FirstAfter, <1>a
    <3> QED BY <1>6, <2>2, <3>1, <1>c DEF VerifyToken, Check, TypeOK, client, stores
  <2> QED BY <2>1, <2>2
<1>7. ASSUME NEW w \in Workers, KeysUnavailable(w) PROVE TypeOK'
  BY <1>7, <1>a, <1>c DEF KeysUnavailable, TypeOK, client, stores
<1>8. ASSUME NEW w \in Workers, Provision(w) PROVE TypeOK'
  <2>1. TenantOf(w) \in Tenants
    BY <1>8, <1>b DEF Provision, TenantOf, TypeOK
  <2>2. seen' \in [Tenants -> [first : Days, last : Days] \cup {None}]
    BY <1>8, <2>1 DEF Provision, TypeOK
  <2>3. /\ at' \in [Workers -> {"free", "check", "keys", "provision", "evaluate", "consume", "run"}]
        /\ \A v \in Workers : (job'[v] = None) <=> (at'[v] = "free")
    BY <1>8 DEF Provision, Goto, TypeOK
  <2>4. UNCHANGED <<kind, shown, job, window, due, usage, reply, day, restarts, granted>>
    BY <1>8 DEF Provision, client
  <2> HIDE DEF HostedApiAssumption
  <2> QED BY <2>2, <2>3, <2>4 DEF TypeOK
<1>9. ASSUME NEW w \in Workers, Evaluate(w) PROVE TypeOK'
  <2>1. BucketsFor(kind[job[w]]) \subseteq Buckets
    BY BucketsOfKinds
  <2>2. at[w] = "evaluate"
    BY <1>9 DEF Evaluate
  <2>3. CASE {b \in BucketsFor(kind[job[w]]) : usage[TenantOf(w)][day][b] >= Limit[b]} = {}
    <3>1. /\ UNCHANGED <<kind, shown, reply, job, seen, usage, day, restarts>>
          /\ window' = [window EXCEPT ![w] = day]
          /\ due' = [due EXCEPT ![w] = BucketsFor(kind[job[w]])]
          /\ at' = [at EXCEPT ![w] = "consume"]
          /\ granted' = [granted EXCEPT ![job[w]] = day]
      BY <1>9, <2>3 DEF Evaluate, Goto, client, stores
    <3>2. window' \in [Workers -> Days] /\ granted' \in [Requests -> Days \cup {None}]
      BY <3>1 DEF TypeOK
    <3>3. due' \in [Workers -> SUBSET Buckets]
      BY <3>1, <2>1 DEF TypeOK
    <3>4. /\ at' \in [Workers -> {"free", "check", "keys", "provision", "evaluate", "consume", "run"}]
          /\ \A v \in Workers : (job'[v] = None) <=> (at'[v] = "free")
      BY <3>1, <2>2 DEF TypeOK
    <3> QED BY <3>1, <3>2, <3>3, <3>4 DEF TypeOK
  <2>4. CASE {b \in BucketsFor(kind[job[w]]) : usage[TenantOf(w)][day][b] >= Limit[b]} # {}
    <3>1. Answer(w, "quota") /\ UNCHANGED <<client, stores, day, restarts, granted>>
      BY <1>9, <2>4 DEF Evaluate
    <3> QED BY <3>1, <2>2, <1>a, <1>c DEF TypeOK, client, stores
  <2> QED BY <2>3, <2>4
<1>10. ASSUME NEW w \in Workers, Consume(w) PROVE TypeOK'
  <2>1. TenantOf(w) \in Tenants
    BY <1>10, <1>b DEF Consume, TenantOf, TypeOK
  <2>2. PICK b \in due[w] : /\ usage' = [usage EXCEPT ![TenantOf(w)][window[w]][b] = @ + 1]
                            /\ due' = [due EXCEPT ![w] = @ \ {b}]
                            /\ Goto(w, IF due[w] = {b} THEN "run" ELSE "consume")
    BY <1>10 DEF Consume
  <2>3. usage' \in [Tenants -> [Days -> [Buckets -> Nat]]]
    BY <2>1, <2>2 DEF TypeOK
  <2> QED BY <1>10, <2>2, <2>3, <1>b DEF Consume, Goto, TypeOK, client
<1>11. ASSUME NEW w \in Workers, RunAudit(w) PROVE TypeOK'
  <2>1. PICK x \in {"report"} \cup Failures : Answer(w, x)
    BY <1>11 DEF RunAudit
  <2>2. x \in Replies /\ at[w] # "free"
    BY <1>11 DEF RunAudit, Replies
  <2> QED BY <1>11, <2>1, <2>2, <1>c DEF RunAudit, TypeOK, client, stores
<1>12. ASSUME Midnight PROVE TypeOK'
  BY <1>12 DEF Midnight, TypeOK, client, server, stores, Days
<1>13. ASSUME Restart PROVE TypeOK'
  <2>1. usage' \in [Tenants -> [Days -> [Buckets -> Nat]]]
    BY <1>13 DEF Restart, Unused
  <2>2. reply' \in [Requests -> Replies \cup {"none"}]
    BY <1>13, <1>a DEF Restart, TypeOK
  <2> QED BY <1>13, <2>1, <2>2 DEF Restart, TypeOK
<1>14. CASE UNCHANGED vars
  BY <1>14 DEF vars, client, server, stores, TypeOK
<1> QED
  BY <1>1, <1>2, <1>3, <1>4, <1>5, <1>6, <1>7, <1>8, <1>9, <1>10, <1>11, <1>12, <1>13, <1>14
     DEF Next, Handler

\* The variables keep their types, whatever is asked of the server.
THEOREM TypeCorrect == Spec => []TypeOK
<1>1. Init => TypeOK
  BY InitType
<1>2. TypeOK /\ [Next]_vars => TypeOK'
  BY NextType
<1> QED BY <1>1, <1>2, PTL DEF Spec

-----------------------------------------------------------------------------
(* Quotas, where one thread runs the handler                               *)

OneWorker == \A v, w \in Workers : v = w

\* What a worker still has to charge had room when it was looked at, and nobody
\* else has charged since.
Room ==
  \A w \in Workers : at[w] = "consume" =>
    \A b \in due[w] : usage[TenantOf(w)][window[w]][b] < Limit[b]

LEMMA InitRoom == Init => QuotaKept /\ Room
BY HostedApiAssumption DEF HostedApiAssumption, Init, QuotaKept, Room, Unused, Days

LEMMA NextRoom ==
  ASSUME OneWorker PROVE TypeOK /\ QuotaKept /\ Room /\ [Next]_vars => QuotaKept' /\ Room'
<1> USE HostedApiAssumption DEF HostedApiAssumption
<1> SUFFICES ASSUME TypeOK, QuotaKept, Room, [Next]_vars PROVE QuotaKept' /\ Room'
  OBVIOUS
<1>a. ASSUME UNCHANGED <<kind, stores>>,
             \A v \in Workers : at'[v] = "consume" => at[v] = "consume" /\ UNCHANGED <<job[v], due[v], window[v]>>
      PROVE  QuotaKept' /\ Room'
  BY <1>a DEF QuotaKept, Room, TenantOf, stores
<1>1. ASSUME NEW r \in Requests, Send(r) \/ Receive(r) \/ GiveUp(r) PROVE QuotaKept' /\ Room'
  BY <1>1, <1>a DEF Send, Receive, GiveUp, server, stores
<1>2. ASSUME NEW w \in Workers, NEW r \in Requests, Take(w, r) PROVE QuotaKept' /\ Room'
  BY <1>2, <1>a DEF Take, Goto, client, TypeOK
<1>3. ASSUME NEW w \in Workers, CheckRequest(w) PROVE QuotaKept' /\ Room'
  BY <1>3, <1>a DEF CheckRequest, Check, Answer, Goto, client, TypeOK
<1>4. ASSUME NEW w \in Workers, VerifyToken(w) PROVE QuotaKept' /\ Room'
  BY <1>4, <1>a DEF VerifyToken, Check, Answer, Goto, client, TypeOK
<1>5. ASSUME NEW w \in Workers, KeysUnavailable(w) PROVE QuotaKept' /\ Room'
  BY <1>5, <1>a DEF KeysUnavailable, Answer, Goto, client, TypeOK
<1>6. ASSUME NEW w \in Workers, Provision(w) PROVE QuotaKept' /\ Room'
  BY <1>6 DEF Provision, Goto, client, TypeOK, QuotaKept, Room, TenantOf
<1>7. ASSUME NEW w \in Workers, Evaluate(w) PROVE QuotaKept' /\ Room'
  <2> DEFINE full == {b \in BucketsFor(kind[job[w]]) : usage[TenantOf(w)][day][b] >= Limit[b]}
  <2>0. BucketsFor(kind[job[w]]) \subseteq Buckets
    BY BucketsOfKinds
  <2>1. QuotaKept'
    BY <1>7 DEF Evaluate, stores, QuotaKept
  <2>2. CASE full # {}
    <3>1. Answer(w, "quota") /\ UNCHANGED <<client, stores>>
      BY <1>7, <2>2 DEF Evaluate
    <3> QED BY <3>1, <1>a DEF Answer, Goto, client, TypeOK
  <2>3. CASE full = {}
    <3>1. /\ window' = [window EXCEPT ![w] = day]
          /\ due' = [due EXCEPT ![w] = BucketsFor(kind[job[w]])]
          /\ UNCHANGED <<job, kind, usage>>
      BY <1>7, <2>3 DEF Evaluate, client, stores
    <3>2. job[w] \in Requests
      BY <1>7 DEF Evaluate, TypeOK
    <3>3. TenantOf(w) \in Tenants /\ TenantOf(w)' = TenantOf(w)
      BY <3>1, <3>2 DEF TenantOf, TypeOK
    <3>4. \A b \in BucketsFor(kind[job[w]]) : usage[TenantOf(w)][day][b] < Limit[b]
      <4> SUFFICES ASSUME NEW b \in BucketsFor(kind[job[w]])
                   PROVE  usage[TenantOf(w)][day][b] < Limit[b]
        OBVIOUS
      <4>1. b \in Buckets /\ b \notin full
        BY <2>0, <2>3
      <4>2. usage[TenantOf(w)][day][b] \in Nat /\ Limit[b] \in Nat
        BY <3>3, <4>1 DEF TypeOK
      <4> QED BY <4>1, <4>2
    <3>5. \A v \in Workers : v = w
      BY DEF OneWorker
    <3>6. due'[w] = BucketsFor(kind[job[w]]) /\ window'[w] = day
      BY <3>1 DEF TypeOK
    <3>7. Room'
      BY <3>1, <3>3, <3>4, <3>5, <3>6 DEF Room
    <3> QED BY <2>1, <3>7
  <2> QED BY <2>2, <2>3
<1>8. ASSUME NEW w \in Workers, Consume(w) PROVE QuotaKept' /\ Room'
  <2>1. PICK b \in due[w] : /\ usage' = [usage EXCEPT ![TenantOf(w)][window[w]][b] = @ + 1]
                            /\ due' = [due EXCEPT ![w] = @ \ {b}]
    BY <1>8 DEF Consume
  <2>2. /\ at[w] = "consume" /\ UNCHANGED <<job, kind, window>>
        /\ job[w] \in Requests
    BY <1>8 DEF Consume, client, TypeOK
  <2>3. TenantOf(w) \in Tenants /\ TenantOf(w)' = TenantOf(w) /\ b \in Buckets /\ window[w] \in Days
    BY <2>2 DEF TenantOf, TypeOK
  <2>4. usage[TenantOf(w)][window[w]][b] < Limit[b]
    BY <2>2 DEF Room
  <2>5. \A t \in Tenants, d \in Days, c \in Buckets :
          usage'[t][d][c] = IF t = TenantOf(w) /\ d = window[w] /\ c = b
                            THEN usage[t][d][c] + 1 ELSE usage[t][d][c]
    BY <2>1, <2>3 DEF TypeOK
  <2>6. \A t \in Tenants, d \in Days, c \in Buckets : usage[t][d][c] \in Nat /\ Limit[c] \in Nat
    BY DEF TypeOK
  <2>7. QuotaKept'
    BY <2>4, <2>5, <2>6 DEF QuotaKept
  <2>8. \A c \in due'[w] : c \in due[w] /\ c # b /\ c \in Buckets
    BY <2>1 DEF TypeOK
  <2>9. \A c \in due'[w] : usage'[TenantOf(w)][window[w]][c] < Limit[c]
    BY <2>2, <2>3, <2>5, <2>8 DEF Room
  <2>10. \A v \in Workers : v = w
    BY DEF OneWorker
  <2>11. Room'
    BY <2>2, <2>3, <2>9, <2>10 DEF Room
  <2> QED BY <2>7, <2>11
<1>9. ASSUME NEW w \in Workers, RunAudit(w) PROVE QuotaKept' /\ Room'
  BY <1>9, <1>a DEF RunAudit, Answer, Goto, client, TypeOK
<1>10. ASSUME Midnight PROVE QuotaKept' /\ Room'
  BY <1>10, <1>a DEF Midnight, client, server, stores
<1>11. ASSUME Restart PROVE QuotaKept' /\ Room'
  BY <1>11 DEF Restart, QuotaKept, Room, Unused
<1>12. CASE UNCHANGED vars
  BY <1>12, <1>a DEF vars, client, server, stores
<1> QED
  BY <1>1, <1>2, <1>3, <1>4, <1>5, <1>6, <1>7, <1>8, <1>9, <1>10, <1>11, <1>12
     DEF Next, Handler

\* With one handler at a time no bucket of a day exceeds the policy: the room
\* that evaluate_and_consume saw is still there when it charges.
THEOREM QuotaIsKept == ASSUME OneWorker PROVE Spec => []QuotaKept
<1>1. Init => TypeOK /\ QuotaKept /\ Room
  BY InitType, InitRoom
<1>2. (TypeOK /\ QuotaKept /\ Room) /\ [Next]_vars => (TypeOK /\ QuotaKept /\ Room)'
  BY NextType, NextRoom
<1> QED BY <1>1, <1>2, PTL DEF Spec

-----------------------------------------------------------------------------
(* Tenants                                                                 *)

\* A tenant is first seen before its quota is looked at, and stays known.
Provisioned ==
  /\ \A t \in Tenants : seen[t] # None => seen[t].first <= day
  /\ \A w \in Workers :
       /\ at[w] = "evaluate" => seen[TenantOf(w)] # None
       /\ at[w] = "consume" => seen[TenantOf(w)] # None /\ seen[TenantOf(w)].first <= window[w]

LEMMA InitProvisioned == Init => Provisioned /\ ChargedTenantsAreKnown
BY DEF Init, Provisioned, ChargedTenantsAreKnown, Unused

LEMMA NextProvisioned ==
  TypeOK /\ Provisioned /\ ChargedTenantsAreKnown /\ [Next]_vars
    => Provisioned' /\ ChargedTenantsAreKnown'
<1> USE HostedApiAssumption DEF HostedApiAssumption
<1> SUFFICES ASSUME TypeOK, Provisioned, ChargedTenantsAreKnown, [Next]_vars
             PROVE  Provisioned' /\ ChargedTenantsAreKnown'
  OBVIOUS
<1>a. ASSUME UNCHANGED <<kind, stores, day>>,
             \A v \in Workers : at'[v] \in {"evaluate", "consume"} =>
                                  at[v] = at'[v] /\ UNCHANGED <<job[v], window[v]>>
      PROVE  Provisioned' /\ ChargedTenantsAreKnown'
  BY <1>a DEF Provisioned, ChargedTenantsAreKnown, TenantOf, stores
<1>1. ASSUME NEW r \in Requests, Send(r) \/ Receive(r) \/ GiveUp(r)
      PROVE  Provisioned' /\ ChargedTenantsAreKnown'
  BY <1>1, <1>a DEF Send, Receive, GiveUp, server, stores
<1>2. ASSUME NEW w \in Workers, NEW r \in Requests, Take(w, r)
      PROVE  Provisioned' /\ ChargedTenantsAreKnown'
  BY <1>2, <1>a DEF Take, Goto, client, TypeOK
<1>3. ASSUME NEW w \in Workers, CheckRequest(w) PROVE Provisioned' /\ ChargedTenantsAreKnown'
  BY <1>3, <1>a DEF CheckRequest, Check, Answer, Goto, client, TypeOK
<1>4. ASSUME NEW w \in Workers, VerifyToken(w) PROVE Provisioned' /\ ChargedTenantsAreKnown'
  BY <1>4, <1>a DEF VerifyToken, Check, Answer, Goto, client, TypeOK
<1>5. ASSUME NEW w \in Workers, KeysUnavailable(w) PROVE Provisioned' /\ ChargedTenantsAreKnown'
  BY <1>5, <1>a DEF KeysUnavailable, Answer, Goto, client, TypeOK
<1>6. ASSUME NEW w \in Workers, Provision(w) PROVE Provisioned' /\ ChargedTenantsAreKnown'
  <2>1. TenantOf(w) \in Tenants
    BY <1>6 DEF Provision, TenantOf, TypeOK
  <2>2. /\ UNCHANGED <<kind, job, window, usage, day>>
        /\ \A v \in Workers : v # w => at'[v] = at[v]
        /\ at'[w] = "evaluate"
    BY <1>6 DEF Provision, Goto, client, TypeOK
  <2>3. /\ \A t \in Tenants : t # TenantOf(w) => seen'[t] = seen[t]
        /\ seen'[TenantOf(w)] = [first |-> IF seen[TenantOf(w)] = None THEN day
                                           ELSE seen[TenantOf(w)].first, last |-> day]
    BY <1>6, <2>1 DEF Provision, TypeOK
  <2>4. seen'[TenantOf(w)] # None
    <3>1. seen'[TenantOf(w)] \in [first : Nat, last : Nat]
      BY <2>1, <2>3 DEF TypeOK, Days
    <3> QED BY <3>1
  <2>5. seen[TenantOf(w)] # None => seen'[TenantOf(w)].first = seen[TenantOf(w)].first
    BY <2>3
  <2>6. seen[TenantOf(w)] = None => seen'[TenantOf(w)].first = day
    BY <2>3
  <2>7. day \in Nat
    BY DEF TypeOK, Days
  <2>8. \A v \in Workers : at[v] # "free" => TenantOf(v) \in Tenants /\ TenantOf(v)' = TenantOf(v)
    BY <2>2 DEF TenantOf, TypeOK
  <2>9. Provisioned'
    <3>1. \A t \in Tenants : seen'[t] # None => seen'[t].first <= day'
      BY <2>1, <2>2, <2>3, <2>5, <2>6, <2>7 DEF Provisioned
    <3>2. ASSUME NEW v \in Workers, at'[v] = "evaluate" PROVE seen'[TenantOf(v)'] # None
      <4>1. at[v] # "free"
        BY <3>2, <2>2, <1>6 DEF Provision
      <4>2. TenantOf(v)' \in Tenants /\ TenantOf(v)' = TenantOf(v)
        BY <4>1, <2>8
      <4>3. CASE v = w
        BY <4>2, <4>3, <2>4
      <4>4. CASE v # w
        BY <4>2, <4>4, <3>2, <2>2, <2>3, <2>4 DEF Provisioned
      <4> QED BY <4>3, <4>4
    <3>3. ASSUME NEW v \in Workers, at'[v] = "consume"
          PROVE  seen'[TenantOf(v)'] # None /\ seen'[TenantOf(v)'].first <= window'[v]
      <4>1. v # w /\ at[v] = "consume"
        BY <3>3, <2>2
      <4>2. TenantOf(v)' \in Tenants /\ TenantOf(v)' = TenantOf(v)
        BY <4>1, <2>8
      <4>3. seen[TenantOf(v)] # None /\ seen[TenantOf(v)].first <= window[v]
        BY <4>1 DEF Provisioned
      <4>4. CASE TenantOf(v) = TenantOf(w)
        BY <4>2, <4>3, <4>4, <2>2, <2>4, <2>5
      <4>5. CASE TenantOf(v) # TenantOf(w)
        BY <4>2, <4>3, <4>5, <2>2, <2>3
      <4> QED BY <4>4, <4>5
    <3> QED BY <3>1, <3>2, <3>3 DEF Provisioned
  <2>10. ChargedTenantsAreKnown'
    BY <2>1, <2>2, <2>3, <2>4, <2>5 DEF ChargedTenantsAreKnown
  <2> QED BY <2>9, <2>10
<1>7. ASSUME NEW w \in Workers, Evaluate(w) PROVE Provisioned' /\ ChargedTenantsAreKnown'
  <2>1. /\ UNCHANGED <<kind, stores, day>>
        /\ \A v \in Workers : v # w => UNCHANGED <<at[v], job[v], window[v]>>
        /\ at[w] = "evaluate"
        /\ \/ at'[w] = "free"
           \/ at'[w] = "consume" /\ window'[w] = day /\ UNCHANGED job
    BY <1>7 DEF Evaluate, Answer, Goto, client, TypeOK
  <2>2. \A v \in Workers : at[v] # "free" => TenantOf(v) \in Tenants
    BY DEF TenantOf, TypeOK
  <2>3. Provisioned'
    BY <2>1, <2>2 DEF Provisioned, TenantOf, stores
  <2> QED BY <2>1, <2>3 DEF ChargedTenantsAreKnown, stores
<1>8. ASSUME NEW w \in Workers, Consume(w) PROVE Provisioned' /\ ChargedTenantsAreKnown'
  <2>1. PICK b \in due[w] : usage' = [usage EXCEPT ![TenantOf(w)][window[w]][b] = @ + 1]
    BY <1>8 DEF Consume
  <2>2. /\ at[w] = "consume" /\ UNCHANGED <<kind, job, window, seen, day>>
        /\ \A v \in Workers : v # w => UNCHANGED at[v]
        /\ at'[w] \in {"consume", "run"}
    BY <1>8 DEF Consume, Goto, client, TypeOK
  <2>3. TenantOf(w) \in Tenants /\ b \in Buckets /\ window[w] \in Days
    BY <2>2 DEF TenantOf, TypeOK
  <2>4. \A t \in Tenants, d \in Days, c \in Buckets :
          usage'[t][d][c] = IF t = TenantOf(w) /\ d = window[w] /\ c = b
                            THEN usage[t][d][c] + 1 ELSE usage[t][d][c]
    BY <2>1, <2>3 DEF TypeOK
  <2>5. Provisioned'
    BY <2>2 DEF Provisioned, TenantOf
  <2>6. seen[TenantOf(w)] # None /\ seen[TenantOf(w)].first <= window[w]
    BY <2>2 DEF Provisioned
  <2>7. ChargedTenantsAreKnown'
    BY <2>2, <2>3, <2>4, <2>6 DEF ChargedTenantsAreKnown
  <2> QED BY <2>5, <2>7
<1>9. ASSUME NEW w \in Workers, RunAudit(w) PROVE Provisioned' /\ ChargedTenantsAreKnown'
  BY <1>9, <1>a DEF RunAudit, Answer, Goto, client, TypeOK
<1>10. ASSUME Midnight PROVE Provisioned' /\ ChargedTenantsAreKnown'
  <2>1. \A t \in Tenants : seen[t] # None => seen[t].first \in Nat
    BY DEF TypeOK, Days
  <2> QED BY <1>10, <2>1 DEF Midnight, client, server, stores, Provisioned, ChargedTenantsAreKnown,
               TenantOf, TypeOK, Days
<1>11. ASSUME Restart PROVE Provisioned' /\ ChargedTenantsAreKnown'
  BY <1>11 DEF Restart, Provisioned, ChargedTenantsAreKnown, Unused
<1>12. CASE UNCHANGED vars
  BY <1>12, <1>a DEF vars, client, server, stores
<1> QED
  BY <1>1, <1>2, <1>3, <1>4, <1>5, <1>6, <1>7, <1>8, <1>9, <1>10, <1>11, <1>12
     DEF Next, Handler

\* Only verified tenants are charged, and for no day before their first,
\* whatever the number of threads.
THEOREM ChargesAreKnown == Spec => []ChargedTenantsAreKnown
<1>1. Init => TypeOK /\ Provisioned /\ ChargedTenantsAreKnown
  BY InitType, InitProvisioned
<1>2. (TypeOK /\ Provisioned /\ ChargedTenantsAreKnown) /\ [Next]_vars
        => (TypeOK /\ Provisioned /\ ChargedTenantsAreKnown)'
  BY NextType, NextProvisioned
<1> QED BY <1>1, <1>2, PTL DEF Spec

-----------------------------------------------------------------------------
(* Accounts                                                                *)

\* A request is in one hand, until it has its answer; it passed the quota only
\* if it is being charged or audited, or has its answer.
OneHand ==
  /\ \A v, w \in Workers : at[v] # "free" /\ at[w] # "free" /\ job[v] = job[w] => v = w
  /\ \A w \in Workers : at[w] # "free" => reply[job[w]] = "none"
  /\ \A r \in Requests : granted[r] # None =>
       \/ reply[r] # "none"
       \/ \E w \in Workers : job[w] = r /\ at[w] \in {"consume", "run"}

LEMMA InitOneHand == Init => OneHand
BY DEF Init, OneHand

LEMMA NextOneHand == TypeOK /\ OneHand /\ [Next]_vars => OneHand'
<1> USE HostedApiAssumption DEF HostedApiAssumption
<1> SUFFICES ASSUME TypeOK, OneHand, [Next]_vars PROVE OneHand'
  OBVIOUS
<1>a. \A x \in Replies : x # "none"
  BY DEF Replies, Rejection, Failures, Faults, BeforeKeys, AfterKeys
<1>b. ASSUME NEW w \in Workers, at[w] # "free" PROVE job[w] \in Requests
  BY <1>b DEF TypeOK
<1>c. ASSUME NEW w \in Workers, at[w] # "free", NEW x \in Replies, Answer(w, x),
             UNCHANGED granted
      PROVE  OneHand'
  BY <1>a, <1>b, <1>c DEF Answer, Goto, OneHand, TypeOK
<1>d. ASSUME NEW w \in Workers, at[w] # "free", NEW s, s # "free", Goto(w, s),
             at[w] \in {"consume", "run"} => s \in {"consume", "run"},
             UNCHANGED <<job, reply, granted>>
      PROVE  OneHand'
  BY <1>b, <1>d DEF Goto, OneHand, TypeOK
<1>1. ASSUME NEW r \in Requests, Send(r) \/ Receive(r) \/ GiveUp(r) PROVE OneHand'
  BY <1>1 DEF Send, Receive, GiveUp, server, stores, OneHand
<1>2. ASSUME NEW w \in Workers, NEW r \in Requests, Take(w, r) PROVE OneHand'
  <2>1. \A v \in Workers : v # w => UNCHANGED <<at[v], job[v]>>
    BY <1>2 DEF Take, Goto, TypeOK
  <2>2. job'[w] = r /\ at'[w] = "check" /\ at[w] = "free" /\ reply[r] = "none"
        /\ (\A v \in Workers : job[v] # r) /\ UNCHANGED <<reply, granted>>
    BY <1>2 DEF Take, Goto, TypeOK
  <2> QED BY <2>1, <2>2 DEF OneHand
<1>3. ASSUME NEW w \in Workers, CheckRequest(w) PROVE OneHand'
  <2>1. CASE Passes(BeforeKeys, kind[job[w]].faults)
    BY <1>3, <2>1, <1>d DEF CheckRequest, Check
  <2>2. CASE ~Passes(BeforeKeys, kind[job[w]].faults)
    <3>1. FirstOf(BeforeKeys, kind[job[w]].faults) \in Replies
      BY <2>2, FirstBefore DEF Replies, Rejection
    <3> QED BY <1>3, <2>2, <3>1, <1>c DEF CheckRequest, Check
  <2> QED BY <2>1, <2>2
<1>4. ASSUME NEW w \in Workers, VerifyToken(w) PROVE OneHand'
  <2>1. CASE Passes(AfterKeys, kind[job[w]].faults)
    BY <1>4, <2>1, <1>d DEF VerifyToken, Check
  <2>2. CASE ~Passes(AfterKeys, kind[job[w]].faults)
    <3>1. FirstOf(AfterKeys, kind[job[w]].faults) \in Replies
      BY <2>2, FirstAfter DEF Replies, Rejection
    <3> QED BY <1>4, <2>2, <3>1, <1>c DEF VerifyToken, Check
  <2> QED BY <2>1, <2>2
<1>5. ASSUME NEW w \in Workers, KeysUnavailable(w) PROVE OneHand'
  BY <1>5, <1>c DEF KeysUnavailable, Replies, Rejection
<1>6. ASSUME NEW w \in Workers, Provision(w) PROVE OneHand'
  BY <1>6, <1>d DEF Provision
<1>7. ASSUME NEW w \in Workers, Evaluate(w) PROVE OneHand'
  <2> DEFINE full == {b \in BucketsFor(kind[job[w]]) : usage[TenantOf(w)][day][b] >= Limit[b]}
  <2>1. CASE full = {}
    <3>1. /\ at' = [at EXCEPT ![w] = "consume"] /\ at[w] = "evaluate"
          /\ granted' = [granted EXCEPT ![job[w]] = day]
          /\ UNCHANGED <<job, reply>>
      BY <1>7, <2>1 DEF Evaluate, Goto
    <3> QED BY <3>1, <1>b DEF OneHand, TypeOK
  <2>2. CASE full # {}
    BY <1>7, <2>2, <1>c DEF Evaluate, Replies, Rejection
  <2> QED BY <2>1, <2>2
<1>8. ASSUME NEW w \in Workers, Consume(w) PROVE OneHand'
  BY <1>8, <1>d DEF Consume
<1>9. ASSUME NEW w \in Workers, RunAudit(w) PROVE OneHand'
  BY <1>9, <1>c DEF RunAudit, Replies
<1>10. ASSUME Midnight PROVE OneHand'
  BY <1>10 DEF Midnight, client, server, stores, OneHand
<1>11. ASSUME Restart PROVE OneHand'
  BY <1>11 DEF Restart, OneHand
<1>12. CASE UNCHANGED vars
  BY <1>12 DEF vars, client, server, stores, OneHand
<1> QED
  BY <1>1, <1>2, <1>3, <1>4, <1>5, <1>6, <1>7, <1>8, <1>9, <1>10, <1>11, <1>12
     DEF Next, Handler

LEMMA InitAccounts == Init => AccountsAgree
<1> SUFFICES ASSUME Init, NEW t \in Tenants, NEW d \in Days, NEW b \in Buckets
             PROVE  usage[t][d][b] + Cardinality(Owed(t, d, b)) = Cardinality(Passed(t, d, b))
  BY DEF AccountsAgree
<1>1. Owed(t, d, b) = {}
  BY DEF Init, Owed
<1>2. Passed(t, d, b) = {}
  BY HostedApiAssumption DEF HostedApiAssumption, Init, Passed, Days
<1> QED BY <1>1, <1>2, FS_EmptySet DEF Init, Unused

LEMMA NextAccounts == TypeOK /\ OneHand /\ AccountsAgree /\ [Next]_vars => AccountsAgree'
<1> USE HostedApiAssumption DEF HostedApiAssumption
<1> SUFFICES ASSUME TypeOK, OneHand, AccountsAgree, [Next]_vars,
                    NEW t \in Tenants, NEW d \in Days, NEW b \in Buckets
             PROVE  usage'[t][d][b] + Cardinality(Owed(t, d, b)') = Cardinality(Passed(t, d, b)')
  BY DEF AccountsAgree
<1>a. usage[t][d][b] + Cardinality(Owed(t, d, b)) = Cardinality(Passed(t, d, b))
  BY DEF AccountsAgree
<1>b. IsFiniteSet(Owed(t, d, b)) /\ IsFiniteSet(Passed(t, d, b))
  BY FS_Subset DEF Owed, Passed
<1>c. /\ Cardinality(Owed(t, d, b)) \in Nat /\ Cardinality(Passed(t, d, b)) \in Nat
      /\ usage[t][d][b] \in Nat
  BY <1>b, FS_CardinalityType DEF TypeOK
<1>d. ASSUME UNCHANGED <<kind, usage, granted>>,
             \A w \in Workers : (at[w] = "consume" \/ at'[w] = "consume") =>
                                  UNCHANGED <<at[w], job[w], window[w], due[w]>>
      PROVE  usage'[t][d][b] + Cardinality(Owed(t, d, b)') = Cardinality(Passed(t, d, b)')
  <2>1. Owed(t, d, b)' = Owed(t, d, b)
    BY <1>d DEF Owed, TenantOf
  <2>2. Passed(t, d, b)' = Passed(t, d, b)
    BY <1>d DEF Passed
  <2> QED BY <1>a, <1>d, <2>1, <2>2
<1>1. ASSUME NEW r \in Requests, Send(r) \/ Receive(r) \/ GiveUp(r)
      PROVE  usage'[t][d][b] + Cardinality(Owed(t, d, b)') = Cardinality(Passed(t, d, b)')
  BY <1>1, <1>d DEF Send, Receive, GiveUp, server, stores
<1>2. ASSUME NEW w \in Workers, NEW r \in Requests, Take(w, r)
      PROVE  usage'[t][d][b] + Cardinality(Owed(t, d, b)') = Cardinality(Passed(t, d, b)')
  BY <1>2, <1>d DEF Take, Goto, client, stores, TypeOK
<1>3. ASSUME NEW w \in Workers, CheckRequest(w) \/ VerifyToken(w)
      PROVE  usage'[t][d][b] + Cardinality(Owed(t, d, b)') = Cardinality(Passed(t, d, b)')
  BY <1>3, <1>d DEF CheckRequest, VerifyToken, Check, Answer, Goto, client, stores, TypeOK
<1>4. ASSUME NEW w \in Workers, KeysUnavailable(w) \/ Provision(w) \/ RunAudit(w)
      PROVE  usage'[t][d][b] + Cardinality(Owed(t, d, b)') = Cardinality(Passed(t, d, b)')
  BY <1>4, <1>d DEF KeysUnavailable, Provision, RunAudit, Answer, Goto, client, stores, TypeOK
<1>5. ASSUME NEW w \in Workers, Evaluate(w)
      PROVE  usage'[t][d][b] + Cardinality(Owed(t, d, b)') = Cardinality(Passed(t, d, b)')
  <2> DEFINE buckets == BucketsFor(kind[job[w]])
             full == {c \in buckets : usage[TenantOf(w)][day][c] >= Limit[c]}
             mine == t = TenantOf(w) /\ d = day /\ b \in buckets
  <2>1. CASE full # {}
    <3>1. Answer(w, "quota") /\ UNCHANGED <<client, stores, granted>> /\ at[w] = "evaluate"
      BY <1>5, <2>1 DEF Evaluate
    <3> QED BY <3>1, <1>d DEF Answer, Goto, client, stores, TypeOK
  <2>2. CASE full = {}
    <3>1. /\ window' = [window EXCEPT ![w] = day]
          /\ due' = [due EXCEPT ![w] = buckets]
          /\ at' = [at EXCEPT ![w] = "consume"] /\ at[w] = "evaluate"
          /\ granted' = [granted EXCEPT ![job[w]] = day]
          /\ UNCHANGED <<kind, job, usage>>
      BY <1>5, <2>2 DEF Evaluate, Goto, client, stores
    <3>2. job[w] \in Requests /\ granted[job[w]] = None
      <4>1. job[w] \in Requests
        BY <3>1 DEF TypeOK
      <4>2. at[w] \in {"check", "keys", "provision", "evaluate"}
        BY <3>1
      <4> QED BY <4>1, <4>2 DEF OneHand
    <3>3. /\ window'[w] = day /\ due'[w] = buckets /\ at'[w] = "consume"
          /\ \A v \in Workers : v # w => UNCHANGED <<window[v], due[v], at[v]>>
          /\ granted'[job[w]] = day
          /\ \A r \in Requests : r # job[w] => granted'[r] = granted[r]
      BY <3>1, <3>2 DEF TypeOK
    <3>4. w \notin Owed(t, d, b) /\ job[w] \notin Passed(t, d, b)
      BY <3>1, <3>2 DEF Owed, Passed, Days
    <3>5. Owed(t, d, b)' = IF mine THEN Owed(t, d, b) \cup {w} ELSE Owed(t, d, b)
      BY <3>1, <3>3, <3>4 DEF Owed, TenantOf
    <3>6. Passed(t, d, b)' = IF mine THEN Passed(t, d, b) \cup {job[w]} ELSE Passed(t, d, b)
      <4>1. \A r \in Requests : r # job[w] => (r \in Passed(t, d, b)' <=> r \in Passed(t, d, b))
        BY <3>1, <3>3 DEF Passed
      <4>2. job[w] \in Passed(t, d, b)' <=> mine
        BY <3>1, <3>2, <3>3 DEF Passed, TenantOf
      <4>3. Passed(t, d, b)' \subseteq Requests /\ Passed(t, d, b) \subseteq Requests
        BY DEF Passed
      <4> HIDE DEF mine
      <4>4. CASE mine
        BY <3>2, <4>1, <4>2, <4>3, <4>4
      <4>5. CASE ~mine
        BY <3>4, <4>1, <4>2, <4>3, <4>5
      <4> QED BY <4>4, <4>5
    <3>7. CASE mine
      <4>1. Owed(t, d, b)' = Owed(t, d, b) \cup {w} /\ Passed(t, d, b)' = Passed(t, d, b) \cup {job[w]}
        BY <3>5, <3>6, <3>7
      <4>2. Cardinality(Owed(t, d, b) \cup {w}) = Cardinality(Owed(t, d, b)) + 1
        BY <1>b, <3>4, FS_AddElement
      <4>3. Cardinality(Passed(t, d, b) \cup {job[w]}) = Cardinality(Passed(t, d, b)) + 1
        BY <1>b, <3>4, FS_AddElement
      <4> HIDE DEF mine
      <4> QED BY <1>a, <1>c, <3>1, <4>1, <4>2, <4>3
    <3>8. CASE ~mine
      BY <1>a, <3>1, <3>5, <3>6, <3>8
    <3> QED BY <3>7, <3>8
  <2> QED BY <2>1, <2>2
<1>6. ASSUME NEW w \in Workers, Consume(w)
      PROVE  usage'[t][d][b] + Cardinality(Owed(t, d, b)') = Cardinality(Passed(t, d, b)')
  <2>1. PICK c \in due[w] : /\ usage' = [usage EXCEPT ![TenantOf(w)][window[w]][c] = @ + 1]
                            /\ due' = [due EXCEPT ![w] = @ \ {c}]
                            /\ Goto(w, IF due[w] = {c} THEN "run" ELSE "consume")
    BY <1>6 DEF Consume
  <2> DEFINE mine == t = TenantOf(w) /\ d = window[w] /\ b = c
  <2>2. at[w] = "consume" /\ UNCHANGED <<kind, job, window, granted>>
    BY <1>6 DEF Consume, client
  <2>3. TenantOf(w) \in Tenants /\ c \in Buckets /\ window[w] \in Days
    BY <2>2 DEF TenantOf, TypeOK
  <2>4. usage'[t][d][b] = IF mine THEN usage[t][d][b] + 1 ELSE usage[t][d][b]
    BY <2>1, <2>3 DEF TypeOK
  <2>5. /\ due'[w] = due[w] \ {c} /\ at'[w] = (IF due[w] = {c} THEN "run" ELSE "consume")
        /\ \A v \in Workers : v # w => UNCHANGED <<due[v], at[v]>>
    BY <2>1 DEF Goto, TypeOK
  <2>6. Owed(t, d, b)' = IF mine THEN Owed(t, d, b) \ {w} ELSE Owed(t, d, b)
    BY <2>2, <2>5 DEF Owed, TenantOf
  <2>7. mine => w \in Owed(t, d, b)
    BY <2>2 DEF Owed
  <2>8. Passed(t, d, b)' = Passed(t, d, b)
    BY <2>2 DEF Passed
  <2>9. CASE mine
    <3>1. Owed(t, d, b)' = Owed(t, d, b) \ {w}
      BY <2>6, <2>9
    <3>2. Cardinality(Owed(t, d, b) \ {w}) = Cardinality(Owed(t, d, b)) - 1
      BY <1>b, <2>7, <2>9, FS_RemoveElement
    <3>3. usage'[t][d][b] = usage[t][d][b] + 1
      BY <2>4, <2>9
    <3> QED BY <1>a, <1>c, <2>8, <3>1, <3>2, <3>3
  <2>10. CASE ~mine
    BY <1>a, <2>4, <2>6, <2>8, <2>10
  <2> QED BY <2>9, <2>10
<1>7. ASSUME Midnight
      PROVE  usage'[t][d][b] + Cardinality(Owed(t, d, b)') = Cardinality(Passed(t, d, b)')
  BY <1>7, <1>d DEF Midnight, client, server, stores
<1>8. ASSUME Restart
      PROVE  usage'[t][d][b] + Cardinality(Owed(t, d, b)') = Cardinality(Passed(t, d, b)')
  <2>1. Owed(t, d, b)' = {}
    BY <1>8 DEF Restart, Owed
  <2>2. Passed(t, d, b)' = {}
    BY <1>8 DEF Restart, Passed, Days
  <2>3. usage'[t][d][b] = 0
    BY <1>8 DEF Restart, Unused
  <2> QED BY <2>1, <2>2, <2>3, FS_EmptySet
<1>9. CASE UNCHANGED vars
  BY <1>9, <1>d DEF vars, client, server, stores
<1> QED
  BY <1>1, <1>2, <1>3, <1>4, <1>5, <1>6, <1>7, <1>8, <1>9 DEF Next, Handler

\* Usage is exactly what was granted, with every number of handlers whose single
\* charges (_usage[key] = get + 1) are atomic: nothing that is refused is
\* charged, and nothing granted is charged twice.
THEOREM AccountsAreExact == Spec => []AccountsAgree
<1>1. Init => TypeOK /\ OneHand /\ AccountsAgree
  BY InitType, InitOneHand, InitAccounts
<1>2. (TypeOK /\ OneHand /\ AccountsAgree) /\ [Next]_vars => (TypeOK /\ OneHand /\ AccountsAgree)'
  BY NextType, NextOneHand, NextAccounts
<1> QED BY <1>1, <1>2, PTL DEF Spec

-----------------------------------------------------------------------------
(* The promise                                                             *)

LEMMA OwedCounts ==
  ASSUME NEW t, NEW d, NEW b
  PROVE  IsFiniteSet(Owed(t, d, b)) /\ Cardinality(Owed(t, d, b)) \in Nat
<1>1. IsFiniteSet(Owed(t, d, b))
  BY HostedApiAssumption, FS_Subset DEF HostedApiAssumption, Owed
<1> QED BY <1>1, FS_CardinalityType

\* A handler that looks owes nothing itself, so the units charged or owed are
\* within the ceiling where it sees room.
LEMMA RoomForAll ==
  ASSUME TypeOK, NEW w \in Workers, at[w] = "evaluate",
         NEW t \in Tenants, NEW d \in Days, NEW b \in Buckets, usage[t][d][b] < Limit[b]
  PROVE  usage[t][d][b] + Cardinality(Owed(t, d, b)) < Ceiling[b]
<1>1. IsFiniteSet(Workers) /\ Limit[b] \in Nat
  BY HostedApiAssumption DEF HostedApiAssumption
<1>2. IsFiniteSet(Workers \ {w}) /\ Cardinality(Workers \ {w}) = Cardinality(Workers) - 1
  BY <1>1, FS_RemoveElement
<1>3. Owed(t, d, b) \subseteq Workers \ {w}
  BY DEF Owed
<1>4. Cardinality(Owed(t, d, b)) <= Cardinality(Workers) - 1
  BY <1>2, <1>3, FS_Subset
<1>5. usage[t][d][b] \in Nat /\ Cardinality(Workers) \in Nat
  BY <1>1, FS_CardinalityType DEF TypeOK
<1> QED BY <1>1, <1>4, <1>5, OwedCounts DEF Ceiling

\* Evaluate grants all the buckets of its request at once.
LEMMA EvaluateGrants ==
  ASSUME TypeOK, NEW w \in Workers, Evaluate(w),
         {b \in BucketsFor(kind[job[w]]) : usage[TenantOf(w)][day][b] >= Limit[b]} = {}
  PROVE  Quota!Grant(TenantOf(w), BucketsFor(kind[job[w]]))
<1> DEFINE u == TenantOf(w)
           use == BucketsFor(kind[job[w]])
<1>1. /\ at[w] = "evaluate" /\ at' = [at EXCEPT ![w] = "consume"]
      /\ window' = [window EXCEPT ![w] = day] /\ due' = [due EXCEPT ![w] = use]
      /\ UNCHANGED <<kind, job, usage, day>>
  BY DEF Evaluate, Goto, client, stores
<1>2. u \in Tenants /\ day \in Days /\ use \subseteq Buckets
  BY <1>1, HostedApiAssumption, BucketsOfKinds DEF HostedApiAssumption, TenantOf, TypeOK
<1>3. /\ window'[w] = day /\ due'[w] = use /\ at'[w] = "consume"
      /\ \A v \in Workers : v # w => UNCHANGED <<window[v], due[v], at[v]>>
  BY <1>1 DEF TypeOK
<1>4. \A b \in use : Charged[u][day][b] < Ceiling[b]
  <2> SUFFICES ASSUME NEW b \in use PROVE Charged[u][day][b] < Ceiling[b]
    OBVIOUS
  <2>1. usage[u][day][b] \in Nat /\ Limit[b] \in Nat
    BY <1>2, HostedApiAssumption DEF HostedApiAssumption, TypeOK
  <2>2. usage[u][day][b] < Limit[b]
    BY <2>1
  <2> QED BY <1>1, <1>2, <2>2, RoomForAll DEF Charged
<1>5. \A t \in Tenants, d \in Days, b \in Buckets :
        Charged'[t][d][b] = IF t = u /\ d = day /\ b \in use
                            THEN Charged[t][d][b] + 1 ELSE Charged[t][d][b]
  <2> SUFFICES ASSUME NEW t \in Tenants, NEW d \in Days, NEW b \in Buckets
               PROVE  Charged'[t][d][b] = IF t = u /\ d = day /\ b \in use
                                          THEN Charged[t][d][b] + 1 ELSE Charged[t][d][b]
    OBVIOUS
  <2> DEFINE mine == t = u /\ d = day /\ b \in use
  <2>1. w \notin Owed(t, d, b)
    BY <1>1 DEF Owed
  <2>2. Owed(t, d, b)' = IF mine THEN Owed(t, d, b) \cup {w} ELSE Owed(t, d, b)
    BY <1>1, <1>3, <2>1 DEF Owed, TenantOf
  <2>3. Cardinality(Owed(t, d, b) \cup {w}) = Cardinality(Owed(t, d, b)) + 1
    BY <2>1, OwedCounts, FS_AddElement
  <2>4. Charged[t][d][b] = usage[t][d][b] + Cardinality(Owed(t, d, b))
    BY DEF Charged
  <2>5. Charged'[t][d][b] = usage[t][d][b] + Cardinality(Owed(t, d, b)')
    BY <1>1 DEF Charged
  <2>6. usage[t][d][b] \in Nat /\ Cardinality(Owed(t, d, b)) \in Nat
    BY OwedCounts DEF TypeOK
  <2>7. CASE mine
    BY <2>2, <2>3, <2>4, <2>5, <2>6, <2>7
  <2>8. CASE ~mine
    BY <2>2, <2>4, <2>5, <2>8
  <2> QED BY <2>7, <2>8
<1>6. Charged' = [Charged EXCEPT ![u][day] =
                    [b \in Buckets |-> IF b \in use THEN @[b] + 1 ELSE @[b]]]
  <2> DEFINE New == [b \in Buckets |-> IF b \in use THEN Charged[u][day][b] + 1
                                      ELSE Charged[u][day][b]]
  <2>1. \A t \in Tenants, d \in Days :
          /\ Charged'[t][d] = [b \in Buckets |-> Charged'[t][d][b]]
          /\ Charged[t][d] = [b \in Buckets |-> Charged[t][d][b]]
    BY DEF Charged
  <2>2. \A t \in Tenants, d \in Days :
          Charged'[t][d] = IF t = u /\ d = day THEN New ELSE Charged[t][d]
    <3> SUFFICES ASSUME NEW t \in Tenants, NEW d \in Days
                 PROVE  Charged'[t][d] = IF t = u /\ d = day THEN New ELSE Charged[t][d]
      OBVIOUS
    <3> HIDE DEF u, use
    <3>1. CASE t = u /\ d = day
      <4>1. \A b \in Buckets : Charged'[t][d][b] = IF b \in use THEN Charged[u][day][b] + 1
                                                                ELSE Charged[u][day][b]
        BY <1>5, <3>1
      <4>2. Charged'[t][d] = [b \in Buckets |-> Charged'[t][d][b]]
        BY <2>1
      <4> HIDE DEF New
      <4>3. New = [b \in Buckets |-> IF b \in use THEN Charged[u][day][b] + 1 ELSE Charged[u][day][b]]
        BY DEF New
      <4>4. Charged'[t][d] = New
        BY <4>1, <4>2, <4>3
      <4> QED BY <3>1, <4>4
    <3>2. CASE ~(t = u /\ d = day)
      <4>1. \A b \in Buckets : Charged'[t][d][b] = Charged[t][d][b]
        BY <1>5, <3>2
      <4>2. /\ Charged'[t][d] = [b \in Buckets |-> Charged'[t][d][b]]
            /\ Charged[t][d] = [b \in Buckets |-> Charged[t][d][b]]
        BY <2>1
      <4>3. Charged'[t][d] = Charged[t][d]
        BY <4>1, <4>2
      <4> QED BY <3>2, <4>3
    <3> QED BY <3>1, <3>2
  <2>3. \A t \in Tenants : Charged'[t] = [d \in Days |-> Charged'[t][d]]
    BY DEF Charged
  <2>4. \A t \in Tenants : Charged[t] = [d \in Days |-> Charged[t][d]]
    BY DEF Charged
  <2>5. Charged' = [t \in Tenants |-> Charged'[t]] /\ Charged = [t \in Tenants |-> Charged[t]]
    BY DEF Charged
  <2> HIDE DEF New
  <2>6. Charged'[u] = [Charged[u] EXCEPT ![day] = New]
    BY <1>2, <2>2, <2>3, <2>4
  <2>7. \A t \in Tenants : t # u => Charged'[t] = Charged[t]
    BY <2>2, <2>3, <2>4
  <2>8. Charged' = [Charged EXCEPT ![u] = [Charged[u] EXCEPT ![day] = New]]
    BY <1>2, <2>5, <2>6, <2>7
  <2> QED BY <2>8 DEF New
<1> QED BY <1>1, <1>4, <1>6 DEF Quota!Grant

\* What is charged was owed before: the units stay the same.
LEMMA ConsumeKeepsUnits ==
  ASSUME TypeOK, NEW w \in Workers, Consume(w)
  PROVE  Charged' = Charged
<1>1. PICK c \in due[w] : /\ usage' = [usage EXCEPT ![TenantOf(w)][window[w]][c] = @ + 1]
                          /\ due' = [due EXCEPT ![w] = @ \ {c}]
                          /\ Goto(w, IF due[w] = {c} THEN "run" ELSE "consume")
  BY DEF Consume
<1>2. at[w] = "consume" /\ UNCHANGED <<kind, job, window>>
  BY DEF Consume, client
<1>3. TenantOf(w) \in Tenants /\ c \in Buckets /\ window[w] \in Days
  BY <1>2, HostedApiAssumption DEF HostedApiAssumption, TenantOf, TypeOK
<1>4. /\ due'[w] = due[w] \ {c} /\ at'[w] = (IF due[w] = {c} THEN "run" ELSE "consume")
      /\ \A v \in Workers : v # w => UNCHANGED <<due[v], at[v]>>
  BY <1>1 DEF Goto, TypeOK
<1>5. ASSUME NEW t \in Tenants, NEW d \in Days, NEW b \in Buckets
      PROVE  usage'[t][d][b] + Cardinality(Owed(t, d, b)') = usage[t][d][b] + Cardinality(Owed(t, d, b))
  <2> DEFINE mine == t = TenantOf(w) /\ d = window[w] /\ b = c
  <2>1. usage'[t][d][b] = IF mine THEN usage[t][d][b] + 1 ELSE usage[t][d][b]
    BY <1>1, <1>3 DEF TypeOK
  <2>2. Owed(t, d, b)' = IF mine THEN Owed(t, d, b) \ {w} ELSE Owed(t, d, b)
    BY <1>2, <1>4 DEF Owed, TenantOf
  <2>3. mine => w \in Owed(t, d, b)
    BY <1>2 DEF Owed
  <2>4. mine => Cardinality(Owed(t, d, b) \ {w}) = Cardinality(Owed(t, d, b)) - 1
    BY <2>3, OwedCounts, FS_RemoveElement
  <2>5. usage[t][d][b] \in Nat /\ Cardinality(Owed(t, d, b)) \in Nat
    BY OwedCounts DEF TypeOK
  <2> HIDE DEF mine
  <2> QED BY <2>1, <2>2, <2>4, <2>5
<1> QED BY <1>5 DEF Charged

\* Every step of the server is a grant, a new day or a restart of the quota, or
\* changes nothing of it.
LEMMA NextQuota ==
  ASSUME TypeOK, [Next]_vars PROVE [Quota!Next]_(Quota!vars)
<1>a. ASSUME UNCHANGED <<kind, usage, day>>,
             \A w \in Workers : (at[w] = "consume" \/ at'[w] = "consume") =>
                                  UNCHANGED <<at[w], job[w], window[w], due[w]>>
      PROVE  Quota!vars' = Quota!vars
  <2>1. \A t \in Tenants, d \in Days, b \in Buckets : Owed(t, d, b)' = Owed(t, d, b)
    BY <1>a DEF Owed, TenantOf
  <2>2. Charged' = Charged
    BY <1>a, <2>1 DEF Charged
  <2> QED BY <1>a, <2>2 DEF Quota!vars
<1>1. ASSUME NEW r \in Requests, Send(r) \/ Receive(r) \/ GiveUp(r) PROVE Quota!vars' = Quota!vars
  BY <1>1, <1>a DEF Send, Receive, GiveUp, server, stores
<1>2. ASSUME NEW w \in Workers, NEW r \in Requests, Take(w, r) PROVE Quota!vars' = Quota!vars
  BY <1>2, <1>a DEF Take, Goto, client, stores, TypeOK
<1>3. ASSUME NEW w \in Workers, CheckRequest(w) \/ VerifyToken(w) PROVE Quota!vars' = Quota!vars
  BY <1>3, <1>a DEF CheckRequest, VerifyToken, Check, Answer, Goto, client, stores, TypeOK
<1>4. ASSUME NEW w \in Workers, KeysUnavailable(w) \/ Provision(w) \/ RunAudit(w)
      PROVE  Quota!vars' = Quota!vars
  BY <1>4, <1>a DEF KeysUnavailable, Provision, RunAudit, Answer, Goto, client, stores, TypeOK
<1>5. ASSUME NEW w \in Workers, Evaluate(w) PROVE [Quota!Next]_(Quota!vars)
  <2> DEFINE full == {b \in BucketsFor(kind[job[w]]) : usage[TenantOf(w)][day][b] >= Limit[b]}
  <2>1. CASE full = {}
    <3>1. Quota!Grant(TenantOf(w), BucketsFor(kind[job[w]]))
      BY <1>5, <2>1, EvaluateGrants
    <3>2. kind[job[w]] \in Kinds
      BY <1>5 DEF Evaluate, TypeOK
    <3>3. TenantOf(w) \in Tenants /\ BucketsFor(kind[job[w]]) \in Uses
      BY <3>2, HostedApiAssumption DEF HostedApiAssumption, TenantOf, Uses
    <3> QED BY <3>1, <3>3 DEF Quota!Next
  <2>2. CASE full # {}
    <3>1. Answer(w, "quota") /\ UNCHANGED <<client, stores, day>> /\ at[w] = "evaluate"
      BY <1>5, <2>2 DEF Evaluate
    <3> QED BY <3>1, <1>a DEF Answer, Goto, client, stores, TypeOK
  <2> QED BY <2>1, <2>2
<1>6. ASSUME NEW w \in Workers, Consume(w) PROVE Quota!vars' = Quota!vars
  BY <1>6, ConsumeKeepsUnits DEF Consume, Quota!vars
<1>7. ASSUME Midnight PROVE [Quota!Next]_(Quota!vars)
  <2>1. \A t \in Tenants, d \in Days, b \in Buckets : Owed(t, d, b)' = Owed(t, d, b)
    BY <1>7 DEF Midnight, client, server, Owed, TenantOf
  <2>2. Charged' = Charged
    BY <1>7, <2>1 DEF Charged, Midnight, stores
  <2>3. day' = day + 1 /\ day + 1 \in Days
    BY <1>7, HostedApiAssumption DEF HostedApiAssumption, Midnight, TypeOK, Days
  <2>4. Quota!NewDay
    BY <2>2, <2>3 DEF Quota!NewDay
  <2> QED BY <2>4 DEF Quota!Next
<1>8. ASSUME Restart PROVE [Quota!Next]_(Quota!vars)
  <2>1. \A t \in Tenants, d \in Days, b \in Buckets : Owed(t, d, b)' = {} /\ usage'[t][d][b] = 0
    BY <1>8 DEF Restart, Owed, Unused
  <2>2. ASSUME NEW t \in Tenants, NEW d \in Days, NEW b \in Buckets
        PROVE  usage'[t][d][b] + Cardinality(Owed(t, d, b)') = 0
    <3>1. Cardinality(Owed(t, d, b)') = 0
      BY <2>1, FS_EmptySet
    <3> QED BY <2>1, <3>1
  <2>3. Charged' = Quota!Nothing
    BY <2>2 DEF Charged, Quota!Nothing
  <2>4. Quota!Forget
    BY <1>8, <2>3 DEF Restart, Quota!Forget
  <2> QED BY <2>4 DEF Quota!Next
<1>9. CASE UNCHANGED vars
  BY <1>9, <1>a DEF vars, client, server, stores
<1> QED
  BY <1>1, <1>2, <1>3, <1>4, <1>5, <1>6, <1>7, <1>8, <1>9 DEF Next, Handler

\* THEOREM KeepsTheQuota: the handlers implement QuotaLedger, any number of
\* them at once.  Looking grants all the buckets of a request in one step, and
\* the charges that follow one by one change nothing any more.
THEOREM KeepsTheQuota == Spec => KeepsQuota
<1>1. Init => Quota!Init
  <2> SUFFICES ASSUME Init PROVE Quota!Init
    OBVIOUS
  <2>1. \A t \in Tenants, d \in Days, b \in Buckets : Owed(t, d, b) = {} /\ usage[t][d][b] = 0
    BY DEF Init, Owed, Unused
  <2>2. ASSUME NEW t \in Tenants, NEW d \in Days, NEW b \in Buckets
        PROVE  usage[t][d][b] + Cardinality(Owed(t, d, b)) = 0
    <3>1. Cardinality(Owed(t, d, b)) = 0
      BY <2>1, FS_EmptySet
    <3> QED BY <2>1, <3>1
  <2>3. Charged = Quota!Nothing
    BY <2>2 DEF Charged, Quota!Nothing
  <2> QED BY <2>3 DEF Init, Quota!Init
<1>2. TypeOK /\ [Next]_vars => [Quota!Next]_(Quota!vars)
  BY NextQuota
<1> QED BY <1>1, <1>2, TypeCorrect, PTL DEF Spec, KeepsQuota, Quota!Spec

-----------------------------------------------------------------------------
(* The overrun, where several threads run the handler                      *)

\* What a day may cost: each handler may have looked before any of the others
\* has charged.
OverrunBounded ==
  \A t \in Tenants, d \in Days, b \in Buckets :
    usage[t][d][b] > 0 => usage[t][d][b] <= Ceiling[b]

UnitsBounded ==
  \A t \in Tenants, d \in Days, b \in Buckets :
    Charged[t][d][b] > 0 => Charged[t][d][b] <= Ceiling[b]

LEMMA UnitsType ==
  ASSUME TypeOK PROVE Charged \in [Tenants -> [Days -> [Buckets -> Nat]]]
<1>1. \A t \in Tenants, d \in Days, b \in Buckets :
        usage[t][d][b] \in Nat /\ Cardinality(Owed(t, d, b)) \in Nat
  BY OwedCounts DEF TypeOK
<1> QED BY <1>1 DEF Charged

\* It follows from the promise alone: QuotaLedger grants below the ceiling only.
LEMMA NextUnits ==
  ASSUME TypeOK, UnitsBounded, [Quota!Next]_(Quota!vars) PROVE UnitsBounded'
<1> SUFFICES ASSUME NEW t \in Tenants, NEW d \in Days, NEW b \in Buckets, Charged'[t][d][b] > 0
             PROVE  Charged'[t][d][b] <= Ceiling[b]
  BY DEF UnitsBounded
<1>1. Charged \in [Tenants -> [Days -> [Buckets -> Nat]]] /\ day \in Days
  BY UnitsType DEF TypeOK
<1>2. Ceiling[b] \in Int
  BY HostedApiAssumption, FS_CardinalityType DEF HostedApiAssumption, Ceiling
<1>3. ASSUME Charged' = Charged PROVE Charged'[t][d][b] <= Ceiling[b]
  BY <1>3 DEF UnitsBounded
<1>4. ASSUME NEW u \in Tenants, NEW use \in Uses, Quota!Grant(u, use)
      PROVE  Charged'[t][d][b] <= Ceiling[b]
  <2>1. /\ \A c \in use : Charged[u][day][c] < Ceiling[c]
        /\ Charged' = [Charged EXCEPT ![u][day] =
                         [c \in Buckets |-> IF c \in use THEN @[c] + 1 ELSE @[c]]]
    BY <1>4 DEF Quota!Grant
  <2>2. Charged'[t][d][b] = IF t = u /\ d = day /\ b \in use
                            THEN Charged[t][d][b] + 1 ELSE Charged[t][d][b]
    BY <1>1, <2>1
  <2>3. Charged[t][d][b] \in Nat
    BY <1>1
  <2>4. CASE t = u /\ d = day /\ b \in use
    BY <1>2, <2>1, <2>2, <2>3, <2>4
  <2>5. CASE ~(t = u /\ d = day /\ b \in use)
    BY <2>2, <2>5 DEF UnitsBounded
  <2> QED BY <2>4, <2>5
<1>5. CASE Quota!Forget
  <2>1. Charged'[t][d][b] = 0
    BY <1>5 DEF Quota!Forget, Quota!Nothing
  <2> QED BY <2>1
<1> QED BY <1>3, <1>4, <1>5 DEF Quota!Next, Quota!NewDay, Quota!vars

\* THEOREM OverrunIsBounded: evaluate_and_consume looks first and charges later,
\* so handlers that look at the same time may pass a limit together, but by no
\* more than the other handlers there are: a used bucket of a day is charged at
\* most Limit + (number of handlers - 1) times.
THEOREM OverrunIsBounded == Spec => []OverrunBounded
<1>1. Quota!Init => UnitsBounded
  BY DEF Quota!Init, Quota!Nothing, UnitsBounded
<1>2. TypeOK /\ UnitsBounded /\ [Quota!Next]_(Quota!vars) => UnitsBounded'
  BY NextUnits
<1>3. TypeOK /\ UnitsBounded => OverrunBounded
  <2> SUFFICES ASSUME TypeOK, UnitsBounded,
                      NEW t \in Tenants, NEW d \in Days, NEW b \in Buckets, usage[t][d][b] > 0
               PROVE  usage[t][d][b] <= Ceiling[b]
    BY DEF OverrunBounded
  <2>1. /\ Charged[t][d][b] = usage[t][d][b] + Cardinality(Owed(t, d, b))
        /\ usage[t][d][b] \in Nat /\ Cardinality(Owed(t, d, b)) \in Nat
    BY OwedCounts DEF Charged, TypeOK
  <2>2. Charged[t][d][b] > 0 /\ usage[t][d][b] <= Charged[t][d][b]
    BY <2>1
  <2>3. Charged[t][d][b] <= Ceiling[b]
    BY <2>2 DEF UnitsBounded
  <2>4. Ceiling[b] \in Int
    BY HostedApiAssumption, FS_CardinalityType DEF HostedApiAssumption, Ceiling
  <2> QED BY <2>1, <2>2, <2>3, <2>4
<1> QED BY <1>1, <1>2, <1>3, TypeCorrect, KeepsTheQuota, PTL DEF KeepsQuota, Quota!Spec

=============================================================================
