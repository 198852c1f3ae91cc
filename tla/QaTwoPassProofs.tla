--------------------------- MODULE QaTwoPassProofs ---------------------------
(***************************************************************************)
(* What holds of ask, explain and locate for any invocations, retries and  *)
(* candidates: the type invariant, that a stopped request reaches no       *)
(* language model, that the fallback obeys its configuration and that a    *)
(* loaded runtime is never lost.                                           *)
(***************************************************************************)
EXTENDS QaTwoPass, TLAPS

-----------------------------------------------------------------------------
(* Operators                                                               *)

ModuleTypes == {"none", "package", "path"}

LEMMA RouteType ==
  ASSUME NEW b \in BOOLEAN, NEW s, NEW a
  PROVE  RouteOf(b, s, a) \in Routes
  BY DEF RouteOf, Routes

LEMMA ModeType == ASSUME NEW r PROVE ModeOfRoute(r) \in Modes
  BY DEF ModeOfRoute, Modes

LEMMA CoerceType ==
  ASSUME NEW r, NEW m PROVE Coerce(r, m) \in Modes
  BY ModeType DEF Coerce

\* What an import leaves loaded: it may change the module, never remove it.
LEMMA ImportKeeps ==
  ASSUME loaded \in ModuleTypes, NEW i \in Imports
  PROVE  /\ i.module \in ModuleTypes
         /\ loaded # "none" => i.module # "none"
  <1>1. ASSUME NEW m \in {"package", "path"}, NEW k \in Importing(m)
        PROVE  k.module \in ModuleTypes /\ (loaded # "none" => k.module # "none")
    BY <1>1 DEF Importing, Import, ModuleTypes
  <1>2. ASSUME NEW k \in FromPackage
        PROVE  k.module \in ModuleTypes /\ (loaded # "none" => k.module # "none")
    BY <1>1, <1>2 DEF FromPackage, Import, ModuleTypes
  <1>3. ASSUME NEW k \in FromPath
        PROVE  k.module \in ModuleTypes /\ (loaded # "none" => k.module # "none")
    BY <1>1, <1>3 DEF FromPath, Import, ModuleTypes
  <1>. QED BY <1>2, <1>3 DEF Imports, Import, ModuleTypes

-----------------------------------------------------------------------------
(* The type invariant                                                      *)

\* Only the mode that was resolved chooses the provider, passes are counted
\* up to two, and a post happens while tries are left.
Counted ==
  /\ pc = "resolve" => pass = 0
  /\ pc = "retrieve" => pass \in 0..1
  /\ pc \notin {"resolve", "retrieve", "raised"} => pass \in 1..2
  /\ pc \in {"answer", "post"} => attempt <= MaxRetries
  /\ pc \in {"plan", "model", "render", "done"} => result.route \notin {"DENY", "PENDING"}

TypeInv == TypeOK /\ Counted

LEMMA Bounds == MaxRetries \in Nat /\ MaxCandidates \in Nat
  BY QaTwoPassAssumption

\* An answer has the type of an answer, whatever mode it came with.
LEMMA AnsweredType ==
  ASSUME NEW by \in Answerers, NEW route \in RawRoutes, NEW mode, NEW n \in 0..MaxCandidates,
         Answered(by, route, mode, n)
  PROVE  result' \in ResultType
  BY CoerceType DEF Answered, ResultType

LEMMA BaselineType ==
  ASSUME TypeOK, BaselineAnswers PROVE result' \in ResultType
  <1>. DEFINE route == IF found.deep THEN "DEEP" ELSE "FAST"
  <1>1. PICK n \in (IF found.n = 0 THEN {0} ELSE 1..found.n) :
          \E mode \in SemanticModes(inv.cmd, route, n, FALSE) : Answered("baseline", route, mode, n)
    BY DEF BaselineAnswers
  <1>2. PICK mode : Answered("baseline", route, mode, n)
    BY <1>1
  <1>3. n \in 0..MaxCandidates
    <2>1. found.n \in 0..MaxCandidates
      BY DEF TypeOK
    <2>. QED BY <2>1, Bounds
  <1>4. route \in RawRoutes /\ "baseline" \in Answerers
    BY DEF RawRoutes, Routes, Answerers
  <1>. HIDE DEF route
  <1>. QED BY <1>2, <1>3, <1>4, AnsweredType

\* The mode in force is one of the providers' names.
LEMMA EffectiveType ==
  ASSUME inv \in Invocations PROVE EffectiveMode(inv) \in {"baseline", "local", "remote"}
  BY DEF EffectiveMode

LEMMA FreshType ==
  ASSUME inv \in Invocations, NEW e \in {"baseline", "remote", "topocore_v6"}, NEW u \in BOOLEAN
  PROVE  FreshMeta(e, u) \in MetaType
  BY EffectiveType, Bounds DEF FreshMeta, MetaType, Reasons

\* A failure is reported with the retries that were made.
LEMMA FailsType ==
  ASSUME NEW why \in Reasons, Fails(why), attempt' \in 0..(MaxRetries + 1)
  PROVE  meta' \in MetaType
  <1>. DEFINE a == attempt'
             n == IF a = 0 THEN 0 ELSE a - 1
  <1>1. n \in 0..MaxRetries
    <2>. HIDE DEF a
    <2>1. a \in 0..(MaxRetries + 1)
      BY DEF a
    <2>. QED BY <2>1, Bounds
  <1>2. meta' = [NoMeta EXCEPT !.reason = why, !.retries = n]
    BY DEF Fails
  <1>. HIDE DEF n
  <1>. QED BY <1>1, <1>2 DEF NoMeta, MetaType

LEMMA RememberType ==
  ASSUME TypeOK, NEW by \in Answerers, Remember(by)
  PROVE  answeredBy' \in [1..2 -> Answerers \cup {"none"}]
  BY DEF Remember, TypeOK

-----------------------------------------------------------------------------
(* Every step keeps it                                                     *)

LEMMA InitType == Init => TypeInv
  <1>. SUFFICES ASSUME Init PROVE TypeInv
    OBVIOUS
  <1>1. NoResult \in ResultType
    BY Bounds DEF NoResult, ResultType, RawRoutes, Routes, Modes
  <1>2. NoMeta \in MetaType
    BY Bounds DEF NoMeta, MetaType, Reasons
  <1>3. [n |-> 0, deep |-> FALSE] \in [n : 0..MaxCandidates, deep : BOOLEAN]
    BY Bounds
  <1>4. [route |-> "none", mode |-> "retrieval_only"] \in [route : Routes \cup {"none"}, mode : Modes]
    BY DEF Modes
  <1>5. [p \in 1..2 |-> "none"] \in [1..2 -> Answerers \cup {"none"}]
    OBVIOUS
  <1>6. TypeOK
    <2>1. found \in [n : 0..MaxCandidates, deep : BOOLEAN]
      BY <1>3 DEF Init
    <2>2. audit \in [route : Routes \cup {"none"}, mode : Modes]
      BY <1>4 DEF Init
    <2>3. answeredBy \in [1..2 -> Answerers \cup {"none"}]
      BY <1>5 DEF Init
    <2>4. attempt \in 0..(MaxRetries + 1) /\ pass \in 0..2 /\ late \in Nat
      BY Bounds DEF Init
    <2>. QED BY <1>1, <1>2, <2>1, <2>2, <2>3, <2>4 DEF Init, TypeOK
  <1>7. Counted
    BY DEF Init, Counted
  <1>. QED BY <1>6, <1>7 DEF TypeInv

\* The steps before a provider is asked.
LEMMA FirstSteps ==
  ASSUME TypeInv, Resolve \/ Retrieve PROVE TypeInv'
  <1>1. CASE Resolve
    <2>1. provider' \in {"none", "baseline", "local", "remote"}
      BY <1>1, EffectiveType DEF Resolve, TypeInv, TypeOK
    <2>. QED BY <1>1, <2>1
         DEF Resolve, TypeInv, TypeOK, Counted, retrieval, remote, outcome, shown, history
  <1>2. CASE Retrieve
    <2>1. found' \in [n : 0..MaxCandidates, deep : BOOLEAN]
      <3>1. PICK n \in 0..MaxCandidates, low \in BOOLEAN : found' = [n |-> n, deep |-> low \/ pass' = 2]
        BY <1>2 DEF Retrieve
      <3>. DEFINE deep == low \/ pass' = 2
      <3>2. deep \in BOOLEAN
        OBVIOUS
      <3>3. found' = [n |-> n, deep |-> deep]
        BY <3>1
      <3>. HIDE DEF deep
      <3>. QED BY <3>2, <3>3
    <2>2. pass' \in 1..2
      BY <1>2 DEF Retrieve, TypeInv, TypeOK, Counted
    <2>3. attempt' \in 0..(MaxRetries + 1) /\ attempt' <= MaxRetries
      BY <1>2, Bounds DEF Retrieve
    <2>4. pc' = "answer" /\ limited' = FALSE /\ UNCHANGED <<inv, provider, loaded, result, meta>>
          /\ UNCHANGED <<audit, llm, page, answeredBy, late>>
      BY <1>2 DEF Retrieve, outcome, shown, history
    <2>5. TypeOK'
      <3>1. limited' \in BOOLEAN
        BY <1>2, Zenon DEF Retrieve
      <3>2. pass' \in 0..2
        BY <2>2
      <3>3. UNCHANGED <<inv, provider, loaded, result, meta, audit, llm, page, answeredBy, late>>
        BY <2>4
      <3>. QED BY <2>1, <2>3, <2>4, <3>1, <3>2, <3>3 DEF TypeInv, TypeOK
    <2>6. Counted'
      BY <2>2, <2>3, <2>4 DEF Counted
    <2>. QED BY <2>5, <2>6 DEF TypeInv
  <1>. QED BY <1>1, <1>2

\* An answer of a provider ends the pass.
LEMMA AnswerSteps ==
  ASSUME TypeInv, result' \in ResultType, meta' \in MetaType,
         answeredBy' \in [1..2 -> Answerers \cup {"none"}],
         pc \in {"answer", "post", "failed", "engine"}, pc' = "route",
         provider' \in {"none", "baseline", "local", "remote"},
         attempt' \in 0..(MaxRetries + 1), limited' \in BOOLEAN, late' \in Nat,
         UNCHANGED <<inv, pass, found, loaded, audit, llm, page>>
  PROVE  TypeInv'
  BY DEF TypeInv, TypeOK, Counted

\* The steps of the baseline and of its taking over from the remote.
LEMMA BaselineSteps ==
  ASSUME TypeInv, Baseline \/ FailOpen \/ FailClosed PROVE TypeInv'
  <1>1. CASE Baseline
    <2>1. result' \in ResultType
      BY <1>1, BaselineType DEF Baseline, TypeInv
    <2>2. meta' \in MetaType
      BY <1>1, FreshType DEF Baseline, TypeInv, TypeOK
    <2>3. answeredBy' \in [1..2 -> Answerers \cup {"none"}]
      BY <1>1, RememberType DEF Baseline, TypeInv, Answerers
    <2>. QED BY <1>1, <2>1, <2>2, <2>3, AnswerSteps
         DEF Baseline, TypeInv, TypeOK, retrieval, remote, shown
  <1>2. CASE FailOpen
    <2>1. result' \in ResultType
      BY <1>2, BaselineType DEF FailOpen, TypeInv
    <2>2. meta' \in MetaType
      BY <1>2 DEF FailOpen, TypeInv, TypeOK, MetaType
    <2>3. answeredBy' \in [1..2 -> Answerers \cup {"none"}]
      BY <1>2, RememberType DEF FailOpen, TypeInv, Answerers
    <2>. QED BY <1>2, <2>1, <2>2, <2>3, AnswerSteps
         DEF FailOpen, TypeInv, TypeOK, retrieval, remote, shown
  <1>3. CASE FailClosed
    <2>1. result' \in ResultType
      BY <1>3, AnsweredType, Bounds DEF FailClosed, Answerers, RawRoutes, Routes
    <2>2. meta' \in MetaType
      BY <1>3 DEF FailClosed, TypeInv, TypeOK, MetaType
    <2>3. answeredBy' \in [1..2 -> Answerers \cup {"none"}]
      BY <1>3, RememberType DEF FailClosed, TypeInv, Answerers
    <2>. QED BY <1>3, <2>1, <2>2, <2>3, AnswerSteps
         DEF FailClosed, TypeInv, TypeOK, retrieval, remote, shown
  <1>. QED BY <1>1, <1>2, <1>3

-----------------------------------------------------------------------------
(* The remote provider                                                     *)

LEMMA FailedSteps ==
  ASSUME TypeInv, meta' \in MetaType, pc \in {"answer", "post"}, pc' = "failed",
         attempt' \in 0..(MaxRetries + 1), limited' \in BOOLEAN, late' \in Nat,
         UNCHANGED <<inv, pass, provider, found, loaded, result, audit, llm, page, answeredBy>>
  PROVE  TypeInv'
  BY DEF TypeInv, TypeOK, Counted

LEMMA PostingType ==
  ASSUME TypeInv, Posting
  PROVE  /\ attempt' \in 0..(MaxRetries + 1) /\ late' \in Nat
         /\ pc = "post" /\ UNCHANGED <<inv, pass, provider, found, loaded, audit, llm, page>>
  BY Bounds DEF Posting, TypeInv, TypeOK, Counted, retrieval, shown

LEMMA RemoteSteps ==
  ASSUME TypeInv, Remote PROVE TypeInv'
  <1>1. CASE BuildPayload
    <2>1. CASE inv.clean
      BY <1>1, <2>1
      DEF BuildPayload, TypeInv, TypeOK, Counted, retrieval, shown, history
    <2>2. CASE ~inv.clean
      <3>1. Fails("REMOTE_POLICY") /\ UNCHANGED <<attempt, limited>>
        BY <1>1, <2>2 DEF BuildPayload
      <3>2. meta' \in MetaType
        BY <3>1, FailsType DEF TypeInv, TypeOK, Reasons
      <3>. QED BY <1>1, <3>1, <3>2, FailedSteps
           DEF BuildPayload, Fails, TypeInv, TypeOK, retrieval, shown, history
    <2>. QED BY <2>1, <2>2
  <1>2. CASE NoSecret
    BY <1>2
    DEF NoSecret, Raise, TypeInv, TypeOK, Counted, retrieval, remote, outcome, shown, history
  <1>3. ASSUME NEW why \in {"REMOTE_TIMEOUT", "REMOTE_NETWORK", "REMOTE_429", "REMOTE_5XX"}, Retry(why)
        PROVE  TypeInv'
    <2>1. Posting /\ UNCHANGED <<result, answeredBy>>
      BY <1>3 DEF Retry
    <2>2. limited' \in BOOLEAN
      BY <1>3 DEF Retry, TypeInv, TypeOK
    <2>3. CASE attempt < MaxRetries
      <3>1. attempt' <= MaxRetries
        BY <2>1, <2>3, Bounds DEF Posting, TypeInv, TypeOK
      <3>. QED BY <1>3, <2>1, <2>2, <2>3, <3>1, PostingType DEF Retry, TypeInv, TypeOK, Counted
    <2>4. CASE ~(attempt < MaxRetries)
      <3>1. Fails(why)
        BY <1>3, <2>4 DEF Retry
      <3>2. meta' \in MetaType
        BY <3>1, <2>1, PostingType, FailsType DEF Reasons
      <3>. QED BY <2>1, <2>2, <3>1, <3>2, PostingType, FailedSteps DEF Fails
    <2>. QED BY <2>3, <2>4
  <1>4. ASSUME NEW why \in {"REMOTE_4XX", "REMOTE_POLICY", "REMOTE_5XX"}, Reject(why)
        PROVE  TypeInv'
    <2>1. Posting /\ Fails(why) /\ UNCHANGED <<limited, result, answeredBy>>
      BY <1>4 DEF Reject
    <2>2. meta' \in MetaType
      BY <2>1, PostingType, FailsType DEF Reasons
    <2>. QED BY <2>1, <2>2, PostingType, FailedSteps DEF Fails, TypeInv, TypeOK
  <1>5. CASE Answer
    <2>1. Posting /\ Remember("remote") /\ pc' = "route" /\ UNCHANGED limited
      BY <1>5 DEF Answer
    <2>2. PICK route \in RawRoutes, n \in 0..found.n :
            \E mode \in Modes \cup {"unknown"} \cup SemanticModes(inv.cmd, route, n, inv.pr) :
              Answered("remote", route, mode, n)
      BY <1>5 DEF Answer
    <2>3. PICK mode : Answered("remote", route, mode, n)
      BY <2>2
    <2>4. n \in 0..MaxCandidates
      <3>1. found.n \in 0..MaxCandidates
        BY DEF TypeInv, TypeOK
      <3>. QED BY <3>1, Bounds
    <2>5. result' \in ResultType
      BY <2>3, <2>4, AnsweredType DEF Answerers
    <2>6. attempt \in 0..MaxRetries
      BY <2>1, PostingType, Bounds DEF TypeInv, TypeOK, Counted
    <2>7. FreshMeta("remote", TRUE) \in MetaType
      BY FreshType DEF TypeInv, TypeOK
    <2>8. meta' \in MetaType
      BY <1>5, <2>6, <2>7 DEF Answer, MetaType
    <2>9. answeredBy' \in [1..2 -> Answerers \cup {"none"}]
      BY <2>1, RememberType DEF TypeInv, Answerers
    <2>. QED BY <2>1, <2>5, <2>8, <2>9, PostingType, AnswerSteps DEF TypeInv, TypeOK
  <1>. QED BY <1>1, <1>2, <1>3, <1>4, <1>5 DEF Remote

-----------------------------------------------------------------------------
(* The local provider, and what follows from the route                     *)

LEMMA LocalSteps ==
  ASSUME TypeInv, Load \/ Unserved \/ Decide \/ EngineFails PROVE TypeInv'
  <1>1. CASE Load
    <2>1. PICK i \in Imports : loaded' = i.module /\ pc' = IF i.ok THEN "engine" ELSE "raised"
      BY <1>1 DEF Load
    <2>2. loaded' \in ModuleTypes
      BY <2>1, ImportKeeps DEF TypeInv, TypeOK, ModuleTypes
    <2>. QED BY <1>1, <2>1, <2>2
         DEF Load, TypeInv, TypeOK, Counted, ModuleTypes, retrieval, remote, outcome, shown, history
  <1>2. CASE Unserved \/ EngineFails
    BY <1>2
    DEF Unserved, EngineFails, Raise, TypeInv, TypeOK, Counted, retrieval, remote, outcome, shown, history
  <1>3. CASE Decide
    <2>1. PICK blocked \in BOOLEAN, n \in 0..found.n,
               status \in {"blocked", "pending", "needs_review", "needs_more_information", "ok"},
               action \in {"stop", "wait", "review", "investigate", "proceed"} :
            \E mode \in SemanticModes(inv.cmd, RouteOf(blocked, status, action), n, inv.pr) :
              Answered("v6", RouteOf(blocked, status, action), mode, n)
      BY <1>3 DEF Decide
    <2>2. PICK mode : Answered("v6", RouteOf(blocked, status, action), mode, n)
      BY <2>1
    <2>3. n \in 0..MaxCandidates
      <3>1. found.n \in 0..MaxCandidates
        BY DEF TypeInv, TypeOK
      <3>. QED BY <3>1, Bounds
    <2>4. RouteOf(blocked, status, action) \in RawRoutes
      BY RouteType DEF RawRoutes
    <2>5. result' \in ResultType
      BY <2>2, <2>3, <2>4, AnsweredType DEF Answerers
    <2>6. meta' \in MetaType
      BY <1>3, FreshType DEF Decide, TypeInv, TypeOK
    <2>7. answeredBy' \in [1..2 -> Answerers \cup {"none"}]
      BY <1>3, RememberType DEF Decide, TypeInv, Answerers
    <2>. QED BY <1>3, <2>5, <2>6, <2>7, AnswerSteps
         DEF Decide, TypeInv, TypeOK, retrieval, remote, shown
  <1>. QED BY <1>1, <1>2, <1>3

\* What Settle leaves is an answer that is not stopped under another name.
LEMMA SettleType ==
  ASSUME TypeInv, Settle, pc = "route"
  PROVE  result' \in ResultType /\ (~SecondPass => result'.route \notin {"DENY", "PENDING"})
  <1>. DEFINE stop == IF Canonical(result.route) = "WAIT" THEN "WAIT" ELSE "REFUSE"
  <1>1. CASE result.route \in Blocking /\ (pass = 1 \/ result.route # stop)
    <2>1. Replaced(stop)
      BY <1>1 DEF Settle
    <2>2. stop \in {"WAIT", "REFUSE"}
      OBVIOUS
    <2>. HIDE DEF stop
    <2>3. result' = [result EXCEPT !.route = stop, !.mode = ModeOfRoute(stop), !.selected = 0]
      BY <2>1 DEF Replaced
    <2>4. result \in ResultType /\ stop \in RawRoutes /\ 0 \in 0..MaxCandidates
      BY <2>2, Bounds DEF TypeInv, TypeOK, RawRoutes, Routes
    <2>. QED BY <2>2, <2>3, <2>4, ModeType DEF ResultType
  <1>2. CASE ~(result.route \in Blocking /\ (pass = 1 \/ result.route # stop))
    <2>1. UNCHANGED result
      BY <1>2 DEF Settle
    <2>2. result.route \notin {"DENY", "PENDING"}
      BY <1>2 DEF Blocking, Canonical
    <2>. QED BY <2>1, <2>2 DEF TypeInv, TypeOK
  <1>. QED BY <1>1, <1>2

\* The canonical name of a settled route is a route.
LEMMA CanonicalType ==
  ASSUME NEW r \in RawRoutes, r \notin {"DENY", "PENDING"} PROVE Canonical(r) \in Routes
  BY DEF Canonical, RawRoutes, Routes

LEMMA LastSteps ==
  ASSUME TypeInv, Route \/ Plan \/ AskModel \/ Render PROVE TypeInv'
  <1>1. CASE Route
    <2>1. result' \in ResultType /\ (~SecondPass => result'.route \notin {"DENY", "PENDING"})
      BY <1>1, SettleType DEF Route
    <2>2. SecondPass => pass = 1
      BY DEF SecondPass
    <2>. QED BY <1>1, <2>1, <2>2
         DEF Route, TypeInv, TypeOK, Counted, retrieval, remote, shown, history
  <1>2. CASE Plan
    <2>1. Canonical(result.route) \in Routes /\ result.mode \in Modes
      BY <1>2, CanonicalType DEF Plan, TypeInv, TypeOK, Counted, ResultType
    <2>2. audit' \in [route : Routes \cup {"none"}, mode : Modes]
      BY <1>2, <2>1 DEF Plan, Modes
    <2>. QED BY <1>2, <2>2
         DEF Plan, TypeInv, TypeOK, Counted, retrieval, remote, outcome, history
  <1>3. CASE AskModel
    BY <1>3 DEF AskModel, TypeInv, TypeOK, Counted, retrieval, remote, outcome, history
  <1>4. CASE Render
    BY <1>4 DEF Render, TypeInv, TypeOK, Counted, retrieval, remote, outcome, history
  <1>. QED BY <1>1, <1>2, <1>3, <1>4

LEMMA NextType == TypeInv /\ [Next]_vars => TypeInv'
  <1>. SUFFICES ASSUME TypeInv, [Next]_vars PROVE TypeInv'
    OBVIOUS
  <1>1. CASE UNCHANGED vars
    BY <1>1 DEF TypeInv, TypeOK, Counted, vars, retrieval, remote, outcome, shown, history
  <1>2. CASE Finished
    BY <1>1, <1>2 DEF Finished
  <1>. QED BY <1>1, <1>2, FirstSteps, BaselineSteps, RemoteSteps, LocalSteps, LastSteps DEF Next

\* The variables keep their types (QaTwoPass!TypeOK): run_qa_two_pass never
\* begins a third pass and a pass never posts more than its retries allow.
THEOREM TypeCorrect == Spec => []TypeOK
  <1>1. TypeInv => TypeOK
    BY DEF TypeInv
  <1>. QED BY <1>1, InitType, NextType, PTL DEF Spec

-----------------------------------------------------------------------------
(* Stopped requests                                                        *)

\* The language model is asked after the route was named for the audit, and
\* the name of a stopped route is one that stops it.
QuietInv ==
  /\ llm = "asked" => pc \in {"render", "done"} /\ audit.route \notin Blocking
  /\ pc \in {"model", "render", "done"} /\ result.route \in Blocking => audit.route \in Blocking

LEMMA CanonicalBlocks ==
  ASSUME NEW r \in Blocking PROVE Canonical(r) \in Blocking
  BY DEF Canonical, Blocking

LEMMA CoerceBlocks ==
  ASSUME NEW r \in Blocking, NEW m PROVE Coerce(r, m) # "retrieval_plus_llm"
  BY DEF Coerce, ModeOfRoute

LEMMA QuietNext == TypeInv /\ QuietInv /\ [Next]_vars => QuietInv'
  <1>. SUFFICES ASSUME TypeInv, QuietInv, [Next]_vars PROVE QuietInv'
    OBVIOUS
  <1>1. CASE UNCHANGED vars \/ Finished
    BY <1>1 DEF QuietInv, Finished, vars, outcome, shown
  <1>2. CASE Resolve \/ Retrieve \/ Baseline \/ FailOpen \/ FailClosed \/ Load \/ Unserved \/ Decide
             \/ EngineFails \/ Route
    BY <1>2 DEF Resolve, Retrieve, Baseline, FailOpen, FailClosed, Load, Unserved, Decide, EngineFails,
                Route, Raise, QuietInv, shown
  <1>3. CASE Remote
    BY <1>3 DEF Remote, BuildPayload, NoSecret, Raise, Retry, Reject, Fails, Answer, Posting, QuietInv, shown
  <1>4. CASE Plan
    <2>1. result.route \in Blocking => Canonical(result.route) \in Blocking
      BY CanonicalBlocks
    <2>2. audit'.route = Canonical(result.route)
      BY <1>4 DEF Plan
    <2>. QED BY <1>4, <2>1, <2>2 DEF Plan, QuietInv, outcome
  <1>5. CASE AskModel
    <2>1. llm' = "asked" => audit.route \notin Blocking
      BY <1>5, CoerceBlocks DEF AskModel
    <2>. QED BY <1>5, <2>1 DEF AskModel, QuietInv, outcome
  <1>6. CASE Render
    BY <1>6 DEF Render, QuietInv, outcome
  <1>. QED BY <1>1, <1>2, <1>3, <1>4, <1>5, <1>6 DEF Next

\* A request that is stopped is kept from the language model
\* (QaTwoPass!StoppedIsQuiet): the route decides, whatever execution mode a
\* provider or the issue policy of _build_qa_markdown asks for.
THEOREM StoppedStaysQuiet == Spec => []StoppedIsQuiet
  <1>1. Init => QuietInv
    BY DEF Init, QuietInv
  <1>2. TypeInv /\ QuietInv => StoppedIsQuiet
    BY DEF TypeInv, TypeOK, QuietInv, StoppedIsQuiet
  <1>. QED BY <1>1, <1>2, InitType, NextType, QuietNext, PTL DEF Spec

-----------------------------------------------------------------------------
(* The fallback                                                            *)

\* With a remote that must not fail open only the remote or the policy answers;
\* once the baseline answered it is the provider, and it is so from the start
\* unless the remote or the local engine was chosen.
FallbackInv ==
  /\ pc # "resolve" => provider = EffectiveMode(inv) \/ (provider = "baseline" /\ inv.failOpen)
  /\ pc = "resolve" => ~FellBack
  /\ FellBack => provider = "baseline"
  /\ pc \in {"post", "failed"} => provider = "remote"
  /\ pc = "engine" => provider = "local"
  /\ late = 0

LEMMA FellBackSame == UNCHANGED answeredBy => FellBack' = FellBack
  BY DEF FellBack

\* Only an answer of the baseline counts as a fallback.
LEMMA FellBackAfter ==
  ASSUME TypeInv, NEW by \in Answerers, Remember(by), pass \in 1..2
  PROVE  FellBack' => FellBack \/ by = "baseline"
  BY DEF FellBack, Remember, TypeInv, TypeOK

LEMMA FallbackNext == TypeInv /\ FallbackInv /\ [Next]_vars => FallbackInv'
  <1>. SUFFICES ASSUME TypeInv, FallbackInv, [Next]_vars PROVE FallbackInv'
    OBVIOUS
  <1>1. CASE UNCHANGED vars \/ Finished
    <2>1. UNCHANGED <<inv, pc, provider, answeredBy, late>>
      BY <1>1 DEF Finished, vars, history
    <2>. QED BY <2>1, FellBackSame DEF FallbackInv
  <1>2. CASE Resolve \/ Retrieve \/ Load \/ Unserved \/ EngineFails \/ Route \/ Plan \/ AskModel \/ Render
    <2>1. UNCHANGED <<inv, answeredBy, late>>
      BY <1>2 DEF Resolve, Retrieve, Load, Unserved, EngineFails, Route, Plan, AskModel, Render, Raise,
                  history
    <2>2. CASE Resolve
      BY <2>1, <2>2, FellBackSame DEF Resolve, FallbackInv
    <2>3. CASE Retrieve \/ Unserved \/ EngineFails \/ Route \/ Plan \/ AskModel \/ Render
      <3>1. provider' = provider /\ pc # "resolve" /\ pc' \notin {"resolve", "post", "failed", "engine"}
        BY <2>3 DEF Retrieve, Unserved, EngineFails, Route, Plan, AskModel, Render, Raise
      <3>. QED BY <2>1, <3>1, FellBackSame DEF FallbackInv, EffectiveMode
    <2>4. CASE Load
      <3>1. provider' = provider /\ pc = "answer" /\ provider = "local" /\ pc' \in {"engine", "raised"}
        BY <2>4 DEF Load
      <3>. QED BY <2>1, <3>1, FellBackSame DEF FallbackInv, EffectiveMode
    <2>. QED BY <1>2, <2>2, <2>3, <2>4
  <1>3. CASE Baseline
    <2>1. /\ pc = "answer" /\ provider = "baseline" /\ pc' = "route"
          /\ UNCHANGED <<inv, provider, late>>
      BY <1>3 DEF Baseline
    <2>. QED BY <2>1 DEF FallbackInv, EffectiveMode
  <1>4. CASE FailOpen
    <2>1. /\ pc = "failed" /\ inv.failOpen /\ provider' = "baseline" /\ pc' = "route"
          /\ UNCHANGED <<inv, late>>
      BY <1>4 DEF FailOpen
    <2>. QED BY <2>1 DEF FallbackInv
  <1>5. CASE FailClosed \/ Decide
    <2>1. PICK by \in {"policy", "v6"} : Remember(by)
      BY <1>5 DEF FailClosed, Decide
    <2>2. /\ pc \in {"failed", "engine"} /\ pc' = "route" /\ UNCHANGED <<inv, provider, late>>
      BY <1>5 DEF FailClosed, Decide
    <2>3. FellBack' => FellBack
      BY <2>1, <2>2, FellBackAfter DEF TypeInv, Counted, Answerers
    <2>. QED BY <2>2, <2>3 DEF FallbackInv, EffectiveMode
  <1>6. CASE Remote
    <2>1. CASE BuildPayload \/ NoSecret
      <3>1. /\ pc \in {"answer", "post"} /\ provider = "remote" /\ pc' \in {"post", "failed", "raised"}
            /\ UNCHANGED <<inv, provider, answeredBy, late>>
        BY <2>1 DEF BuildPayload, NoSecret, Raise, Fails, FallbackInv, history
      <3>. QED BY <3>1, FellBackSame DEF FallbackInv, EffectiveMode
    <2>2. CASE \/ \E why \in {"REMOTE_TIMEOUT", "REMOTE_NETWORK", "REMOTE_429", "REMOTE_5XX"} : Retry(why)
               \/ \E why \in {"REMOTE_4XX", "REMOTE_POLICY", "REMOTE_5XX"} : Reject(why)
      <3>1. Posting /\ UNCHANGED answeredBy /\ pc' \in {"post", "failed"}
        BY <2>2 DEF Retry, Reject, Fails, Posting
      <3>2. provider = "remote" /\ ~FellBack
        BY <3>1 DEF Posting, FallbackInv
      <3>3. UNCHANGED <<inv, provider, late>>
        BY <3>1, <3>2 DEF Posting, FallbackInv
      <3>. QED BY <3>1, <3>2, <3>3, FellBackSame DEF FallbackInv, Posting
    <2>3. CASE Answer
      <3>1. Posting /\ Remember("remote") /\ pc' = "route"
        BY <2>3 DEF Answer
      <3>2. pc = "post" /\ provider = "remote" /\ ~FellBack
        BY <3>1 DEF Posting, FallbackInv
      <3>3. UNCHANGED <<inv, provider, late>>
        BY <3>1, <3>2 DEF Posting, FallbackInv
      <3>4. ~FellBack'
        BY <3>1, <3>2, FellBackAfter DEF TypeInv, Counted, Answerers
      <3>. QED BY <3>1, <3>2, <3>3, <3>4 DEF FallbackInv
    <2>. QED BY <1>6, <2>1, <2>2, <2>3 DEF Remote
  <1>. QED BY <1>1, <1>2, <1>3, <1>4, <1>5, <1>6 DEF Next

\* The fallback obeys its configuration (QaTwoPass!FallbackIsGoverned): with
\* tky_remote_fail_open off the baseline never answers for the remote, and
\* after a fallback the remote is left alone, the second pass included.
THEOREM FallbackGoverned == Spec => []FallbackIsGoverned
  <1>1. Init => FallbackInv
    BY DEF Init, FallbackInv, FellBack
  <1>2. TypeInv /\ FallbackInv => FallbackIsGoverned
    BY DEF FallbackInv, FallbackIsGoverned
  <1>. QED BY <1>1, <1>2, InitType, NextType, FallbackNext, PTL DEF Spec

\* A loaded runtime is never lost (QaTwoPass!ModuleKept), whatever the import
\* that was tried after it did.
THEOREM ModuleIsKept == Spec => ModuleKept
  <1>1. TypeInv /\ [Next]_vars => [loaded # "none" => loaded' # "none"]_vars
    <2>. SUFFICES ASSUME TypeInv, Next, loaded # "none" PROVE loaded' # "none"
      OBVIOUS
    <2>1. CASE Load
      BY <2>1, ImportKeeps DEF Load, TypeInv, TypeOK, ModuleTypes
    <2>2. CASE ~Load
      <3>1. UNCHANGED loaded
        BY <2>2 DEF Next, vars, Resolve, Retrieve, Baseline, Remote, BuildPayload, NoSecret, Raise, Retry,
           Reject, Answer, Posting, FailOpen, FailClosed, Unserved, Decide, EngineFails, Route, Plan,
           AskModel, Render, Finished
      <3>. QED BY <3>1
    <2>. QED BY <2>1, <2>2
  <1>. QED BY <1>1, InitType, NextType, PTL DEF Spec, ModuleKept

-----------------------------------------------------------------------------
(* The fields of the audit                                                 *)

\* The engine and the use of the remote are those of the last answer, and a
\* failure of the remote left its cause.
TellsEngine ==
  LET last == answeredBy[pass]
  IN  /\ last \in Answerers
      /\ meta.engine = (CASE last = "v6" -> "topocore_v6" [] last = "policy" -> "remote" [] OTHER -> last)
      /\ meta.remoteUsed = (last \in {"remote", "policy"})
      /\ last = "policy" => meta.reason # "n/a"
      /\ last = "baseline" /\ pass = 1 /\ EffectiveMode(inv) = "remote" =>
           meta.used = "fallback_baseline" /\ meta.reason # "n/a"

\* The first pass is asked of the provider that was resolved; the failure has
\* a cause before anyone answers for it; and the refusal of the policy is a
\* REFUSE until the audit is written.
AuditInv ==
  /\ \/ pc = "retrieve" /\ pass = 0
     \/ pc \in {"answer", "post", "engine", "failed"} /\ pass = 1
     => provider = EffectiveMode(inv)
  /\ pc = "failed" => meta.reason # "n/a" /\ ~meta.remoteUsed
  /\ pc \in {"route", "plan", "model", "render", "done"} => TellsEngine
  /\ pc \in {"route", "plan"} /\ answeredBy[pass] = "policy" => result.route = "REFUSE"
  /\ pc \in {"model", "render", "done"} /\ answeredBy[pass] = "policy" => audit.route = "REFUSE"

\* The pass is answered by the one that is remembered.
LEMMA LastAnswer ==
  ASSUME TypeInv, NEW by \in Answerers, Remember(by), pass \in 1..2, UNCHANGED pass
  PROVE  answeredBy'[pass'] = by
  BY DEF Remember, TypeInv, TypeOK

\* An answer with the fields of its provider.
LEMMA AuditAnswered ==
  ASSUME TypeInv, NEW by \in Answerers, Remember(by), pass \in 1..2, UNCHANGED <<inv, pass>>,
         pc' = "route",
         meta'.engine = (CASE by = "v6" -> "topocore_v6" [] by = "policy" -> "remote" [] OTHER -> by),
         IF by \in {"remote", "policy"} THEN meta'.remoteUsed = TRUE ELSE meta'.remoteUsed = FALSE,
         by = "policy" => meta'.reason # "n/a" /\ result'.route = "REFUSE",
         by = "baseline" /\ pass = 1 /\ EffectiveMode(inv) = "remote" =>
           meta'.used = "fallback_baseline" /\ meta'.reason # "n/a"
  PROVE  AuditInv'
  <1>1. answeredBy'[pass'] = by
    BY LastAnswer
  <1>2. EffectiveMode(inv)' = EffectiveMode(inv)
    BY DEF EffectiveMode, UseRemote
  <1>3. meta'.remoteUsed = (by \in {"remote", "policy"})
    <2>1. CASE by \in {"remote", "policy"}
      BY <2>1, Zenon
    <2>2. CASE by \notin {"remote", "policy"}
      <3>1. (by \in {"remote", "policy"}) = FALSE
        BY <2>2
      <3>2. meta'.remoteUsed = FALSE
        BY <2>2
      <3>. QED BY <3>1, <3>2, Zenon
    <2>. QED BY <2>1, <2>2
  <1>4. TellsEngine'
    <2>1. by = "baseline" /\ pass' = 1 /\ EffectiveMode(inv)' = "remote" =>
            meta'.used = "fallback_baseline" /\ meta'.reason # "n/a"
      BY <1>2
    <2>. QED BY <1>1, <1>3, <2>1, Zenon DEF TellsEngine
  <1>. QED BY <1>1, <1>4 DEF AuditInv

\* The cause of a failure is never "n/a".
LEMMA FailsTold ==
  ASSUME NEW why \in Reasons, why # "n/a", Fails(why)
  PROVE  pc' = "failed" /\ meta'.reason # "n/a" /\ ~meta'.remoteUsed
  BY DEF Fails, NoMeta

\* Steps between the retrieval and the answer keep the provider.
LEMMA AuditWaiting ==
  ASSUME AuditInv, UNCHANGED <<inv, pass, provider>>, pc \in {"answer", "post"},
         pc' \in {"post", "engine", "failed", "raised"},
         pc' = "failed" => meta'.reason # "n/a" /\ ~meta'.remoteUsed
  PROVE  AuditInv'
  BY DEF AuditInv, EffectiveMode, UseRemote

LEMMA AuditRemote == TypeInv /\ AuditInv /\ Remote => AuditInv'
  <1>. SUFFICES ASSUME TypeInv, AuditInv, Remote PROVE AuditInv'
    OBVIOUS
  <1>1. CASE BuildPayload
    <2>1. pc = "answer" /\ UNCHANGED <<inv, pass, provider>> /\ (pc' = "post" \/ Fails("REMOTE_POLICY"))
      BY <1>1 DEF BuildPayload, retrieval
    <2>2. CASE pc' = "post"
      BY <2>1, <2>2, AuditWaiting
    <2>3. CASE Fails("REMOTE_POLICY")
      BY <2>1, <2>3, AuditWaiting, FailsTold DEF Reasons
    <2>. QED BY <2>1, <2>2, <2>3
  <1>2. CASE NoSecret
    BY <1>2, AuditWaiting DEF NoSecret, Raise, retrieval
  <1>3. CASE \/ \E why \in {"REMOTE_TIMEOUT", "REMOTE_NETWORK", "REMOTE_429", "REMOTE_5XX"} : Retry(why)
             \/ \E why \in {"REMOTE_4XX", "REMOTE_POLICY", "REMOTE_5XX"} : Reject(why)
    <2>1. PICK why \in Reasons \ {"n/a"} : Posting /\ (Fails(why) \/ UNCHANGED <<pc, meta>>)
      BY <1>3 DEF Retry, Reject, Reasons
    <2>2. pc = "post" /\ UNCHANGED <<inv, pass, provider>>
      BY <2>1, PostingType
    <2>3. CASE Fails(why)
      BY <2>1, <2>2, <2>3, FailsTold, AuditWaiting
    <2>4. CASE UNCHANGED <<pc, meta>>
      BY <2>2, <2>4, AuditWaiting
    <2>. QED BY <2>1, <2>3, <2>4
  <1>4. CASE Answer
    <2>1. Posting /\ Remember("remote") /\ pc' = "route"
      BY <1>4 DEF Answer
    <2>2. pc = "post" /\ UNCHANGED <<inv, pass>>
      BY <2>1, PostingType
    <2>3. pass \in 1..2
      BY <2>2 DEF TypeInv, Counted
    <2>4. meta'.engine = "remote" /\ meta'.remoteUsed = TRUE
      BY <1>4 DEF Answer, FreshMeta
    <2>. QED BY <2>1, <2>2, <2>3, <2>4, AuditAnswered DEF Answerers
  <1>. QED BY <1>1, <1>2, <1>3, <1>4 DEF Remote

LEMMA AuditLocal == TypeInv /\ AuditInv /\ (Load \/ Unserved \/ Decide \/ EngineFails) => AuditInv'
  <1>. SUFFICES ASSUME TypeInv, AuditInv, Load \/ Unserved \/ Decide \/ EngineFails PROVE AuditInv'
    OBVIOUS
  <1>1. CASE Load \/ Unserved
    <2>1. /\ pc = "answer" /\ UNCHANGED <<inv, pass, provider>> /\ pc' \in {"engine", "raised"}
      BY <1>1 DEF Load, Unserved, Raise, retrieval
    <2>. QED BY <2>1, AuditWaiting
  <1>2. CASE EngineFails
    BY <1>2 DEF EngineFails, Raise, AuditInv
  <1>3. CASE Decide
    <2>1. pc = "engine" /\ pc' = "route" /\ Remember("v6") /\ UNCHANGED <<inv, pass>>
      BY <1>3 DEF Decide, retrieval
    <2>2. pass \in 1..2
      BY <2>1 DEF TypeInv, Counted
    <2>3. meta'.engine = "topocore_v6" /\ meta'.remoteUsed = FALSE
      BY <1>3 DEF Decide, FreshMeta
    <2>. QED BY <2>1, <2>2, <2>3, AuditAnswered DEF Answerers
  <1>. QED BY <1>1, <1>2, <1>3

LEMMA AuditBaseline == TypeInv /\ AuditInv /\ (Baseline \/ FailOpen \/ FailClosed) => AuditInv'
  <1>. SUFFICES ASSUME TypeInv, AuditInv, Baseline \/ FailOpen \/ FailClosed PROVE AuditInv'
    OBVIOUS
  <1>1. /\ pc \in {"answer", "failed"} /\ pc' = "route" /\ UNCHANGED <<inv, pass>> /\ pass \in 1..2
    BY DEF Baseline, FailOpen, FailClosed, retrieval, TypeInv, Counted
  <1>2. CASE Baseline
    <2>1. pc = "answer" /\ provider = "baseline" /\ Remember("baseline")
      BY <1>2 DEF Baseline
    <2>2. meta'.engine = "baseline" /\ meta'.remoteUsed = FALSE
      BY <1>2 DEF Baseline, FreshMeta
    <2>3. pass = 1 => EffectiveMode(inv) = "baseline"
      BY <2>1 DEF AuditInv
    <2>. QED BY <1>1, <2>1, <2>2, <2>3, AuditAnswered DEF Answerers
  <1>3. CASE FailOpen
    <2>1. pc = "failed" /\ Remember("baseline")
      BY <1>3 DEF FailOpen
    <2>2. meta'.engine = "baseline" /\ meta'.remoteUsed = meta.remoteUsed /\ meta'.reason = meta.reason
          /\ meta'.used = "fallback_baseline"
      BY <1>3 DEF FailOpen, TypeInv, TypeOK, MetaType
    <2>3. meta.remoteUsed = FALSE /\ meta.reason # "n/a"
      BY <2>1 DEF AuditInv, TypeInv, TypeOK, MetaType
    <2>. QED BY <1>1, <2>1, <2>2, <2>3, AuditAnswered DEF Answerers
  <1>4. CASE FailClosed
    <2>1. pc = "failed" /\ Remember("policy") /\ result'.route = "REFUSE"
      BY <1>4 DEF FailClosed, Answered
    <2>2. meta'.engine = "remote" /\ meta'.remoteUsed = TRUE /\ meta'.reason = meta.reason
      BY <1>4 DEF FailClosed, TypeInv, TypeOK, MetaType
    <2>3. meta.reason # "n/a"
      BY <2>1 DEF AuditInv
    <2>. QED BY <1>1, <2>1, <2>2, <2>3, AuditAnswered DEF Answerers
  <1>. QED BY <1>2, <1>3, <1>4

LEMMA AuditLast == TypeInv /\ AuditInv /\ (Route \/ Plan \/ AskModel \/ Render) => AuditInv'
  <1>. SUFFICES ASSUME TypeInv, AuditInv, Route \/ Plan \/ AskModel \/ Render PROVE AuditInv'
    OBVIOUS
  <1>1. UNCHANGED <<inv, pass, meta, answeredBy>>
    BY DEF Route, Plan, AskModel, Render, retrieval, outcome, history
  <1>2. TellsEngine => TellsEngine'
    BY <1>1 DEF TellsEngine, EffectiveMode, UseRemote
  <1>3. CASE Route
    <2>1. pc = "route" /\ pc' \in {"retrieve", "plan"} /\ TellsEngine'
      BY <1>2, <1>3 DEF Route, AuditInv
    <2>2. pc' = "retrieve" => pass' # 0
      BY <1>1, <2>1 DEF TypeInv, Counted
    <2>3. answeredBy[pass] = "policy" => result'.route = "REFUSE"
      <3>1. SUFFICES ASSUME answeredBy[pass] = "policy" PROVE result'.route = "REFUSE"
        OBVIOUS
      <3>2. result.route = "REFUSE"
        BY <2>1, <3>1 DEF AuditInv
      <3>3. result \in ResultType
        BY DEF TypeInv, TypeOK
      <3>. QED BY <1>3, <3>2, <3>3 DEF Route, Settle, Replaced, Canonical, ResultType
    <2>. QED BY <1>1, <2>1, <2>2, <2>3 DEF AuditInv
  <1>4. CASE Plan
    <2>1. pc = "plan" /\ pc' = "model" /\ audit'.route = Canonical(result.route)
      BY <1>4 DEF Plan
    <2>2. answeredBy[pass] = "policy" => audit'.route = "REFUSE"
      BY <2>1 DEF AuditInv, Canonical
    <2>. QED BY <1>1, <1>2, <2>1, <2>2 DEF AuditInv
  <1>5. CASE AskModel \/ Render
    <2>1. pc \in {"model", "render"} /\ pc' \in {"render", "done"} /\ UNCHANGED audit
      BY <1>5 DEF AskModel, Render
    <2>. QED BY <1>1, <1>2, <2>1 DEF AuditInv
  <1>. QED BY <1>3, <1>4, <1>5

LEMMA AuditNext == TypeInv /\ AuditInv /\ [Next]_vars => AuditInv'
  <1>. SUFFICES ASSUME TypeInv, AuditInv, [Next]_vars PROVE AuditInv'
    OBVIOUS
  <1>1. CASE UNCHANGED vars \/ Finished
    <2>1. UNCHANGED <<inv, pc, pass, provider, result, meta, audit, answeredBy>>
      BY <1>1 DEF Finished, vars, retrieval, outcome, shown, history
    <2>. QED BY <2>1 DEF AuditInv, TellsEngine, EffectiveMode, UseRemote
  <1>2. CASE Resolve
    BY <1>2 DEF Resolve, AuditInv, EffectiveMode, UseRemote
  <1>3. CASE Retrieve
    <2>1. /\ pc = "retrieve" /\ pc' = "answer" /\ pass' = pass + 1 /\ UNCHANGED <<inv, provider>>
          /\ pass \in 0..1
      BY <1>3 DEF Retrieve, TypeInv, Counted
    <2>. QED BY <2>1 DEF AuditInv, EffectiveMode, UseRemote
  <1>. QED BY <1>1, <1>2, <1>3, AuditBaseline, AuditRemote, AuditLocal, AuditLast DEF Next

\* What the audit says is what happened (QaTwoPass!AuditTellsEngine): the
\* engine and the use of the remote in final_meta are those of the provider
\* that answered the last pass, a fallback in the first pass carries its cause,
\* and a refusal of the policy is shown as REFUSE.
THEOREM AuditIsTold == Spec => []AuditTellsEngine
  <1>1. Init => AuditInv
    BY DEF Init, AuditInv
  <1>2. AuditInv => AuditTellsEngine
    BY DEF AuditInv, TellsEngine, AuditTellsEngine
  <1>. QED BY <1>1, <1>2, InitType, NextType, AuditNext, PTL DEF Spec
=============================================================================
