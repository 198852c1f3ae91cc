------------------------------ MODULE QaTwoPass ------------------------------
(***************************************************************************)
(* ask, explain and locate.  Retrieval proposes candidates and a TopoCore  *)
(* provider (the open baseline, the local v6 engine or a remote service)   *)
(* picks among them and routes the request; a DEEP route buys a second     *)
(* pass.  The route decides what may follow: whether the language model is *)
(* asked, and as what the comment is rendered.                             *)
(***************************************************************************)
EXTENDS Naturals, Sequences, FiniteSets

CONSTANTS
  Invocations,    \* commands with their configuration and environment
  MaxRetries,     \* RemoteTKYProvider.max_retries
  MaxCandidates   \* bound: candidates that one retrieval finds

Commands == {"ask", "explain", "locate"}

\* The conditions of decide_remote_usage.
Gates == {"enabled", "url", "command", "branch", "repo"}

\* What a provider may call its route; "other" is any word the code does not
\* know.
Routes    == {"FAST", "DEEP", "REVIEW", "REFUSE", "WAIT"}
RawRoutes == Routes \cup {"DENY", "PENDING", "other"}

Modes == {"retrieval_only", "retrieval_plus_llm", "verification_first", "refuse"}

\* A backend name in the environment; "" is an unset variable.
Backends == {"", "auto", "v6", "legacy", "bad"}
RuntimeModes == {"auto", "installed_package", "private_checkout", "local_path", "disabled", "invalid"}

ASSUME QaTwoPassAssumption ==
  /\ Invocations \subseteq
       [cmd : Commands, requested : {"baseline", "local", "remote", "auto"},
        shut : SUBSET Gates,        \* conditions of the remote that do not hold
        failOpen : BOOLEAN,         \* tky_remote_fail_open
        hmac : {"off", "on", "noSecret"},
        clean : BOOLEAN,            \* the payload passes the privacy check
        backend : [explicit : Backends, older : Backends],
        runtime : RuntimeModes,     \* RB_TOPOCORE_V6_RUNTIME_MODE
        package : BOOLEAN,          \* topocore_v6 is installed
        path : {"none", "missing", "empty", "module"},   \* RB_TOPOCORE_V6_LOCAL_PATH
        pr : BOOLEAN,
        llm : SUBSET {"issue", "policy", "locate"}]  \* what the LLM policy allows
  /\ MaxRetries \in Nat /\ MaxCandidates \in Nat

VARIABLES
  inv,        \* the invocation
  pc,
  pass,       \* passes begun
  provider,   \* active_provider
  found,      \* what the last retrieval returned
  attempt,    \* posts of the current pass
  limited,    \* the remote rate-limited this pass
  loaded,     \* sys.modules["topocore_v6"]
  result,     \* AnswerResult of the last pass
  meta,       \* final_meta
  audit,      \* audit_summary: route_final and execution_mode
  llm,        \* whether the language model was asked
  page,       \* as what the comment is rendered
  answeredBy, \* history: who answered each pass
  late        \* history: posts after a fallback to the baseline

retrieval == <<found, pass>>
remote    == <<attempt, limited>>
outcome   == <<result, meta>>
shown     == <<audit, llm, page>>
history   == <<answeredBy, late>>
vars == <<inv, pc, provider, retrieval, remote, loaded, outcome, shown, history>>

Answerers == {"baseline", "remote", "v6", "policy"}
Reasons   == {"n/a", "REMOTE_TIMEOUT", "REMOTE_NETWORK", "REMOTE_429", "REMOTE_5XX", "REMOTE_4XX",
              "REMOTE_POLICY"}

NoResult == [by |-> "none", route |-> "FAST", mode |-> "retrieval_only", selected |-> 0]
NoMeta   == [used |-> "none", engine |-> "none", remoteUsed |-> FALSE, reason |-> "n/a", retries |-> 0]

ResultType == [by : Answerers \cup {"none"}, route : RawRoutes, mode : Modes,
               selected : 0..MaxCandidates]
MetaType == [used : {"none", "baseline", "local", "remote", "fallback_baseline"},
             engine : {"none", "baseline", "remote", "topocore_v6"}, remoteUsed : BOOLEAN,
             reason : Reasons, retries : 0..MaxRetries]

\* Type correctness of the variables.
TypeOK ==
  /\ inv \in Invocations
  /\ pc \in {"resolve", "retrieve", "answer", "post", "engine", "failed", "route", "plan", "model",
             "render", "done", "raised"}
  /\ pass \in 0..2 /\ provider \in {"none", "baseline", "local", "remote"}
  /\ found \in [n : 0..MaxCandidates, deep : BOOLEAN]
  /\ attempt \in 0..(MaxRetries + 1) /\ limited \in BOOLEAN
  /\ loaded \in {"none", "package", "path"}
  /\ result \in ResultType /\ meta \in MetaType
  /\ audit \in [route : Routes \cup {"none"}, mode : Modes]
  /\ llm \in {"unasked", "asked"} /\ page \in {"none", "answer", "wait", "refuse"}
  /\ answeredBy \in [1..2 -> Answerers \cup {"none"}] /\ late \in Nat

-----------------------------------------------------------------------------
(* Which provider                                                          *)

\* decide_remote_usage: every condition holds.
UseRemote(i) == i.shut = {}

\* resolve_tky_mode
EffectiveMode(i) ==
  IF i.requested \in {"baseline", "local"} THEN i.requested
  ELSE IF UseRemote(i) THEN "remote" ELSE "baseline"

Init ==
  /\ inv \in Invocations
  /\ pc = "resolve" /\ pass = 0 /\ provider = "none"
  /\ found = [n |-> 0, deep |-> FALSE]
  /\ attempt = 0 /\ limited = FALSE /\ loaded = "none"
  /\ result = NoResult /\ meta = NoMeta
  /\ audit = [route |-> "none", mode |-> "retrieval_only"]
  /\ llm = "unasked" /\ page = "none"
  /\ answeredBy = [p \in 1..2 |-> "none"] /\ late = 0

Resolve ==
  /\ pc = "resolve"
  /\ provider' = EffectiveMode(inv)
  /\ pc' = "retrieve"
  /\ UNCHANGED <<inv, retrieval, remote, loaded, outcome, shown, history>>

\* Mistake: the passes are not counted.
Retrieve_Uncounted ==
  /\ pc = "retrieve"
  /\ pass' = 1
  /\ \E n \in 0..MaxCandidates, low \in BOOLEAN :
       /\ n = 0 => low
       /\ found' = [n |-> n, deep |-> low]
  /\ attempt' = 0 /\ limited' = FALSE
  /\ pc' = "answer"
  /\ UNCHANGED <<inv, provider, loaded, outcome, shown, history>>

\* The second pass retrieves more and is always hinted DEEP; the first is when
\* the best score is low.
Retrieve ==
  /\ pc = "retrieve"
  /\ pass' = pass + 1
  /\ \E n \in 0..MaxCandidates, low \in BOOLEAN :
       /\ n = 0 => low
       /\ found' = [n |-> n, deep |-> low \/ pass' = 2]
  /\ attempt' = 0 /\ limited' = FALSE
  /\ pc' = "answer"
  /\ UNCHANGED <<inv, provider, loaded, outcome, shown, history>>

-----------------------------------------------------------------------------
(* Routes and execution modes (execution_mode.py)                          *)

Blocking == {"REFUSE", "BLOCK", "DENY", "WAIT", "PENDING"}

\* _canonical_route
Canonical(route) ==
  IF route = "PENDING" THEN "WAIT"
  ELSE IF route = "DENY" THEN "BLOCK"
  ELSE IF route = "other" THEN "FAST" ELSE route

\* _fallback_from_route
ModeOfRoute(route) ==
  IF Canonical(route) = "WAIT" THEN "verification_first"
  ELSE IF Canonical(route) \in {"REFUSE", "BLOCK"} THEN "refuse" ELSE "retrieval_only"

\* Mistake: only an unknown mode is corrected.
Coerce_ModeOnly(route, mode) == IF mode \notin Modes THEN ModeOfRoute(route) ELSE mode

\* coerce_execution_decision: a blocking route overrules the mode it came with,
\* and so does an unknown mode.
Coerce(route, mode) ==
  IF route \in Blocking \/ mode \notin Modes THEN ModeOfRoute(route) ELSE mode

\* decide_semantic_execution; of two modes the scores decide.
SemanticModes(cmd, route, n, pr) ==
  IF route \in Blocking THEN {ModeOfRoute(route)}
  ELSE CASE cmd = "locate"  -> {"retrieval_only"}
         [] cmd = "explain" -> {"retrieval_plus_llm"}
         [] cmd = "ask"     -> IF pr \/ route = "DEEP" \/ n >= 3 THEN {"retrieval_plus_llm"}
                               ELSE {"retrieval_only", "retrieval_plus_llm"}

\* answer_question: the answer of a pass and the fields that go with it.
Answered(by, route, mode, n) ==
  result' = [by |-> by, route |-> route, mode |-> Coerce(route, mode), selected |-> n]

\* Whether a pass was answered by the baseline.
FellBack == \E p \in 1..2 : answeredBy[p] = "baseline"

\* Who answered this pass.
Remember(by) == answeredBy' = [answeredBy EXCEPT ![pass] = by]

-----------------------------------------------------------------------------
(* The baseline provider                                                   *)

\* It selects the best candidate and, up to its limits, the next ones; it is
\* not told of the pull request.
BaselineAnswers ==
  \E n \in (IF found.n = 0 THEN {0} ELSE 1..found.n) :
    LET route == IF found.deep THEN "DEEP" ELSE "FAST"
    IN  \E mode \in SemanticModes(inv.cmd, route, n, FALSE) : Answered("baseline", route, mode, n)

\* Mistake: the mode that was asked for stands for the provider that answered.
FreshMeta_Requested(engine, remoteUsed) ==
  [used |-> EffectiveMode(inv), engine |-> engine, remoteUsed |-> (EffectiveMode(inv) = "remote"),
   reason |-> "n/a", retries |-> 0]

\* The fields of _answer_with_remote_fallback before anything happened.
FreshMeta(engine, remoteUsed) ==
  [used |-> EffectiveMode(inv), engine |-> engine, remoteUsed |-> remoteUsed,
   reason |-> "n/a", retries |-> 0]

Baseline ==
  /\ pc = "answer" /\ provider = "baseline"
  /\ BaselineAnswers
  /\ meta' = FreshMeta("baseline", FALSE)
  /\ Remember("baseline")
  /\ pc' = "route"
  /\ UNCHANGED <<inv, provider, retrieval, remote, loaded, shown, late>>

-----------------------------------------------------------------------------
(* The remote provider                                                     *)

Raise ==
  /\ pc' = "raised"
  /\ UNCHANGED <<inv, provider, retrieval, remote, loaded, outcome, shown, history>>

\* RemoteTKYError with its diagnostics.
Fails(why) ==
  /\ meta' = [NoMeta EXCEPT !.reason = why,
                            !.retries = IF attempt' = 0 THEN 0 ELSE attempt' - 1]
  /\ pc' = "failed"

\* The payload holds signatures only, or it is not sent.
BuildPayload ==
  /\ pc = "answer" /\ provider = "remote"
  /\ IF inv.clean
       THEN pc' = "post" /\ UNCHANGED <<attempt, limited, meta>>
       ELSE UNCHANGED <<attempt, limited>> /\ Fails("REMOTE_POLICY")
  /\ UNCHANGED <<inv, provider, retrieval, loaded, result, shown, history>>

\* Signing without a secret is a ValueError, which nothing here catches.
NoSecret == pc = "post" /\ attempt = 0 /\ inv.hmac = "noSecret" /\ Raise

Posting ==
  /\ pc = "post" /\ (attempt = 0 => inv.hmac # "noSecret")
  /\ attempt' = attempt + 1
  /\ late' = late + (IF FellBack THEN 1 ELSE 0)
  /\ UNCHANGED <<inv, provider, retrieval, loaded, shown>>

\* Mistake: one try more than there are retries.
Retry_Once(why) ==
  /\ Posting
  /\ limited' = (limited \/ why = "REMOTE_429")
  /\ IF attempt <= MaxRetries THEN UNCHANGED <<pc, meta>> ELSE Fails(why)
  /\ UNCHANGED <<result, answeredBy>>

\* Timeouts, connection errors, 429 and 5xx are tried again.
Retry(why) ==
  /\ Posting
  /\ limited' = (limited \/ why = "REMOTE_429")
  /\ IF attempt < MaxRetries THEN UNCHANGED <<pc, meta>> ELSE Fails(why)
  /\ UNCHANGED <<result, answeredBy>>

\* Other 4xx, and answers that are not a JSON object, are final.
Reject(why) ==
  /\ Posting /\ Fails(why)
  /\ UNCHANGED <<limited, result, answeredBy>>

\* parse_remote_response: what it does not say is decided here.
Answer ==
  /\ Posting
  /\ \E route \in RawRoutes, n \in 0..found.n :
       \E mode \in Modes \cup {"unknown"} \cup SemanticModes(inv.cmd, route, n, inv.pr) :
         Answered("remote", route, mode, n)
  /\ meta' = [FreshMeta("remote", TRUE) EXCEPT !.retries = attempt]
  /\ Remember("remote")
  /\ pc' = "route"
  /\ UNCHANGED limited

Remote ==
  \/ BuildPayload
  \/ NoSecret
  \/ \E why \in {"REMOTE_TIMEOUT", "REMOTE_NETWORK", "REMOTE_429", "REMOTE_5XX"} : Retry(why)
  \/ \E why \in {"REMOTE_4XX", "REMOTE_POLICY", "REMOTE_5XX"} : Reject(why)
  \/ Answer

\* Mistake: the failing provider is handed back.
FailOpen_Stubborn ==
  /\ pc = "failed" /\ inv.failOpen
  /\ BaselineAnswers
  /\ meta' = [meta EXCEPT !.used = "fallback_baseline", !.engine = "baseline"]
  /\ Remember("baseline")
  /\ pc' = "route"
  /\ UNCHANGED <<inv, provider, retrieval, remote, loaded, shown, late>>

\* _answer_with_remote_fallback: the baseline takes over for the rest of the
\* command,
FailOpen ==
  /\ pc = "failed" /\ inv.failOpen
  /\ provider' = "baseline"
  /\ BaselineAnswers
  /\ meta' = [meta EXCEPT !.used = "fallback_baseline", !.engine = "baseline"]
  /\ Remember("baseline")
  /\ pc' = "route"
  /\ UNCHANGED <<inv, retrieval, remote, loaded, shown, late>>

\* or the request is refused.
FailClosed ==
  /\ pc = "failed" /\ ~inv.failOpen
  /\ Answered("policy", "REFUSE", "refuse", 0)
  /\ meta' = [meta EXCEPT !.used = "remote", !.engine = "remote", !.remoteUsed = TRUE]
  /\ Remember("policy")
  /\ pc' = "route"
  /\ UNCHANGED <<inv, provider, retrieval, remote, loaded, shown, late>>

-----------------------------------------------------------------------------
(* The local provider: TopoCore v6 or nothing                              *)

\* resolve_backend: the newer variable wins, and no legacy name is served.
RequestedBackend(b) == IF b.explicit # "" THEN b.explicit ELSE IF b.older # "" THEN b.older ELSE "auto"
Served(b) == RequestedBackend(b) \in {"auto", "v6"}

\* Once loaded from anywhere the module counts as an installed package.
PackageKnown == inv.package \/ loaded # "none"

Import(ok, module) == [ok |-> ok, module |-> module]

\* An import may raise, and a module may lack the required symbols; then it
\* stays in sys.modules all the same.
Importing(module) == {Import(TRUE, module), Import(FALSE, module), Import(FALSE, loaded)}

FromPackage == IF loaded # "none" THEN {Import(TRUE, loaded), Import(FALSE, loaded)}
               ELSE Importing("package")

\* _import_topocore_v6_module_from_local_path: the module loaded before is set
\* aside, and put back when nothing takes its place.
FromPath ==
  CASE inv.path = "module"               -> Importing("path")
    [] inv.path = "empty" /\ inv.package -> Importing("package")
    [] OTHER                             -> {Import(FALSE, loaded)}

\* _load_topocore_v6_public_api_runtime
Imports ==
  CASE inv.runtime = "installed_package" /\ PackageKnown                          -> FromPackage
    [] inv.runtime \in {"private_checkout", "local_path"} /\ inv.path # "none"    -> FromPath
    [] inv.runtime = "auto" /\ PackageKnown                                       -> FromPackage
    [] inv.runtime = "auto" /\ ~PackageKnown /\ inv.path # "none"                 -> FromPath
    [] OTHER                                                                      -> {Import(FALSE, loaded)}

\* A failure is a TopoCoreBackendError; nothing falls back to another engine.
Load ==
  /\ pc = "answer" /\ provider = "local" /\ Served(inv.backend)
  /\ \E i \in Imports : loaded' = i.module /\ pc' = IF i.ok THEN "engine" ELSE "raised"
  /\ UNCHANGED <<inv, provider, retrieval, remote, outcome, shown, history>>

Unserved == pc = "answer" /\ provider = "local" /\ ~Served(inv.backend) /\ Raise

\* _route_from_external_decision
RouteOf(blocked, status, action) ==
  CASE blocked \/ status = "blocked" \/ action = "stop"                       -> "REFUSE"
    [] status = "pending" \/ action = "wait"                                  -> "WAIT"
    [] status = "needs_review" \/ action = "review"                           -> "REVIEW"
    [] status = "needs_more_information" \/ action = "investigate"            -> "DEEP"
    [] OTHER                                                                  -> "FAST"

\* run_v6_backend: a refusing or waiting engine selects nothing.
Decide ==
  /\ pc = "engine"
  /\ \E blocked \in BOOLEAN, n \in 0..found.n,
        status \in {"blocked", "pending", "needs_review", "needs_more_information", "ok"},
        action \in {"stop", "wait", "review", "investigate", "proceed"} :
       LET route == RouteOf(blocked, status, action)
       IN  /\ route \in {"REFUSE", "WAIT"} => n = 0
           /\ \E mode \in SemanticModes(inv.cmd, route, n, inv.pr) : Answered("v6", route, mode, n)
  /\ meta' = FreshMeta("topocore_v6", FALSE)
  /\ Remember("v6")
  /\ pc' = "route"
  /\ UNCHANGED <<inv, provider, retrieval, remote, loaded, shown, late>>

\* The facade cannot be created, lacks a method or raises.
EngineFails == pc = "engine" /\ Raise

-----------------------------------------------------------------------------
(* What follows from the route                                             *)

Replaced(route) ==
  result' = [result EXCEPT !.route = route, !.mode = ModeOfRoute(route), !.selected = 0]

\* After the first pass every blocking route ends the retrieval with an empty
\* answer; after the second only those that are not yet called REFUSE or WAIT.
Settle ==
  LET stop == IF Canonical(result.route) = "WAIT" THEN "WAIT" ELSE "REFUSE"
  IN  IF result.route \in Blocking /\ (pass = 1 \/ result.route # stop)
      THEN Replaced(stop) ELSE UNCHANGED result

SecondPass == pass = 1 /\ inv.cmd \in {"ask", "explain"} /\ result.route = "DEEP"

Route ==
  /\ pc = "route"
  /\ Settle
  /\ pc' = IF SecondPass THEN "retrieve" ELSE "plan"
  /\ UNCHANGED <<inv, provider, retrieval, remote, loaded, meta, shown, history>>

\* _build_qa_markdown: on a trusted issue the profile may call for synthesis
\* whatever the route's execution mode is.
Plan ==
  /\ pc = "plan"
  /\ audit' = [route |-> Canonical(result.route),
               mode  |-> IF inv.cmd \in {"ask", "explain"} /\ "issue" \in inv.llm
                         THEN "retrieval_plus_llm" ELSE result.mode]
  /\ pc' = "model"
  /\ UNCHANGED <<inv, provider, retrieval, remote, loaded, outcome, llm, page, history>>

\* _maybe_generate_llm_text: the mode is coerced by the route once more, then
\* come the policy and, last, the token and the budget.
AskModel ==
  /\ pc = "model"
  /\ \/ /\ Coerce(audit.route, audit.mode) = "retrieval_plus_llm"
        /\ inv.cmd = "locate" => "locate" \in inv.llm
        /\ "policy" \in inv.llm
        /\ llm' = "asked"
     \/ llm' = "unasked"
  /\ pc' = "render"
  /\ UNCHANGED <<inv, provider, retrieval, remote, loaded, outcome, audit, page, history>>

\* Only ask keeps a blocking route; the routes of explain and locate are named
\* after the command before the renderer is chosen.
Render ==
  /\ pc = "render"
  /\ page' = IF inv.cmd = "ask" /\ audit.route = "WAIT" THEN "wait"
             ELSE IF inv.cmd = "ask" /\ audit.route = "REFUSE" THEN "refuse" ELSE "answer"
  /\ pc' = "done"
  /\ UNCHANGED <<inv, provider, retrieval, remote, loaded, outcome, audit, llm, history>>

Finished == pc \in {"done", "raised"} /\ UNCHANGED vars

Next ==
  \/ Resolve \/ Retrieve \/ Baseline \/ Remote \/ FailOpen \/ FailClosed
  \/ Load \/ Unserved \/ Decide \/ EngineFails
  \/ Route \/ Plan \/ AskModel \/ Render
  \/ Finished

Spec == Init /\ [][Next]_vars

\* One process, sequential code, requests with timeouts: a step that can be
\* taken is taken.
FairSpec == Spec /\ WF_vars(Next)

-----------------------------------------------------------------------------
(* Properties                                                              *)

\* A request that is refused or has to wait never reaches the language model,
\* in whichever pass, by whichever provider and under whichever spelling it
\* was stopped, and though a trusted issue overrules the execution mode.
StoppedIsQuiet == result.route \in Blocking => llm = "unasked"

\* With fail-open disabled no pass is answered by the baseline, and after a
\* fallback the remote is not posted to again.
FallbackIsGoverned ==
  /\ EffectiveMode(inv) = "remote" /\ ~inv.failOpen => ~FellBack
  /\ late = 0

\* The fields of the audit agree with who answered the pass that counts, and a
\* fallback in it is reported with its cause.
AuditTellsEngine ==
  pc = "done" =>
    LET last == answeredBy[pass]
    IN  /\ meta.engine = (CASE last = "v6" -> "topocore_v6" [] last = "policy" -> "remote" [] OTHER -> last)
        /\ meta.remoteUsed = (last \in {"remote", "policy"})
        /\ last = "policy" => meta.reason # "n/a" /\ audit.route = "REFUSE"
        /\ last = "baseline" /\ pass = 1 /\ EffectiveMode(inv) = "remote" =>
             meta.used = "fallback_baseline" /\ meta.reason # "n/a"

\* An import that fails never takes away the module that worked.
ModuleKept == [][loaded # "none" => loaded' # "none"]_vars

\* Every command ends, with a comment or an error.
Ends == <>(pc \in {"done", "raised"})
=============================================================================
