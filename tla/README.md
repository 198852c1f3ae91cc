# A TLA+ verification project for RepoBrain Action

RepoBrain is a GitHub Action: a comment such as `/repobrain audit` in a partner
repository starts a workflow run that routes the command, collects evidence,
asks language models and the TopoCore engine, and answers with a comment and a
check run. Two back channels exist beside the direct path: a hosted HTTP API
with tenants and quotas, and a *GitHub-native queue*, in which the Action only
posts a comment with a queue marker and a private *control worker* in another
repository finds the marker, runs TopoCore and posts the result.

## Parts of the system

| part | code (`src/repobrain/` unless said otherwise) | state it keeps | hard behaviour | modules |
|---|---|---|---|---|
| request queue and private control worker | `control_worker*.py`, `github_native_queue.py`, `scripts/run_control_worker_once.py` | none of its own: the issue comments of every repository are queue, results and log at once; a run keeps an index of the results it has seen | runs overlap; the listing is a window; a post may land and its confirmation be lost; a run may be killed anywhere | `RequestLedger`, `ControlWorker` |
| batch stage and LLM budget | `async_batch.py`, `ai_budget_governor.py`, `llm/github_models.py`, `github_flow.py` (`_run_batch_llm_review_fix`, `_maybe_generate_llm_text`) | the governor's counters, shared by threads without a lock; the results of the batches | check-then-act on the cap; lost updates; answers observed out of order; executor failure | `LlmBudget` |
| command flow and publisher | `github_flow.py` (`run_github_flow`), `github_publisher.py`, `repobrain.yml`, `repobrain_checks_publisher.yml` | the run's audit record, its check payload, and the comments, reactions and check runs on GitHub | the author pushes between the reads; a call fails between two writes; the job is cancelled; a retried POST that had succeeded | `CommandFlow` |
| hosted API | `hosted_api_*.py`, `quota.py`, `tenant_store.py`, `oidc*.py`, `self_service_identity.py` | tenants, quotas, used counters | the store looks first and charges later; the client's timeout races the answer; midnight and restarts between two steps | `QuotaLedger`, `HostedApi` |
| questions: ask, explain, locate | `github_flow.py` (`_build_qa_*`), `tky_remote.py` and its providers, `topocore_backend.py`, `topocore_v6_adapter.py`, `execution_mode.py` | the result of a pass, the record of who answered, `sys.modules` | a second pass by a provider that has just failed; retries; a stop that comes in the second pass | `QaTwoPass` |
| caches and stores | `retrieval/snapshot_cache.py`, `review_delta_memory.py`, `index_store.py`, `embeddings_cache.py`, `repobrain_index_cache.yml` | files of a workspace, restored and saved by runs | stale and torn files, overlapping runs, a head that moves | `RunCaches` |
| review and fix | `github_flow.py` (`_build_review_markdown`), `fix/`, `patch_*.py`, `review.py`, `review_validator.py`, `checks_md.py` | the patch, its source and its verdicts | a patch from three sources through one set of gates; four places that tell the same outcome | `ReviewFix` |
| audit and score | `audit_scoring.py`, `audit_contract.py`, `audit_v6.py`, `output_md.py` | the report and its summary | an engine that may be absent, fail, lie or be rejected; advice computed against another scorecard than the one shown | `AuditReport` |
| evidence and batches | `retrieve_pro.py`, `retrieval/*.py`, `evidence_filter.py`, `pr_segmenter.py`, `llm/batch_planner.py`, `patch_targeting.py` | lists of candidates and of batches | limits and shares at their boundaries; patches without file names dealt by place | `EvidencePlan` |

The Action, the worker and the hosted service share no memory. They meet in the
comments of a repository (queue), in HTTP requests (hosted API, remote TKY) and
in files of the workspace (caches). Within the Action, `CommandFlow` takes the
handlers as one step each; `QaTwoPass`, `ReviewFix` and `AuditReport` are the
inside of these steps, `EvidencePlan` what they are fed, `LlmBudget` what a
batch of calls costs, and `RunCaches` what a run leaves for the next one.
`PROJECT.json` lists every part with its status and every hazard with its line.

Every component has a module `X`, an instance for TLC `MCX` with its `.cfg`, and,
where something is proved, `XProofs`.

## RequestLedger and ControlWorker: the queue

`RequestLedger` is what the queue promises: a request, once asked, is answered at
most once, never before it was asked, and is answered in the end. `Ask` and
`Answer` are its only steps.

`ControlWorker` is the queue as it is written. State: `thread[p]`, the comments
of repository `p`, is the shared memory; `pc`, `repoIx`, `snap`, `done`, `seen`
and `work` are the locals of a run of `run_control_worker_once` (`comments`,
`result_status_by_request_id`, `global_seen` and the request in hand); `acked` and
`lost` are history.

| action | code |
|---|---|
| `Enqueue`, `Chatter` | the Action posts a queue marker (again, when its workflow is re-run); other comments |
| `StartRun`, `EndRun`, `LeaveRepo`, `BudgetSpent` | the two loops of `run_control_worker_once` and their exits |
| `ListComments` | `list_recent_issue_comments`, then `_build_existing_result_index` |
| `Scan` | one turn of the inner loop up to the context call, with its `continue`s |
| `FetchContext`, `ContextDenied` | the context calls, outside the `try` |
| `InvokeSucceeds`, `InvokeFails` | `topocore_client.invoke` and the two `except` clauses |
| `PostAcknowledged`, `PostAnswerLost`, `PostRefused` | `post_issue_comment`: confirmed, stored without confirmation, refused |
| `Abort` | the job is cancelled, or a listing raises |

A comment carries at most one marker, as both producers write them.

Runs: `worker_faults` (one worker run at a time, every fault, a result the leak
guard refuses and an issue that cannot be read) checks that a request is skipped
only when an answer is there and answered at most once; `worker_ledger` checks
that the queue implements `RequestLedger`, by `Ledger == INSTANCE RequestLedger
WITH ...`, its deadline included, with two faults of kills and refused posts and
with dry runs among the others; but for the deadline this is proved as well.

Known limits, where the code gives no guarantee and the properties say so in
their premises:

* Two overlapping runs list before either posts and answer a request twice,
  although the documentation speaks of deduplication by request id.
  `AnsweredAtMostOnce` is about runs that do not overlap; what holds in any case
  (`OneAnswerPerRun`, `SkippedOnlyWhenAnswered`, `NoAnswerWithoutQuestion`) is proved
  for any number of runs.
* A result that has left the listed window no longer deduplicates a marker
  posted again (premise `WholeThreadListed`).
* An issue that cannot be read raises out of the whole run, so that requests
  behind it wait for the comment to leave the listing.
* Markers that need no work spend the budget of a run as well; beyond it
  `KeepsLedger` promises nothing.
* Nothing in the repository starts a run of the worker by itself: the schedule of
  the example workflow is commented out
  (`docs/examples/repobrain_control_repo_queue_worker.yml:5-6`) and a run started
  by hand is a dry run unless told otherwise (line 53). The deadline of `KeepsLedger`
  has a premise for it, `RunsKeepComing`: runs that publish keep being started.

Bounds: two or three requests, because deduplication is about a request and its
copies, and the budget and the window need one competitor each; a request is
posted at most twice (a re-run of its workflow); the listing holds four comments
in `worker_faults` and five in `worker_ledger`, where other comments appear in the
first repository; one fault in the former and two in the latter.

Fairness: a run that was started goes on (weak fairness of its steps). That one
is started is no fairness but the premise `RunsKeepComing` of the deadline, since
starting runs is left to whoever installs the worker. Killed runs and refused
posts are bounded by `MaxFaults` and have no fairness.

## LlmBudget: the batch stage and its governor

State: the governor's `calls`, `tokens` and `remaining`; the plan of the stage
(`width`, `submitted`, `next`, `todo`, `result`, `completed`); the threads of
the pool and the command's own thread (`pc`, `task`, `failures`, `held`,
`answer`); the provider's `quota`.

| action | code |
|---|---|
| `Bootstrap` | the check before the stage: number of batches, reduce on or off |
| `Submit`, `TakeFromQueue`, `ExecutorFails`, `JoinPool` | `run_bounded_batch_tasks` with its `ThreadPoolExecutor`, recovery and fallback |
| `TakeInSequence`, `EndBatches` | `_sequential_run`, the recovery loop, the aggregation and the reduce call |
| `Check` | `can_call_llm`, asked by `_maybe_generate_llm_text` |
| `Answers`, `CallFails`, `Garbled` | `GitHubModelsClient.chat` and the retry loop around it |
| `ObserveCall`, `ObserveUsage` | `observe_llm_signal`, in two steps, because a CPython thread can lose the interpreter inside `int(usage.get(...))` |

`can_call_llm` is one step: what it read may be stale by the time of the call in
any case, since the check and the call are different steps.

The governor starts as the code makes it: it knows no quota (`NoSignal`) until an
answer tells one. `untold` is history: the requests that failed calls have spent
since the quota was last told.

Run: `llm`, a stage of three batches in a pool of two threads or in sequence, with
garbled answers, calls that fail, a thread that does not start, and quotas that
run out or do not: how far the cap may be passed, no batch is paid for twice, the
report counts the batches as they went, tokens are counted and the buffer is
kept where the batches run in sequence, and the stage ends even when the quota is
gone.

Known limits: with more than one thread the check and the call interleave, so
the calls may pass the configured cap by the other threads of the pool
(`docs/env_reference.md:11` calls it a hard cap); `CallsBounded` is the bound
that is kept, and it is proved. Of two threads that read the same
`llm_tokens_total` one update is lost, so tokens may be counted short, and an
answer that is observed late overwrites a newer quota: `TokensCounted` and
`BufferKept` have the premise that the batches run in sequence (`InSequence`: the
asynchronous mode is off, or its pool has one thread), and no property covers the
two effects in a larger pool. For every pool it is proved that tokens are never
counted twice (`NeverOvercounted`), so that the pool stops late at worst and never
too early. Before the first answer `BufferKept` promises nothing, and a failed call
spends requests without telling: the buffer may be passed by as many.

Bounds: three batches against a cap of three calls, a buffer of two and a reduce
floor of three, so that each of them is met; quotas of three, which the stage
uses up, and six, which it does not; answers of one or two tokens against an
estimate of two, so that the estimate can be too high or just right; one retry
and an alternate model; two faults, so that a call can fail after a failure.

Fairness: threads are scheduled and every HTTP call has a timeout, so every
started step of a thread and of the command is taken. Time passing has none.

## CommandFlow: from a comment to what GitHub shows

State: what GitHub holds (`head`, `branch`, `said`, `checks`, `statuses`, and the
set of marks in `reaction`), the requests `sent` to the hosted API, and the locals
of each run: where it is (`pc`), the commits it has read (`tree`, the checkout;
`named`, `audit["pr_head_sha"]` or the head of its context; `diff`, the file list),
its answer (`failed`), the attempts left (`tries`), the file
`check_run_payload.json` (`payload`), how `run_github_flow` ended (`outcome`) and
`audit["posted"]` in the audit file (`audit`). `pub` and `target` are the publisher
workflow of the run. A run's `kind` fixes the branch it takes and how it was
triggered; it is chosen in `Init` and never changes. `head` numbers the moves of the
branch and `branch[n]` is the commit it stood on after move `n`, so that a force
push may put it back on an earlier one; what a run has read is named by the move.
`unread`, `lost` and `unmarked` are history: a read that failed, comments stored
without confirmation, a step of the reactions that failed or was cut.

| action | code |
|---|---|
| `Push` | the author: a new commit, or a force push to an earlier one |
| `StartJob`, `StartFails` | the steps of `repobrain.yml` before the Action: eyes, checkout; one of them fails |
| `Unreact`, `React`, `ReactFails` | the step after it: the eyes are deleted, whose errors are ignored; rocket or confused face, whose errors are not; it fails or is cut in between |
| `Ignore`, `ReplyAtOnce`, `SendHosted`, `EnterHandler` | the branches of `run_github_flow` in their order |
| `ReadHead`, `FindClosed`, `ReadDiff` | `_build_review_markdown`: `get_pull`, the closed pull request, `get_pull_files` |
| `Analyse`, `HandlerRaises` | the handlers and what follows them; only a question is answered by an error reply |
| `Label` | `_resolve_pr_head_sha` and the payload of `_publish_pr_check_run` |
| `CheckAcknowledged`, `CheckUnanswered`, `CheckForbidden` | `publish_check_run`: one attempt each |
| `CommentAcknowledged`, `CommentUnanswered`, `CommentForbidden` | `create_issue_comment` through `_post_with_retry`: one attempt each |
| `Cancel`, `LoseRunner` | the job is cancelled (its `if: always()` steps run), or its runner is lost (nothing runs) |
| `Resolve`, `PublishDeferred`, `PublishFails`, `Probe` | `repobrain_checks_publisher.yml`: live head, POST, status fallback |

`Analyse` is one step because the handlers write nothing on GitHub; what their
conclusions say is left out (it is in `ReviewFix`), and only the commit they are
about is kept (`Subject`). The internal reactions of `run_github_flow` are off in
`action.yml` (`RB_DISABLE_INTERNAL_REACTIONS`), so only those of the workflow are
modelled.

Runs: `flow` takes one run of every kind through three pushes and three failures.
One run at a time suffices, because runs share nothing but GitHub, no run reads
there what another wrote, and every property speaks of one run; the theorems
hold for any number. Kinds that publish directly stand for workflows the
publisher does not watch. `flow_dry_run` shows that a dry run on a pull request
ends in a published check run, against the text of the input `dry_run`.
`RepliesBounded` and `NoSilentVerdict` are proved only.

Three failures are enough for a lost comment after a failed read and a reaction
that fails as well; three pushes put a move, forward or back, between any two of
the three reads of a review and the publisher's.

Known limits: a marker that cannot be posted ends with a rocket on the comment
although nothing was queued (the code returns normally there, and the audit file
says so). The payloads of two runs may be published in either order. The hosted
request is sent before dry run and issue number are looked at. The step that
replaces the eyes deletes them first and then posts the mark without a net
(`repobrain.yml:364-375`), so that an error or a cancellation between the two leaves
the comment with no mark at all: with a lost runner this is the exception that
`Settles` states. `LabelCovers` is about the order of the reads: when the branch is
forced back in the meantime, the check may be attached to an earlier commit than
the one it is about, though the head read before the diff and the one read for the
label are the same, and nothing warns. `QuietExact` says what is left: what a check is about was the head at some
time between checkout and label, so that it is exact where the branch stood still.

Fairness: a started job goes on and so does the publisher it triggers; nobody
has to write a command or push, and neither cancellation nor a lost runner is
fair. `Settles` needs no more.

## QuotaLedger and HostedApi: requests, tenants and quotas

`QuotaLedger` is what the daily quotas promise: `Grant` takes one unit of every bucket
of a request, of all or of none, on one day and below a ceiling; `NewDay` turns to
fresh buckets, and `Forget` is a restart, since usage is kept in memory. Looking and
charging are one step there.

`HostedApi` is the hosted service as it is written.

State: `kind`, what each request is like (tenant, route, profile and the checks it
would fail, so that texts and tokens stay out of the model); `shown`, what its
caller has in the end; `reply`, what the handler answered. A worker of the server
has `job`, `at`, the `window` it charges and the buckets still `due`. The stores are
`seen` (tenants) and `usage`; `granted` is history.

| action | code |
|---|---|
| `Send`, `Receive`, `GiveUp` | `send_audit_request` with the checks before it, its parsing of the reply, and its timeout |
| `Take`, `CheckRequest`, `VerifyToken`, `KeysUnavailable` | `handle_github_action_audit_request` up to the verified claims; the keys are fetched in between |
| `Provision` | `InMemoryTenantStore.upsert_from_verified_claims` |
| `Evaluate`, `Consume` | `evaluate_and_consume`: it looks at every bucket, then charges them one after the other |
| `RunAudit`, `Answer` | TopoCore and the answer built of it |
| `Midnight`, `Restart` | the day of the quota changes; the process and its memory are lost |

Run: `hosted`, two requests of seven kinds by two tenants to a server of one
thread, over a midnight and a restart. It checks that the accounts agree with what
was granted, and that the handlers implement `QuotaLedger` (`KeepsQuota`, by `Quota ==
INSTANCE QuotaLedger WITH ...`): a unit counts as charged from the moment it is
granted, so that the charges that follow one by one are stutters. Two requests and
limits of one make a bucket overflow while another of the same request still has
room, which is where a refused request could leave a trace; more requests, more
handlers and larger limits are covered by the proofs. There is no fairness:
everything checked is safety, and a client that gives up is told nothing.

Assumptions and limits: the handler makes new stores when it is passed none, so
the server is taken to pass its own. The ceiling of the promise is the limit of the
policy and one more for each further handler, because looking and charging are two
steps: with one worker it is the limit, so that `KeepsQuota` in the run includes
`QuotaKept`, which is proved with one worker as its premise. `AccountsAgree`,
`KeepsQuota` and `OverrunBounded` are proved for any number of workers. One charge is
taken to be atomic.

## QaTwoPass: ask, explain and locate

State: the invocation `inv` (command, configuration, environment); `pass`,
`provider`, `attempt` and `limited` of the passes; `loaded`, what `sys.modules` has
for the v6 runtime; `result` and `meta`, the answer and its record; `audit`, `llm`
and `page`, what comes of it. `answeredBy` and `late` are history.

| action | code |
|---|---|
| `Resolve` | `resolve_tky_mode`, `decide_remote_usage`, `make_provider` |
| `Retrieve` | one retrieval of `run_qa_two_pass` |
| `Baseline` | `BaselineTKYProvider` |
| `Remote` | `RemoteTKYProvider.compress_context`: payload, privacy check, posts, retries, answers |
| `FailOpen`, `FailClosed` | the two ends of `_answer_with_remote_fallback` |
| `Load`, `Unserved`, `Decide`, `EngineFails` | `LocalTKYProvider`, the choice of a backend, the import of the runtime, the decision |
| `Route` | the second pass, or the route that counts |
| `Plan`, `AskModel`, `Render` | the execution mode, the language model, the comment |

Run: `qa`, with invocations in three families (remote, baseline, local), each of
which varies what its provider looks at: a full product would add no behaviour,
since the providers read disjoint parts of the environment. `MaxRetries` is 2 so
that a retry may follow a retry; three candidates, because the mode of an answer
turns on whether three are selected.

Fairness: the command is one sequential process whose calls have timeouts, so
some enabled step is taken (`WF_vars(Next)`); `Ends` needs no more.

Known limits: when the first pass succeeds and the second falls back, the reason
of the fallback is lost in the audit (`github_flow.py:5375`), so `AuditTellsEngine`
asks for a reason in the first pass only; a request that must be signed but has
no secret raises instead of falling back; a nonce is used again in a retry
(`tky_remote.py:283`); a second pass that answers the raw word "REFUSE" keeps the
evidence it selected; the inspection of an import reports an installed package
for a module loaded from a path; only one class of errors of the adapter becomes
a backend error, others end the command; a refused `explain` or `locate` is
published under the heading of an answer (`github_flow.py:7033`,
`docs/tkya_contract.md:37`).

## RunCaches: what runs leave for one another

State: `tip` and `newest`, the branches; `indexes` and `saved`, the caches of GitHub
Actions; and for each run its own copy of the directory and of the index (`dir`,
`disk`), the commits it started from (`sha`, `tree`, `exact`), the head and the diff it
read, the snapshot it took (`hit`) and the comparison it told (`told`). `due`, `ledger`,
`wiped`, `overlapped` and `moved` are history: `ledger` holds the last review saved of
each pull request, whatever becomes of the files it was saved in, and `wiped` the
reviews that were in a file cut short or in an expired cache.

| action | code |
|---|---|
| `Start` | checkout and restore steps of `repobrain.yml` |
| `LoadIndex`, `BuildIndex` | `load_or_build_chunks_with_meta`; `repobrain_index_cache.yml` |
| `ReadHead`, `ReadDiff` | the pull request and its files |
| `Compare` | `compute_review_delta_and_store` |
| `Retrieve` | load a snapshot, or retrieve and store one |
| `Save`, `PostIndex` | the save steps |
| `Stops`, `Torn`, `Lost`, `Expire` | a run fails or is cancelled (its `always()` steps run); a file is cut short; the runner is lost; a cache is evicted |
| `Push`, `MoveBack` | the author; a force push to an older head |

Run: `caches`, three runs, numbered in the order of their starts, of which two may be
active at once: two for an interleaving, a third to read what they left. Plans
say which command each run executes; they pair every writer of a cache with
every reader. One entry of the review memory and two snapshots are enough for
each limit to evict something; one fault, since properties are about what a
single fault leaves. There is no fairness.

The premises are part of the properties: `ComparedWithTheLast` holds while runs do
not overlap (with two at once the last to save wins, and the code promises no
order), and after a review that was wiped the next one is told as the first of its
pull request, never compared with an older one; `HitIsOfItsHead` while no head moves
back. Clock skew, writes within the same second and the fingerprint file, which only
reports, are left out.

Known limits: the index saved under the key of a commit may be of another commit
(`repobrain_index_cache.yml:25`); a change of the matching mode reports all findings
as both new and resolved; the memory is updated before the reply is posted
(`github_flow.py:8625`); the embedding with index 0 is read as missing. The key of a
vector is a hash of file, lines and text without regard to white space
(`index_store.py:88-100`), while the raw text is embedded (line 284): a file that is
only indented anew keeps its old vector. `VectorsFitTheIndex` therefore promises the
same words and lines, not the same text.

## ReviewFix: review and fix

State: what was read (`inv`, `pr`, `checks`, `engine`, `targets`), what the model
said (`text`, `provider`, `batch`, and as history `asks`, the texts it was asked
for), the patch with its source and `verdict`, and what is told (`generation`,
`class`, `route`, `check`, `written`). A diff is the set of files that its headers
name, the set it takes away without naming them, and the template words in it. A
pull request is the content of its files: `Raised` and `ConfirmedFindings` derive
from it what `build_pr_review` raises and `validate_review_findings` leaves
confirmed (`Reviewed`).

| action | code |
|---|---|
| `OutOfScope`, `ReadPull`, `Verify`, `AskEngine` | the first half of `_build_review_markdown`: early replies, files, `run_verification`, the route |
| `Target` | `select_patch_targets` and the block without localized evidence |
| `Decide` | batches, one call, or none |
| `Call`, `AfterCall`, `Compact` | `_maybe_generate_llm_text`, and the second call when the first was too large |
| `BatchAnswers`, `Reduce` | one batch of `_run_batch_llm_review_fix`, merged by `_merge_patch_parts`; after several, the call that puts their answers in one |
| `Extract`, `Validate` | the text becomes a patch, or not: guard, validator, grounding |
| `Settle`, `EndReview`, `Conclude` | result, governance class, `patch.diff`, conclusion of the check |

An asking is one call of `_maybe_generate_llm_text`; what it tries again inside, with
an alternate model too, is bounded in `LlmBudget`.

Runs: `review_fix` and, for a finding, `fix_unverified`: a fix for which
`RB_REQUIRE_VERIFY_FOR_PATCH` is set, "Require verification pass for patch success"
(`docs/env_reference.md:73`), ends in a successful check though the verification
failed or did not run, because `checks_md.py:86` looks at the patch result alone and
never at the conclusion of `quality_gates.py:49-54`. `VerdictsAgree` says what the
four places do agree on: a patch is told as valid and patchable if and only if it is
written, no fix is green without one, and one with it is green unless verification
is required and missing. Two files and a stray one: enough for a patch to touch a
target, a changed file that is no target, and a file outside; two batches, so that
parts can conflict. The engine is an environment that may answer any route with any
mode and a patch of its own, except that a blocking route overrules its mode. There
is no fairness.

Known limits: the validation confirms no other finding than conflict markers (risks
of a name are drivers, the wording of a secret is informational), so with
`patch_require_localized_evidence`, the default, a fix writes a patch only if a
target has such a marker (`WrittenPatchIsGrounded`), for which a line of equals
signs will do (`review.py:44`); the level of risk does not enter the check. A
request to mutate ends as "no patch" and not as blocked by policy; a conflicting
patch is told as valid, with the route WAIT; patches of an engine or of batches
bypass the guard (`WrittenPatchIsGrounded` says so); grounding is skipped where
evidence is not required and no file is left; a batch that fails overwrites the
deterministic summary; a provider that fails in batches, or without a status, is
told as a patch that failed its validation; a success after a fallback that is
garbled is told as a provider failure; parts of a patch are written to the artifacts
before they are validated; a route BLOCK in a review ends in a neutral check; one
governance class is unreachable. The validator reads the files of a diff from its
`+++` lines and from the second path of a header of git
(`patch_validator.py:41-59`): a file that is deleted without such a header, or the
source of a renaming, is not among them, so that a patch that is written may take
away a file outside of its targets. `WrittenPatchIsGrounded` speaks of the files
named, and says so.

## AuditReport: audit and score

State: the repository as the set of signals its files give and the permissions
its workflows grant; `resp`, the answer of the v6 runtime; `report` and `summary`; the
`narrative`; the comment that is `shown`.

| action | code |
|---|---|
| `Unsupported`, `Score` | a runtime that is no longer supported; `score_repository_audit` with the ten rules and the gaps |
| `AskFails`, `Reject`, `Stumble`, `Accept` | `enrich_audit_report_with_optional_v6`: no capability or a failed call, an answer the contract rejects, one it stumbles over, one that is merged |
| `Narrate`, `NoNarrative` | `_maybe_attach_audit_narrative` with its filters |
| `Render` | `render_audit_markdown` with its guards, bounded to the size of a comment |

Run: `audit`, with full, new and empty repositories, a full one with every choice of
permissions, every kind of answer and texts that raise, keep and date. Wording,
order and limits on lines are left out: they drop only lines that the
properties would allow.

Known limits: the delta of an adjustment that is no number raises out of the
validation (`audit_contract.py:223`; the scoring contract, section 7, promises the
static report) and is modelled as `Stumble`; a warning about a band that does not
fit is the seventh of six; the comment of a static or rejected audit has a section of
adjustments that says "v6 enrichment accepted" (`output_md.py:3834`), so that
`EngineIsHonest` is about the report and the audit file and not about the comment; an
improvement is dropped when the text of its category is the title of a category at
its maximum, whatever its own title names (`audit_contract.py:781-798`), so that
`NoMaxedAdvice` is about the category it is filed under; lines of the roadmap about
code quality are never dropped; dated lines go only where some category is at
its maximum; the advisory on an excused permission never passes its own filter;
statuses `unsupported` and `error_sanitized` are merged like any other.

## EvidencePlan: what the engine and the model are shown

State: the command with its pull request and index (`inv`); `evidence`, the candidates
that are left; `selected`, what the budget kept; `batches`; how many are `sent`. A
path is its place in the order of names, a score is in hundredths.

| action | code |
|---|---|
| `Retrieve` | `scope_chunks_incremental`, `retrieve_topk_pro`, `rerank_candidates`, for ask, explain and locate |
| `Budget`, `Filter` | `plan_evidence_budget`, `filter_candidate_evidence`, in the order of the command |
| `Answer` | the evidence goes to the provider |
| `Plan` | `plan_batches`: units of files, patches dealt to them, packed to the room of a call |
| `Split` | the halves of forced mode and the cap on hunks |
| `Send` | the first batches, as many as the stage may call |

Run: `plan`, twenty-four paths, of which the first nine are of six kinds, one of
them private; pull requests from no file to nine, and of twelve, eighteen and all
files, where the parts of the evidence budget pass their floors and have to be cut
(`CodeIsKeptFirst`: a candidate of code is left out only where the evidence is at
its limit and one more would pass the share that the command has for code); patches
of ordinary size, larger than a call, of several hunks and missing, listed in either
order. `Room` is ten tokens, so that two to three patches fill a call; three calls,
so that a large request has more batches than are sent.

Left out: retrieval by vectors, the boosts of two directories, the further bounds of
pull requests of forty files and more, hunks with equal texts, the choice of a
model. The classifiers of paths of filter, segmenter and budget are taken to agree.

Known limits: patches carry no file name, so they are dealt round-robin over the
sorted names; they meet their file where every file has a patch and the order is
GitHub's (the premise `Plain` of `PatchWithItsFile`), and miss it otherwise, as they
may in a fix. The segments never reach the batch planner, so that the batches
beyond the calls are the last by name and not the least important. Forcing
halves a batch of a single patch into two that both have it. The filter keeps its
first candidate even if it refuses all.

## Proofs

The proofs assume only the named `ASSUME`s of the modules, which TLC evaluates
in every run. All theorems hold for every value of the constants.

`ControlWorkerProofs`: `TypeCorrect`, `AnswersAreAsked`, `SkipsAreSound`,
`RunsDeduplicate`, `AtMostOnce`, `KeepsTheLedger`, `NothingLost` and
`ConfirmedQueueKeepsTheLedger`. The invariants are not inductive alone: what
a run holds was read some time ago, and the argument is that threads only grow,
so that what was read stays true. The inductive invariant adds where the
comments in a run's hands come from (`FromTheThread`), that the index remembers
the run's own answers (`Remembers`), and, for a lone run that listed its
repository in full, that the index is complete (`IndexComplete`).

`KeepsTheLedger` is the refinement of `RequestLedger` without its deadline, under
the mapping that the run checks: `Enqueue` is `Ask` or a repetition of it,
`PostAcknowledged` is `Answer`, every other step a stutter. That the post is the
first answer is what has to be shown: a marker in a thread was counted when it was
asked (`Counted`), and a complete index that misses the request has seen no result
for it. The premises are those of the code's deduplication: runs do not overlap,
threads fit in one listing, and no confirmation is lost; `NothingLost` shows that the
last one holds wherever that fault cannot occur, as in the run `worker_ledger`,
whatever is killed or refused.

`LlmBudgetProofs`: `TypeCorrect`, `CapOverrun`, `NoBatchPaidTwice`,
`ReportComplete`, `OneThreadIsSerial`, `TokensInSequence`, `BufferInSequence` and
`TokensNeverOvercounted`. `CallsBounded` needs `OneSide`: the command's own thread
works only while the pool is idle, so that a thread that passes the check has at
most the other threads of the pool beside it. `PaidOnce` needs to know that nobody
holds a batch twice and that a batch which is neither held nor finished was never
paid for (`OneHolder`, `Unpaid`), which is what the recovery pass relies on.
`ReportIsExact` is about the counter of completed batches, which the pool sets and
the recovery pass advances: in a serial pass each batch without a result is still to
do or in hand (`Accounted`), and in the recovery pass the counter, the batches to do
and the one in hand add up to the plan (`Tallied`). `TokensCounted` and `BufferKept`
have as a premise that the batches run in sequence; then the pool is never used, and
`Alone` says that the tokens spent are the counted ones and the answer in hand, and
that the quota last told is what is left and what failed calls have spent since
(`untold`), from the first answer on. `NeverOvercounted` is proved for every pool:
what each thread has read of the total, and the total, stay within what was spent
even when all answers that are still to be counted are added (`CoveredInv`). This
needs the sum of those answers over any number of threads. A recursive sum could not
be reasoned about, so the invariant says that there is a function on the sets of
threads that grows by one thread's answer with each thread (`IsSum`), and
`SumChanges` makes the next one from it.

`CommandFlowProofs`: `TypeCorrect`, `ChecksCover`, `ChecksAreExact`, `AuditAgrees`,
`RepliesAreBounded`, `VerdictsAreNotSilent`, for any number of runs, pushes back and
forth and failures. A check is made of commits read at different times, so
`LabelCovers` is not inductive: `Reading` says that what a run has read was read in
order and not after the last move of the head, `Publishing` that a payload, and
every check made from it, is about something the run itself read no earlier than its
checkout, and no later than the label unless a read failed. `Staged` says who may
have a payload. For the reply, `Counted` says that until the POST is confirmed every
stored reply was stored without confirmation, and that the attempts left and the
replies stored never exceed the limit together; `Explained` ties each end of a run
to the branch that leads there.

`HostedApiProofs`: `TypeCorrect`, `QuotaIsKept` (one worker), `ChargesAreKnown`,
`AccountsAreExact`, `KeepsTheQuota` and `OverrunIsBounded` (any number of workers).
`AccountsAgree` counts: usage and the workers that still owe add up to the requests
granted. Each charge moves one from the owed to the usage, and the step that grants
adds one to both sides; the proof needs that a request has one worker at most and
passes the quota once. `KeepsTheQuota` is the refinement of `QuotaLedger`, step by
step: `Evaluate` that finds room is `Grant` of all buckets of the request,
`Midnight` is `NewDay`, `Restart` is `Forget`, and `Consume` moves a unit from the
owed to the usage, which changes nothing of their sum. What has to be shown is the
guard of `Grant`: a handler that looks owes nothing itself, so that at most the
other handlers owe units beside the usage it sees below the limit (`RoomForAll`).
The overrun follows from the promise alone: `QuotaLedger` never grants above its
ceiling, and usage is within what was granted. With two workers the bound is
reached: both look before either charges.

`QaTwoPassProofs`: `TypeCorrect`, `StoppedStaysQuiet`, `FallbackGoverned`,
`ModuleIsKept`, `AuditIsTold`. `QuietInv` carries a blocking route through coercion
and the second pass to the place where the model would be asked; `FallbackInv` says
that the provider is not the remote any more once the baseline has answered in its
place. `AuditTellsEngine` compares what the audit says with what really answered.
`AuditInv` says which provider the first pass asks, that a failed one leaves its
reason, and that from the route on the record names the engine that answered last,
with the reason of a fallback in the first pass.

`RunCachesProofs`: `TypeCorrect`, `VectorsAlwaysFit`, `HitsAreOfTheirHead`,
`ComparedWithTheLastOne`, for any number of runs and commits. A cached file was
written by another run, so each proof carries a fact about the writer through save,
restore and eviction. `Where` (`CanBe`) says what a run can have read at the place
where it is. Vectors are cached under the hash of their file, lines and words, so
whatever index a run has loaded or built, a vector that it finds was made of the
chunk's words and lines. For a snapshot (`HeadInv`): while no head moves back tips
only grow; a stored snapshot has a key not newer than its diff, and a diff not newer
than the tip; a run reads its head after it has restored its caches, so that a hit
under this head has a diff that is no older than the key and no newer than the head,
which are equal. For the memory of reviews (`LastInv`): while runs do not overlap
there is one active run at most, and what is saved is the ledger of what was told,
but for what was wiped (`Carries`). `NoneIsNothing` and the assumption that reviews
and fixes have a pull request are stated by name: the flow ends earlier otherwise
(`github_flow.py:8489-8530`).

`ReviewFixProofs`: `TypeCorrect`, `WrittenIsGrounded`, `FourVerdicts`,
`NoPatchHasReason`, `CallsAreBounded`. One invariant for each stage says what the
stages before it have established: who was asked and how often (`AskedInv`,
`BatchInv`), where the patch comes from (`PatchInv`), why there is none (`NoPatchInv`)
and what was told of it (`ToldInv`).

`AuditReportProofs`: `TypeCorrect`, `EnginesAreTold`, `AdviceIsFair`, `BlockersAgree`,
`ScoresAreMonotone`. The rules of the score are compared for any two repositories
of which one shows more (`RulesMonotone`), and each blocker with the rule of its
category (`BlockedBelow`); the stages then carry over that the report is the
baseline's until an answer is accepted.

Model-checked only: liveness (`KeepsLedger`'s deadline, `Terminates`, `Settles`,
`Ends`), which is out of the prover's reach here; the premises of `KeepsTheLedger`
that threads fit in one listing, which the bounds of the run give by counting; and
all of `EvidencePlan`, whose operators sort and fold over sequences: what they
compute for every input needs induction over the data. `DryRunPublishesNothing` and
`SuccessIsVerified` are refuted.

## What is not modelled, and why

* Text: prompts, Markdown, the parsing of diffs, YAML and command lines; they
  appear as records of what later decisions look at.
* The algorithms of compression, text search and embedding: floating-point ranking
  over texts without state; their scores are inputs.
* The choice of a language model by profile, the payload mapping and the shadow
  path of the v6 adapter: tables and sequential code that unit tests reach.
* Developer tooling (release, readiness, research and end-to-end scripts): outside
  of the running system.

`PROJECT.json` lists the components with their status.

## Plan

Done: the modules above and their proofs. What remains, in order:

1. The shadow path of the v6 adapter and its decision diff, beside `QaTwoPass`.
2. The choice of a model against the quota that `LlmBudget` keeps.
