--------------------------- MODULE ControlWorker ---------------------------
(***************************************************************************)
(* The GitHub-native request queue: RepoBrain's Action posts an issue      *)
(* comment that carries a queue marker, and runs of the private control    *)
(* worker (repobrain/control_worker.py) read the recent comments of every  *)
(* repository, hand each unanswered request to the TopoCore entrypoint and *)
(* post a result marker in the same repository.  The comments are the only *)
(* memory shared by producers and runs: there is no lock, no claim marker  *)
(* and no database.                                                        *)
(*                                                                         *)
(* A comment carries at most one marker, as the producers write them.      *)
(***************************************************************************)
EXTENDS Integers, Sequences, FiniteSets

CONSTANTS
  Requests,        \* request ids (build_queue_request: a hash of the command's origin)
  Repos,           \* repositories of the installation
  RepoOrder,       \* the order in which a run visits them
  RepoOf,          \* RepoOf[r]: the repository whose comment asked r
  Workers,         \* worker runs that may be under way at the same time
  Limit,           \* max_queue_items: comments listed per repository, markers per run
  Unpublishable,   \* requests whose public fields trip _assert_public_safe
  Unreadable,      \* requests whose issue or pull request cannot be read (403, 404)
  DryRunModes,     \* the values REPOBRAIN_CONTROL_WORKER_DRY_RUN takes
  NoRequest,       \* the request of a comment without a usable marker
  MaxEnqueue,      \* bound: times the marker of one request is posted
  MaxNoise,        \* bound: MaxNoise[p] other comments in repository p
  FaultKinds,      \* what may go wrong: "answer_lost", "refused", "abort"
  MaxFaults        \* bound: failed calls and killed runs

ASSUME ControlWorkerAssumption ==
  /\ RepoOrder \in Seq(Repos)
  /\ \A i, j \in 1..Len(RepoOrder) : RepoOrder[i] = RepoOrder[j] => i = j
  /\ RepoOf \in [Requests -> Repos]
  /\ Limit \in Nat \ {0}
  /\ Unpublishable \subseteq Requests
  /\ Unreadable \subseteq Requests
  /\ DryRunModes \subseteq BOOLEAN
  /\ FaultKinds \subseteq {"answer_lost", "refused", "abort"}
  /\ NoRequest \notin Requests
  /\ MaxEnqueue \in Nat /\ MaxNoise \in [Repos -> Nat] /\ MaxFaults \in Nat

VARIABLES
  thread,    \* thread[p]: the comments of repository p, oldest first
  enqueued,  \* enqueued[r]: times the marker of r was posted
  noise,     \* noise[p]: comments of p that ask nothing
  faults,    \* faults so far
  pc,        \* where each run is
  dry,       \* dry[w]: run w was started with dry_run
  repoIx,    \* repoIx[w]: the repository run w visits, as an index of RepoOrder
  snap,      \* snap[w]: listed comments run w has not looked at, newest first
  done,      \* done[w]: result_status_by_request_id, requests known to be answered
  seen,      \* seen[w]: global_seen, markers counted against Limit
  work,      \* work[w]: the request in hand and the verdict to be posted
  acked,     \* history: results this run posted and GitHub confirmed
  lost       \* history: requests whose result landed while the run saw an error

queueVars  == <<thread, enqueued, noise>>
runVars    == <<pc, dry, repoIx, snap, done, seen, work, acked>>
vars       == <<queueVars, faults, runVars, lost>>

Verdicts == {"completed", "failed"}
Kinds    == Verdicts \cup {"queue", "inert", "other"}
Comment  == [kind : Kinds, req : Requests \cup {NoRequest}]
Stages   == {"idle", "list", "scan", "context", "invoke", "post"}

TypeOK ==
  /\ thread \in [Repos -> Seq(Comment)]
  /\ enqueued \in [Requests -> Nat]
  /\ noise \in [Repos -> Nat]
  /\ faults \in Nat
  /\ pc \in [Workers -> Stages]
  /\ dry \in [Workers -> BOOLEAN]
  /\ repoIx \in [Workers -> Nat \ {0}]
  /\ snap \in [Workers -> Seq(Comment)]
  /\ done \in [Workers -> SUBSET Requests]
  /\ seen \in [Workers -> Nat]
  /\ work \in [Workers -> Comment]
  /\ acked \in [Workers -> SUBSET Requests]
  /\ lost \in SUBSET Requests

Idle == [kind |-> "other", req |-> NoRequest]

Init ==
  /\ thread = [p \in Repos |-> <<>>]
  /\ enqueued = [r \in Requests |-> 0]
  /\ noise = [p \in Repos |-> 0]
  /\ faults = 0
  /\ pc = [w \in Workers |-> "idle"]
  /\ dry = [w \in Workers |-> FALSE]
  /\ repoIx = [w \in Workers |-> 1]
  /\ snap = [w \in Workers |-> <<>>]
  /\ done = [w \in Workers |-> {}]
  /\ seen = [w \in Workers |-> 0]
  /\ work = [w \in Workers |-> Idle]
  /\ acked = [w \in Workers |-> {}]
  /\ lost = {}

-----------------------------------------------------------------------------
(* The comments of a repository                                            *)

IsResult(c, r) == c.kind \in Verdicts /\ c.req = r

\* The results in a list of comments that answer r.
ResultsFor(s, r) == {i \in 1..Len(s) : IsResult(s[i], r)}

Answered(r) == ResultsFor(thread[RepoOf[r]], r) # {}

\* GitHub's answer to `sort=updated&direction=desc&per_page=Limit`: comments
\* are never edited, so the newest come first.
Recent(s) ==
  LET n == IF Len(s) < Limit THEN Len(s) ELSE Limit
  IN  [i \in 1..n |-> s[Len(s) + 1 - i]]

Say(p, c) == thread' = [thread EXCEPT ![p] = Append(@, c)]

-----------------------------------------------------------------------------
(* The producers: the partner repository's workflow and its users          *)

\* A marker is posted: by the first run of the workflow for a command, by a
\* re-run of that workflow (same GITHUB_RUN_ID, hence the same request id), or
\* by the retry of a POST whose answer was lost.
Enqueue(r) ==
  /\ enqueued[r] < MaxEnqueue
  /\ enqueued' = [enqueued EXCEPT ![r] = @ + 1]
  /\ Say(RepoOf[r], [kind |-> "queue", req |-> r])
  /\ UNCHANGED <<noise, faults, runVars, lost>>

\* Any other comment; an inert one has a marker that is malformed or whose
\* status is not `queued`.
Chatter(p) ==
  /\ noise[p] < MaxNoise[p]
  /\ noise' = [noise EXCEPT ![p] = @ + 1]
  /\ \E k \in {"other", "inert"} : Say(p, [kind |-> k, req |-> NoRequest])
  /\ UNCHANGED <<enqueued, faults, runVars, lost>>

-----------------------------------------------------------------------------
(* One run of the worker                                                   *)

Goto(w, stage) == pc' = [pc EXCEPT ![w] = stage]

CurrentRepo(w) == RepoOrder[repoIx[w]]

\* Counters and the index are local to run_control_worker_once.
StartRun(w) ==
  /\ pc[w] = "idle"
  /\ Goto(w, "list")
  /\ \E mode \in DryRunModes : dry' = [dry EXCEPT ![w] = mode]
  /\ repoIx' = [repoIx EXCEPT ![w] = 1]
  /\ seen' = [seen EXCEPT ![w] = 0]
  /\ acked' = [acked EXCEPT ![w] = {}]
  /\ UNCHANGED <<queueVars, faults, snap, done, work, lost>>

\* Mistake: the index of existing results is not built.
ListComments_NoIndex(w) ==
  /\ pc[w] = "list"
  /\ repoIx[w] <= Len(RepoOrder)
  /\ snap' = [snap EXCEPT ![w] = Recent(thread[CurrentRepo(w)])]
  /\ done' = [done EXCEPT ![w] = {}]
  /\ Goto(w, "scan")
  /\ UNCHANGED <<queueVars, faults, dry, repoIx, seen, work, acked, lost>>

\* One listing per repository; the index is built from it and from nothing
\* else, and is not refreshed while the repository is being worked on.
ListComments(w) ==
  /\ pc[w] = "list"
  /\ repoIx[w] <= Len(RepoOrder)
  /\ LET listed == Recent(thread[CurrentRepo(w)])
     IN  /\ snap' = [snap EXCEPT ![w] = listed]
         /\ done' = [done EXCEPT ![w] = {r \in Requests : ResultsFor(listed, r) # {}}]
  /\ Goto(w, "scan")
  /\ UNCHANGED <<queueVars, faults, dry, repoIx, seen, work, acked, lost>>

BudgetSpent(w) == seen[w] >= Limit

\* Looks at the next listed comment.  Every marker counts against Limit, also
\* an invalid one and one whose request is already answered.
Scan(w) ==
  /\ pc[w] = "scan"
  /\ snap[w] # <<>>
  /\ ~BudgetSpent(w)
  /\ LET c == Head(snap[w])
         counts == c.kind \in {"queue", "inert"}
     IN  /\ snap' = [snap EXCEPT ![w] = Tail(@)]
         /\ seen' = [seen EXCEPT ![w] = IF counts THEN @ + 1 ELSE @]
         /\ IF c.kind = "queue" /\ c.req \notin done[w]
            THEN Goto(w, "context") /\ work' = [work EXCEPT ![w] = c]
            ELSE UNCHANGED <<pc, work>>
  /\ UNCHANGED <<queueVars, faults, dry, repoIx, done, acked, lost>>

LeaveRepo(w) ==
  /\ pc[w] = "scan"
  /\ snap[w] = <<>>
  /\ ~BudgetSpent(w)
  /\ repoIx' = [repoIx EXCEPT ![w] = @ + 1]
  /\ Goto(w, "list")
  /\ UNCHANGED <<queueVars, faults, dry, snap, done, seen, work, acked, lost>>

EndRun(w) ==
  /\ \/ pc[w] = "scan" /\ BudgetSpent(w)
     \/ pc[w] = "list" /\ repoIx[w] > Len(RepoOrder)
  /\ Goto(w, "idle")
  /\ UNCHANGED <<queueVars, faults, dry, repoIx, snap, done, seen, work, acked, lost>>

\* get_issue_or_pull_request_context, then the dry-run exit.
FetchContext(w) ==
  /\ pc[w] = "context"
  /\ work[w].req \notin Unreadable
  /\ Goto(w, IF dry[w] THEN "scan" ELSE "invoke")
  /\ UNCHANGED <<queueVars, faults, dry, repoIx, snap, done, seen, work, acked, lost>>

\* An HTTP error of the context call is not caught: it ends the run.
ContextDenied(w) ==
  /\ pc[w] = "context"
  /\ work[w].req \in Unreadable
  /\ Goto(w, "idle")
  /\ UNCHANGED <<queueVars, faults, dry, repoIx, snap, done, seen, work, acked, lost>>

\* The entrypoint answers.  A result the leak guard refuses is caught with the
\* posting errors and skipped.
InvokeSucceeds(w) ==
  /\ pc[w] = "invoke"
  /\ work' = [work EXCEPT ![w].kind = "completed"]
  /\ Goto(w, IF work[w].req \in Unpublishable THEN "scan" ELSE "post")
  /\ UNCHANGED <<queueVars, faults, dry, repoIx, snap, done, seen, acked, lost>>

\* Mistake: a status no reader of the result marker knows.
InvokeFails_UnknownStatus(w) ==
  /\ pc[w] = "invoke"
  /\ work' = [work EXCEPT ![w].kind = "error"]
  /\ Goto(w, IF work[w].req \in Unpublishable THEN "idle" ELSE "post")
  /\ UNCHANGED <<queueVars, faults, dry, repoIx, snap, done, seen, acked, lost>>

\* Mistake: the failure is counted and nothing is posted.
InvokeFails_Silent(w) ==
  /\ pc[w] = "invoke"
  /\ Goto(w, "scan")
  /\ UNCHANGED <<queueVars, faults, dry, repoIx, snap, done, seen, work, acked, lost>>

\* TopoCoreEntrypointError, the retryable timeout included.  build_failed_result
\* runs outside any try: when the leak guard refuses it, the run ends.
InvokeFails(w) ==
  /\ pc[w] = "invoke"
  /\ work' = [work EXCEPT ![w].kind = "failed"]
  /\ Goto(w, IF work[w].req \in Unpublishable THEN "idle" ELSE "post")
  /\ UNCHANGED <<queueVars, faults, dry, repoIx, snap, done, seen, acked, lost>>

PostAcknowledged(w) ==
  /\ pc[w] = "post"
  /\ Say(CurrentRepo(w), work[w])
  /\ done' = [done EXCEPT ![w] = @ \cup {work[w].req}]
  /\ acked' = [acked EXCEPT ![w] = @ \cup {work[w].req}]
  /\ Goto(w, "scan")
  /\ UNCHANGED <<enqueued, noise, faults, dry, repoIx, snap, seen, work, lost>>

Fault(kind) ==
  /\ kind \in FaultKinds
  /\ faults < MaxFaults
  /\ faults' = faults + 1

\* GitHub stored the comment but the run saw a timeout or a 5xx.
PostAnswerLost(w) ==
  /\ pc[w] = "post"
  /\ Fault("answer_lost")
  /\ Say(CurrentRepo(w), work[w])
  /\ lost' = lost \cup {work[w].req}
  /\ Goto(w, "scan")
  /\ UNCHANGED <<enqueued, noise, dry, repoIx, snap, done, seen, work, acked>>

\* Mistake: the request is entered in the index before the post succeeds.
PostRefused_Indexed(w) ==
  /\ pc[w] = "post"
  /\ Fault("refused")
  /\ done' = [done EXCEPT ![w] = @ \cup {work[w].req}]
  /\ Goto(w, "scan")
  /\ UNCHANGED <<queueVars, dry, repoIx, snap, seen, work, acked, lost>>

PostRefused(w) ==
  /\ pc[w] = "post"
  /\ Fault("refused")
  /\ Goto(w, "scan")
  /\ UNCHANGED <<queueVars, dry, repoIx, snap, done, seen, work, acked, lost>>

\* The job is cancelled or times out, or a GET fails for a passing reason.
Abort(w) ==
  /\ pc[w] # "idle"
  /\ Fault("abort")
  /\ Goto(w, "idle")
  /\ UNCHANGED <<queueVars, dry, repoIx, snap, done, seen, work, acked, lost>>

-----------------------------------------------------------------------------
Post(w) == PostAcknowledged(w) \/ PostAnswerLost(w) \/ PostRefused(w)

RunStep(w) ==
  \/ StartRun(w) \/ ListComments(w) \/ Scan(w) \/ LeaveRepo(w) \/ EndRun(w)
  \/ FetchContext(w) \/ ContextDenied(w)
  \/ InvokeSucceeds(w) \/ InvokeFails(w) \/ Post(w) \/ Abort(w)

Next ==
  \/ \E r \in Requests : Enqueue(r)
  \/ \E p \in Repos : Chatter(p)
  \/ \E w \in Workers : RunStep(w)

Spec == Init /\ [][Next]_vars

\* A run that was started is carried on, as a job of GitHub Actions is. Nothing in the
\* repository starts one: the schedule of the example workflow is commented out.
FairSpec == Spec /\ \A w \in Workers : WF_vars(pc[w] # "idle" /\ RunStep(w))

-----------------------------------------------------------------------------
(* Safety                                                                  *)

OneRunAtATime == \A v, w \in Workers : v = w
WholeThreadListed(p) == Len(thread[p]) <= Limit
InHand(w) == pc[w] \in {"context", "invoke", "post"}

\* Within one run a request is answered once, however many copies of its marker
\* are listed: a request in hand is not one this run has already answered
\* (result_status_by_request_id is updated after each post).
OneAnswerPerRun == \A w \in Workers : InHand(w) => work[w].req \notin acked[w]

\* A request is skipped as already processed only if its answer stands in its
\* repository: a post that failed must not be remembered as an answer.
SkippedOnlyWhenAnswered == \A w \in Workers : \A r \in done[w] : Answered(r)

\* Every result stands in the repository that asked, below the marker that asked
\* (post_issue_comment is given the repository and issue of the marker).
NoAnswerWithoutQuestion ==
  \A p \in Repos : \A i \in 1..Len(thread[p]) :
    thread[p][i].kind \in Verdicts =>
      \E j \in 1..(i - 1) : thread[p][j] = [kind |-> "queue", req |-> thread[p][i].req]

\* Deduplication across runs, where the code can deliver it: if runs do not
\* overlap, a request all of whose results were confirmed has at most one result
\* for as long as the whole thread fits in the listing.
AnsweredAtMostOnce ==
  OneRunAtATime =>
    \A r \in Requests \ lost :
      WholeThreadListed(RepoOf[r]) =>
        \A i, j \in ResultsFor(thread[RepoOf[r]], r) : i = j

-----------------------------------------------------------------------------
(* The promise                                                             *)

Ledger == INSTANCE RequestLedger WITH
  asked   <- {r \in Requests : enqueued[r] > 0},
  answers <- [r \in Requests |-> Cardinality(ResultsFor(thread[RepoOf[r]], r))]

\* The operator of the installation goes on starting runs, and not only dry ones.
RunsKeepComing == \A w \in Workers : []<>(pc[w] # "idle" /\ ~dry[w])

\* The queue keeps the ledger's promise through refused posts, killed runs, dry runs and
\* markers posted again: a request is answered at most once and only if it was asked; and
\* if its operator goes on starting runs, what was asked is answered.
KeepsLedger == Ledger!SafeSpec /\ (RunsKeepComing => Ledger!Answering)
=============================================================================
