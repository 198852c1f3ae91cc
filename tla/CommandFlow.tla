---------------------------- MODULE CommandFlow ----------------------------
(***************************************************************************)
(* From a `/repobrain` comment to what GitHub shows: workflow runs of the  *)
(* Action answer comments on one pull request while its author pushes.  A  *)
(* run reads the pull request several times (checkout, head, files, head   *)
(* again), publishes a check run, or leaves its payload to the workflow    *)
(* "RepoBrain Checks Publisher", posts its reply and reacts.  Every call   *)
(* to GitHub is a step of its own, may fail, and a POST may be stored      *)
(* although the run sees an error.                                         *)
(***************************************************************************)
EXTENDS Integers, Sequences

CONSTANTS
  Commands,      \* the workflow runs
  Kinds,         \* what a run may be: its route, its trigger and its settings
  CommentTries,  \* attempts of publish_comment
  CheckTries,    \* attempts of publish_check_run
  Default,       \* GITHUB_SHA: the head of the default branch
  Unknown,       \* no commit
  NoPayload,     \* check_run_payload.json was not written
  MaxPushes,     \* bound: pushes to the pull request
  MaxFaults      \* bound: failed calls, raising handlers, lost runners

\* A commit that was read is named by the move of the branch that was the last
\* when it was read; a branch forced back has had the commit before.
Commits == Nat \cup {Default, Unknown}
Check   == [by : Commands, label : Commits, about : Commits]

Routes == {"ignored", "notice", "queue", "hosted", "report", "qa", "patch"}

ASSUME FlowAssumption ==
  /\ Kinds \subseteq [route : Routes,      \* the branch run_github_flow takes
                      dispatched : BOOLEAN,  \* workflow_dispatch, not a comment
                      dry : BOOLEAN,       \* dispatched with dry_run
                      pull : BOOLEAN,      \* the comment is on the pull request
                      thread : BOOLEAN,    \* the run knows an issue number; a comment does
                      deferred : BOOLEAN]  \* RB_CHECK_RUN_PUBLISH_MODE
  /\ \A k \in Kinds : k.dispatched \/ (k.thread /\ ~k.dry)
  /\ CommentTries \in Nat \ {0} /\ CheckTries \in Nat \ {0}
  /\ MaxPushes \in Nat /\ MaxFaults \in Nat
  /\ Default \notin Nat /\ Unknown \notin Nat /\ Default # Unknown
  /\ NoPayload \notin Check

VARIABLES
  head,      \* the last move of the pull request's branch, counted
  branch,    \* branch[n]: the commit that move n put the branch on
  said,      \* said[c]: comments of run c on GitHub
  checks,    \* check runs on GitHub, oldest first
  statuses,  \* commit statuses on GitHub, oldest first
  reaction,  \* reaction[c]: the workflow's reactions to the comment
  sent,      \* sent[c]: requests to the hosted API
  faults,
  kind,      \* kind[c]: what run c is
  pc,        \* where run c is
  tree,      \* tree[c]: the commit checked out
  named,     \* named[c]: audit["pr_head_sha"], or the head_sha of the context
  diff,      \* diff[c]: the commit whose file list is reviewed
  failed,    \* failed[c]: the answer is an error message
  tries,     \* tries[c]: attempts left for the POST under way
  payload,   \* payload[c]: check_run_payload.json
  outcome,   \* outcome[c]: how run_github_flow ended
  audit,     \* audit[c]: audit["posted"] in the audit file
  pub,       \* pub[c]: where the publisher workflow of run c is
  target,    \* target[c]: the commit the publisher settled on
  lost,      \* history: comments of c stored without confirmation
  unread,    \* history: a read of the pull request failed
  unmarked   \* history: the step that replaces the eyes failed or was cut

pull    == <<head, branch>>
github  == <<pull, said, checks, statuses, reaction, sent>>
reads   == <<tree, named, diff, unread>>
ending  == <<outcome, audit>>
publish == <<pub, target>>
history == <<lost, unmarked>>
vars == <<github, faults, kind, pc, reads, failed, tries, payload, ending, publish, history>>

Stages   == {"new", "route", "readHead", "readDiff", "analyse", "label", "check",
             "comment", "react", "mark", "ended"}
Outcomes == {"none", "ignored", "dry", "posted", "marker_failed", "raised", "killed"}

TypeOK ==
  /\ head \in Nat /\ branch \in Seq(Nat) /\ Len(branch) = head /\ faults \in Nat
  /\ said \in [Commands -> Nat] /\ sent \in [Commands -> Nat] /\ lost \in [Commands -> Nat]
  /\ checks \in Seq(Check) /\ statuses \in Seq(Check)
  /\ reaction \in [Commands -> SUBSET {"eyes", "rocket", "confused"}]
  /\ kind \in [Commands -> Kinds] /\ pc \in [Commands -> Stages]
  /\ tree \in [Commands -> Commits] /\ named \in [Commands -> Commits]
  /\ diff \in [Commands -> Commits] /\ target \in [Commands -> Commits]
  /\ failed \in [Commands -> BOOLEAN] /\ unread \in [Commands -> BOOLEAN]
  /\ unmarked \in [Commands -> BOOLEAN]
  /\ tries \in [Commands -> Nat]
  /\ payload \in [Commands -> Check \cup {NoPayload}]
  /\ outcome \in [Commands -> Outcomes]
  /\ audit \in [Commands -> {"none", "posted", "unposted"}]
  /\ pub \in [Commands -> {"idle", "resolve", "post", "probe", "done"}]

Init ==
  /\ head = 1 /\ branch = <<1>> /\ faults = 0 /\ checks = <<>> /\ statuses = <<>>
  /\ kind \in [Commands -> Kinds]
  /\ said = [c \in Commands |-> 0] /\ sent = [c \in Commands |-> 0]
  /\ lost = [c \in Commands |-> 0] /\ tries = [c \in Commands |-> 0]
  /\ reaction = [c \in Commands |-> {}] /\ pc = [c \in Commands |-> "new"]
  /\ tree = [c \in Commands |-> Unknown] /\ named = [c \in Commands |-> Unknown]
  /\ diff = [c \in Commands |-> Unknown] /\ target = [c \in Commands |-> Unknown]
  /\ failed = [c \in Commands |-> FALSE] /\ unread = [c \in Commands |-> FALSE]
  /\ unmarked = [c \in Commands |-> FALSE]
  /\ payload = [c \in Commands |-> NoPayload]
  /\ outcome = [c \in Commands |-> "none"] /\ audit = [c \in Commands |-> "none"]
  /\ pub = [c \in Commands |-> "idle"]

-----------------------------------------------------------------------------
(* The pull request                                                        *)

\* A push puts the branch on a new commit, a force push may put it back.
Push ==
  /\ head <= MaxPushes
  /\ head' = head + 1
  /\ \E n \in {head + 1} \cup {branch[m] : m \in 1..head} :
       n # branch[head] /\ branch' = Append(branch, n)
  /\ UNCHANGED <<said, checks, statuses, reaction, sent, faults, kind, pc, reads,
                 failed, tries, payload, ending, publish, history>>

Fault == faults < MaxFaults /\ faults' = faults + 1

\* get_pull and get_pull_files: what is current, or an error the caller
\* replaces by `otherwise` and carries on.
Reads(c, x, otherwise) ==
  \/ x = head /\ UNCHANGED <<faults, unread>>
  \/ x = otherwise /\ Fault /\ unread' = [unread EXCEPT ![c] = TRUE]

-----------------------------------------------------------------------------
(* Ends of run_github_flow                                                 *)

Goto(c, stage) == pc' = [pc EXCEPT ![c] = stage]

\* _finalize_run and the return; run_github.py then writes the audit file.
Returns(c, how) ==
  /\ Goto(c, "react")
  /\ outcome' = [outcome EXCEPT ![c] = how]
  /\ audit' = [audit EXCEPT ![c] = IF how = "posted" THEN "posted" ELSE "unposted"]

\* An exception leaves run_github_flow: the audit file is not written.
Raises(c) ==
  /\ Goto(c, "react")
  /\ outcome' = [outcome EXCEPT ![c] = "raised"]
  /\ UNCHANGED audit

\* The answer is ready: it is printed, or there is nowhere to post it, or the
\* POST begins.
Answer(c) ==
  \/ kind[c].dry /\ Returns(c, "dry") /\ UNCHANGED tries
  \/ ~kind[c].dry /\ ~kind[c].thread /\ Raises(c) /\ UNCHANGED tries
  \/ /\ ~kind[c].dry /\ kind[c].thread
     /\ Goto(c, "comment")
     /\ tries' = [tries EXCEPT ![c] = CommentTries]
     /\ UNCHANGED ending

-----------------------------------------------------------------------------
(* The run, up to its analysis                                             *)

\* The steps before the Action: the eyes, and the commit to check out.  A pull
\* request of a fork, or a closed one, is analysed on the default branch, and
\* so is every dispatched run, which fetches the head for its context instead.
StartJob(c) ==
  /\ pc[c] = "new"
  /\ Goto(c, "route")
  /\ IF kind[c].dispatched
     THEN /\ tree' = [tree EXCEPT ![c] = Default]
          /\ \/ ~kind[c].pull /\ UNCHANGED <<named, faults, unread>>
             \/ /\ kind[c].pull
                /\ \E x \in {head, Unknown} :
                     Reads(c, x, Unknown) /\ named' = [named EXCEPT ![c] = x]
          /\ UNCHANGED reaction
     ELSE /\ reaction' = [reaction EXCEPT ![c] = {"eyes"}]
          /\ \E x \in IF kind[c].pull THEN {head, Default} ELSE {Default} :
               tree' = [tree EXCEPT ![c] = x]
          /\ UNCHANGED <<named, faults, unread>>
  /\ UNCHANGED <<pull, said, checks, statuses, sent, kind, diff, failed, tries, payload,
                 ending, publish, history>>

\* The eyes are refused, or the look at the pull request or the checkout fails.
StartFails(c) ==
  /\ pc[c] = "new" /\ Fault
  /\ \/ UNCHANGED reaction
     \/ ~kind[c].dispatched /\ reaction' = [reaction EXCEPT ![c] = {"eyes"}]
  /\ Raises(c)
  /\ UNCHANGED <<pull, said, checks, statuses, sent, kind, reads, failed, tries,
                 payload, publish, history>>

\* Comments that are not commands: no text, a bot's, another prefix.
Ignore(c) ==
  /\ pc[c] = "route" /\ kind[c].route = "ignored"
  /\ Returns(c, "ignored")
  /\ UNCHANGED <<github, faults, kind, reads, failed, tries, payload, publish, history>>

\* Fixed replies: a bad transport mode, missing terms, a wrong event or command
\* for the queue, a parse error, self-service that is not ready, an unsupported
\* command, a refusal; and the queue marker.
ReplyAtOnce(c) ==
  /\ pc[c] = "route" /\ kind[c].route \in {"notice", "queue"}
  /\ Answer(c)
  /\ UNCHANGED <<github, faults, kind, reads, failed, payload, publish, history>>

\* send_audit_request, before dry_run and the issue number are looked at.  Every
\* answer and every error of the client becomes a reply.
SendHosted(c) ==
  /\ pc[c] = "route" /\ kind[c].route = "hosted"
  /\ sent' = [sent EXCEPT ![c] = @ + 1]
  /\ Answer(c)
  /\ UNCHANGED <<pull, said, checks, statuses, reaction, faults, kind, reads, failed,
                 payload, publish, history>>

\* The client is built before the handlers run.
EnterHandler(c) ==
  /\ pc[c] = "route" /\ kind[c].route \in {"report", "qa", "patch"}
  /\ \/ ~kind[c].dry /\ ~kind[c].thread /\ Raises(c)
     \/ /\ kind[c].dry \/ kind[c].thread
        /\ Goto(c, IF kind[c].route = "patch" /\ kind[c].pull /\ ~kind[c].dry
                   THEN "readHead" ELSE "analyse")
        /\ UNCHANGED ending
  /\ named' = IF kind[c].route = "patch" /\ kind[c].dry
              THEN [named EXCEPT ![c] = Default] ELSE named
  /\ UNCHANGED <<github, faults, kind, tree, diff, unread, failed, tries, payload,
                 publish, history>>

ReadHead(c) ==
  /\ pc[c] = "readHead"
  /\ Goto(c, "readDiff")
  /\ \E x \in {head, Default} :
       Reads(c, x, Default) /\ named' = [named EXCEPT ![c] = x]
  /\ UNCHANGED <<github, kind, tree, diff, failed, tries, payload, ending, publish,
                 history>>

\* A closed pull request is told so: there is no diff and no audited head.
FindClosed(c) ==
  /\ pc[c] = "readHead"
  /\ Goto(c, "label")
  /\ UNCHANGED <<github, faults, kind, reads, failed, tries, payload, ending, publish,
                 history>>

\* Mistake: the files are those of a cache filled when the request was opened.
ReadDiff_Cached(c) ==
  /\ pc[c] = "readDiff"
  /\ Goto(c, "analyse")
  /\ diff' = [diff EXCEPT ![c] = 1]
  /\ UNCHANGED <<github, faults, kind, tree, named, unread, failed, tries, payload,
                 ending, publish, history>>

ReadDiff(c) ==
  /\ pc[c] = "readDiff"
  /\ Goto(c, "analyse")
  /\ \E x \in {head, Unknown} :
       Reads(c, x, Unknown) /\ diff' = [diff EXCEPT ![c] = x]
  /\ UNCHANGED <<github, kind, tree, named, failed, tries, payload, ending, publish,
                 history>>

-----------------------------------------------------------------------------
(* The check run                                                           *)

Checked(c) == kind[c].pull /\ kind[c].route \in {"qa", "patch"}

\* What the conclusion is about: the reviewed files, or the tree questions are
\* answered from.
Subject(c) == CASE failed[c] -> Unknown
                [] kind[c].route = "patch" -> diff[c]
                [] OTHER -> tree[c]

Fallback(c) == IF named[c] = Unknown THEN Default ELSE named[c]

Payload(c, sha) == [by |-> c, label |-> sha, about |-> Subject(c)]

\* The handler is done.  A dry run writes the payload and stops there.
Analyse(c) ==
  /\ pc[c] = "analyse"
  /\ \/ Checked(c) /\ ~kind[c].dry /\ Goto(c, "label") /\ UNCHANGED <<tries, payload, ending>>
     \/ /\ Checked(c) /\ kind[c].dry
        /\ payload' = [payload EXCEPT ![c] = Payload(c, Fallback(c))]
        /\ Answer(c)
     \/ ~Checked(c) /\ Answer(c) /\ UNCHANGED payload
  /\ UNCHANGED <<github, faults, kind, reads, failed, publish, history>>

\* Only a question is answered by an error reply; other handlers let the
\* exception out.
HandlerRaises(c) ==
  /\ pc[c] = "analyse" /\ Fault
  /\ \/ kind[c].route = "qa" /\ ~failed[c]
        /\ failed' = [failed EXCEPT ![c] = TRUE] /\ UNCHANGED <<pc, ending>>
     \/ kind[c].route # "qa" /\ Raises(c) /\ UNCHANGED failed
  /\ UNCHANGED <<github, kind, reads, tries, payload, publish, history>>

\* Mistake: the head read before the files is used again.
Label_Audited(c) ==
  /\ pc[c] = "label"
  /\ payload' = [payload EXCEPT ![c] = Payload(c, Fallback(c))]
  /\ Goto(c, IF kind[c].deferred THEN "comment" ELSE "check")
  /\ tries' = [tries EXCEPT ![c] = IF kind[c].deferred THEN CommentTries ELSE CheckTries]
  /\ UNCHANGED <<github, faults, kind, reads, failed, ending, publish, history>>

\* _resolve_pr_head_sha, and the payload file of _publish_pr_check_run.
Label(c) ==
  /\ pc[c] = "label"
  /\ \E x \in {head, Fallback(c)} :
       Reads(c, x, Fallback(c)) /\ payload' = [payload EXCEPT ![c] = Payload(c, x)]
  /\ Goto(c, IF kind[c].deferred THEN "comment" ELSE "check")
  /\ tries' = [tries EXCEPT ![c] = IF kind[c].deferred THEN CommentTries ELSE CheckTries]
  /\ UNCHANGED <<github, kind, tree, named, diff, failed, ending, publish, history>>

\* After the check run, however it went, comes the comment.
ThenComment(c) ==
  /\ Goto(c, "comment")
  /\ tries' = [tries EXCEPT ![c] = CommentTries]

TryAgain(c) == tries' = [tries EXCEPT ![c] = @ - 1] /\ UNCHANGED pc

CheckAcknowledged(c) ==
  /\ pc[c] = "check"
  /\ checks' = Append(checks, payload[c])
  /\ ThenComment(c)
  /\ UNCHANGED <<pull, said, statuses, reaction, sent, faults, kind, reads, failed,
                 payload, ending, publish, history>>

\* No answer, or 5xx: the check run may exist; it is asked for again.
CheckUnanswered(c) ==
  /\ pc[c] = "check" /\ Fault
  /\ checks' \in {checks, Append(checks, payload[c])}
  /\ IF tries[c] > 1 THEN TryAgain(c) ELSE ThenComment(c)
  /\ UNCHANGED <<pull, said, statuses, reaction, sent, kind, reads, failed, payload,
                 ending, publish, history>>

CheckForbidden(c) ==
  /\ pc[c] = "check" /\ Fault
  /\ ThenComment(c)
  /\ UNCHANGED <<github, kind, reads, failed, payload, ending, publish, history>>

-----------------------------------------------------------------------------
(* The reply                                                               *)

Say(c) == said' = [said EXCEPT ![c] = @ + 1]

\* Mistake: audit["posted"] is set before the POST.
GiveUp_Posted(c) == IF kind[c].route = "queue" THEN Returns(c, "posted") ELSE Raises(c)

\* A queue marker that cannot be posted is caught, printed and returned; any
\* other reply raises RuntimeError.
GiveUp(c) == IF kind[c].route = "queue" THEN Returns(c, "marker_failed") ELSE Raises(c)

CommentAcknowledged(c) ==
  /\ pc[c] = "comment"
  /\ Say(c) /\ Returns(c, "posted")
  /\ UNCHANGED <<pull, checks, statuses, reaction, sent, faults, kind, reads, failed,
                 tries, payload, publish, history>>

\* Mistake: `attempt <= retries` instead of `attempt < retries`.
CommentUnanswered_OneMore(c) ==
  /\ pc[c] = "comment" /\ Fault
  /\ \/ UNCHANGED <<said, lost>>
     \/ Say(c) /\ lost' = [lost EXCEPT ![c] = @ + 1]
  /\ \/ tries[c] >= 0 /\ TryAgain(c) /\ UNCHANGED ending
     \/ tries[c] < 0 /\ GiveUp(c) /\ UNCHANGED tries
  /\ UNCHANGED <<pull, checks, statuses, reaction, sent, kind, reads, failed, payload,
                 publish, unmarked>>

\* A timeout, 429 or 5xx: the comment may exist; it is posted again.
CommentUnanswered(c) ==
  /\ pc[c] = "comment" /\ Fault
  /\ \/ UNCHANGED <<said, lost>>
     \/ Say(c) /\ lost' = [lost EXCEPT ![c] = @ + 1]
  /\ \/ tries[c] > 1 /\ TryAgain(c) /\ UNCHANGED ending
     \/ tries[c] <= 1 /\ GiveUp(c) /\ UNCHANGED tries
  /\ UNCHANGED <<pull, checks, statuses, reaction, sent, kind, reads, failed, payload,
                 publish, unmarked>>

CommentForbidden(c) ==
  /\ pc[c] = "comment" /\ Fault
  /\ GiveUp(c)
  /\ UNCHANGED <<github, kind, reads, failed, tries, payload, publish, history>>

-----------------------------------------------------------------------------
(* The end of the job, and the publisher                                   *)

\* Only the workflow named RepoBrain is watched, and it always defers.
Uploaded(c) == payload[c] # NoPayload /\ kind[c].deferred

\* The job completes; the publisher looks for the payload in every such run.
Completes(c) ==
  /\ Goto(c, "ended")
  /\ pub' = [pub EXCEPT ![c] = IF Uploaded(c) THEN "resolve" ELSE "done"]

\* The steps marked `if: always()`.  A comment first loses its eyes; an error is
\* ignored.
Unreact(c) ==
  /\ pc[c] = "react"
  /\ IF kind[c].dispatched THEN Completes(c) /\ UNCHANGED <<reaction, faults>>
     ELSE /\ Goto(c, "mark") /\ UNCHANGED pub
          /\ \/ reaction' = [reaction EXCEPT ![c] = @ \ {"eyes"}] /\ UNCHANGED faults
             \/ Fault /\ UNCHANGED reaction
  /\ UNCHANGED <<pull, said, checks, statuses, sent, kind, reads, failed, tries,
                 payload, ending, target, history>>

Mark(c) ==
  LET face == IF outcome[c] = "raised" THEN "confused" ELSE "rocket"
  IN  reaction' = [reaction EXCEPT ![c] = @ \cup {face}]

\* Mistake: only a job that succeeded is marked.
React_OnSuccess(c) ==
  /\ pc[c] = "mark"
  /\ IF outcome[c] = "raised" THEN UNCHANGED reaction ELSE Mark(c)
  /\ Completes(c)
  /\ UNCHANGED <<pull, said, checks, statuses, sent, faults, kind, reads, failed, tries,
                 payload, ending, target, history>>

\* Then it is marked with how the job went.
React(c) ==
  /\ pc[c] = "mark"
  /\ Mark(c)
  /\ Completes(c)
  /\ UNCHANGED <<pull, said, checks, statuses, sent, faults, kind, reads, failed, tries,
                 payload, ending, target, history>>

\* The job is cancelled during the step, or the mark is refused, or its answer
\* is lost: the step ends there, and the others run.
ReactFails(c) ==
  /\ pc[c] \in {"react", "mark"} /\ ~kind[c].dispatched /\ Fault
  /\ unmarked' = [unmarked EXCEPT ![c] = TRUE]
  /\ \/ UNCHANGED reaction
     \/ pc[c] = "mark" /\ Mark(c)
  /\ Completes(c)
  /\ UNCHANGED <<pull, said, checks, statuses, sent, kind, reads, failed, tries,
                 payload, ending, target, lost>>

\* The job is cancelled or times out; its `if: always()` steps still run.
Cancel(c) ==
  /\ pc[c] \notin {"new", "react", "mark", "ended"} /\ Fault
  /\ Raises(c)
  /\ UNCHANGED <<github, kind, reads, failed, tries, payload, publish, history>>

\* The runner is lost: nothing more happens, and there is no artifact.
LoseRunner(c) ==
  /\ pc[c] \notin {"new", "ended"} /\ Fault
  /\ Goto(c, "ended")
  /\ outcome' = [outcome EXCEPT ![c] = "killed"]
  /\ pub' = [pub EXCEPT ![c] = "done"]
  /\ UNCHANGED <<github, kind, reads, failed, tries, payload, audit, target, history>>

\* The publisher prefers the live head; a dry payload has no pr_number.
Resolve(c) ==
  /\ pub[c] = "resolve"
  /\ pub' = [pub EXCEPT ![c] = "post"]
  /\ IF kind[c].dry
     THEN target' = [target EXCEPT ![c] = payload[c].label] /\ UNCHANGED <<faults, unread>>
     ELSE \E x \in {head, payload[c].label} :
            Reads(c, x, payload[c].label) /\ target' = [target EXCEPT ![c] = x]
  /\ UNCHANGED <<github, kind, pc, tree, named, diff, failed, tries, payload, ending,
                 history>>

Retargeted(c) == [payload[c] EXCEPT !.label = target[c]]

\* One POST.  Review and fix then look whether the pull request shows the check.
PublishDeferred(c) ==
  /\ pub[c] = "post"
  /\ checks' = Append(checks, Retargeted(c))
  /\ pub' = [pub EXCEPT ![c] = IF kind[c].route = "patch" /\ ~kind[c].dry
                               THEN "probe" ELSE "done"]
  /\ UNCHANGED <<pull, said, statuses, reaction, sent, faults, kind, pc, reads, failed,
                 tries, payload, ending, target, history>>

PublishFails(c) ==
  /\ pub[c] = "post" /\ Fault
  /\ checks' \in {checks, Append(checks, Retargeted(c))}
  /\ pub' = [pub EXCEPT ![c] = "done"]
  /\ UNCHANGED <<pull, said, statuses, reaction, sent, kind, pc, reads, failed, tries,
                 payload, ending, target, history>>

\* A check the rollup does not show is repeated as a commit status.
Probe(c) ==
  /\ pub[c] = "probe"
  /\ pub' = [pub EXCEPT ![c] = "done"]
  /\ statuses' \in {statuses, Append(statuses, Retargeted(c))}
  /\ UNCHANGED <<pull, said, checks, reaction, sent, faults, kind, pc, reads, failed,
                 tries, payload, ending, target, history>>

-----------------------------------------------------------------------------
RunStep(c) ==
  \/ Ignore(c) \/ ReplyAtOnce(c) \/ SendHosted(c) \/ EnterHandler(c)
  \/ ReadHead(c) \/ FindClosed(c) \/ ReadDiff(c) \/ Analyse(c) \/ HandlerRaises(c)
  \/ Label(c) \/ CheckAcknowledged(c) \/ CheckUnanswered(c) \/ CheckForbidden(c)
  \/ CommentAcknowledged(c) \/ CommentUnanswered(c) \/ CommentForbidden(c)
  \/ Unreact(c) \/ React(c) \/ ReactFails(c)

PublisherStep(c) == Resolve(c) \/ PublishDeferred(c) \/ PublishFails(c) \/ Probe(c)

Next ==
  \/ Push
  \/ \E c \in Commands : StartJob(c) \/ StartFails(c) \/ RunStep(c) \/ PublisherStep(c)
                              \/ Cancel(c) \/ LoseRunner(c)

Spec == Init /\ [][Next]_vars

\* A job that was started goes on, and so does the publisher; nobody has to
\* write a command or to push.
FairSpec == Spec /\ \A c \in Commands : WF_vars(RunStep(c)) /\ WF_vars(PublisherStep(c))
-----------------------------------------------------------------------------
(* What GitHub shows                                                       *)

Verdicts(c) == {i \in 1..Len(checks) : checks[i].by = c}

\* The audit file tells what was posted: a reply that GitHub confirmed is audited
\* as posted, and what is audited as not posted is at most a reply whose
\* confirmation was lost (audit["posted"] is set after create_issue_comment).
AuditMatchesThread ==
  \A c \in Commands :
    /\ audit[c] = "posted" => said[c] > lost[c]
    /\ audit[c] = "unposted" => said[c] = lost[c]

\* _post_with_retry repeats a reply at most CommentTries - 1 times, and only
\* after an attempt whose answer was lost.
RepliesBounded ==
  \A c \in Commands : said[c] <= CommentTries /\ said[c] <= lost[c] + 1

\* The check run is published before the comment: a run that leaves a check and
\* no reply must at least have failed visibly.
NoSilentVerdict ==
  \A c \in Commands :
    ~kind[c].dry /\ pc[c] = "ended" /\ outcome[c] # "killed" /\ Verdicts(c) # {} /\ said[c] = 0
      => outcome[c] = "raised"

Behind(x, y) == x \in Nat => y \in Nat /\ x <= y

\* The commit a check is attached to is read after everything the conclusion is
\* made of (_resolve_pr_head_sha and the publisher ask GitHub again), unless a
\* read failed: what was analysed is never newer than the label.  This is about
\* the order of the reads: a branch that was forced back may label a later
\* conclusion with an earlier commit.
LabelCovers ==
  \A i \in 1..Len(checks) :
    ~unread[checks[i].by] => Behind(checks[i].about, checks[i].label)

\* What a check is about was the head of the pull request at some time between
\* the checkout and the read of its label, whatever was pushed or forced back:
\* where the branch stood still in between, the check is about the very commit
\* it stands on, and so are the files that were searched.
QuietExact ==
  \A i \in 1..Len(checks) :
    LET k == checks[i]
    IN  ~unread[k.by] /\ tree[k.by] \in Nat /\ k.about # Unknown
          => branch[k.about] \in {branch[n] : n \in tree[k.by]..k.label}

\* "If true, print comment instead of publishing to GitHub" (input dry_run).
DryRunPublishesNothing ==
  \A c \in Commands : kind[c].dry => said[c] = 0 /\ Verdicts(c) = {}

\* Whoever writes a command sees a rocket or a confused face in the end, however
\* the run ends, unless its runner is lost or the step that puts them fails or is
\* cut itself: between the deletion of the eyes and the mark it has no net.
Settles ==
  \A c \in Commands :
    "eyes" \in reaction[c] ~>
      \/ reaction[c] \cap {"rocket", "confused"} # {}
      \/ outcome[c] = "killed" \/ unmarked[c]
=============================================================================
