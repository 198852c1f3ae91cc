------------------------------ MODULE AuditReport ------------------------------
(***************************************************************************)
(* The commands audit and score: the repository is scanned and scored from *)
(* what its files show, the runtime of TopoCore v6 is asked for a better   *)
(* score under a contract, the language model may write a narrative over   *)
(* the result, and the report is rendered into a comment of bounded size.  *)
(*                                                                         *)
(* A repository is the set of signals its files give, a category of the    *)
(* scorecard its points, an improvement the category it is filed under, a  *)
(* line of the roadmap the categories it names.                            *)
(* Wording, order and the limits on how many lines are shown are left out: *)
(* they only drop lines that the properties would allow.                   *)
(***************************************************************************)
EXTENDS Integers, FiniteSets

CONSTANTS Repos,      \* the repositories that may be audited
          Responses,  \* what the runtime may answer
          Texts       \* the narratives the language model may write

\* The maximum of every category, 100 points in all.
MaxScore == [architecture |-> 15, code_quality |-> 12, testing |-> 12, security |-> 12, ci_cd |-> 10,
             dependencies |-> 8, documentation |-> 8, release_ops |-> 8, governance |-> 8, ai_readiness |-> 7]

Category == {"architecture", "code_quality", "testing", "security", "ci_cd",
             "dependencies", "documentation", "release_ops", "governance", "ai_readiness"}

\* What the names and the texts of the files of a repository may show.
Signal == {"code", "codeRoots", "spread", "entrypoints", "architecture", "security",
           "readme", "docsDir", "install", "troubleshooting", "troubleshootingDir", "commands",
           "purpose", "noMutation", "manifests", "lockfiles", "dependabot",
           "lint", "lintEmbedded", "types", "typesEmbedded", "format", "formatEmbedded",
           "tests", "workflows", "ciKeywords", "permissions", "usesRepoBrain",
           "version", "changelog", "license", "releaseDocs",
           "codeowners", "issueTemplates", "prTemplate"}

\* What the workflows grant, and the trigger that counts with it.
Permission == {"pull_request_target", "contents", "checks", "pull-requests", "issues", "other"}

Repo == [has : SUBSET Signal, perms : SUBSET Permission]

\* An improvement: what it is filed under, "other" where that text is the title of no
\* category; and whether its title has a word for keeping or watching.
Item == [filed : Category \cup {"other"}, advisory : BOOLEAN]

\* A line of the roadmap: the categories it names by title or alias, and whether it has such
\* a word. "Code quality and maintainability" has one in the title itself.
Priority == {p \in [names : SUBSET Category, advisory : BOOLEAN] : "code_quality" \in p.names => p.advisory}

\* A line of a narrative: its section, the categories it names, whether it asks to
\* raise them or to keep them, and whether it sets dates.
Line == [at : {"main", "pr"}, cats : SUBSET Category, raises : BOOLEAN, keeps : BOOLEAN, dated : BOOLEAN]

Band == {"STRONG", "GOOD", "NEEDS_ATTENTION", "WEAK"}

\* What the guard of the contract rejects, and the one it stumbles over.
Rejecting == {"forbidden", "version", "status", "categories", "score", "band", "safety", "items"}
Defect == Rejecting \cup {"delta"}

Response == [kind : {"unavailable", "raises", "answer"}, defects : SUBSET Defect,
             score : 0..100, band : Band, cats : [Category -> 0..15], warnings : 0..6,
             improvements : SUBSET Item, roadmap : SUBSET Priority, adjusts : BOOLEAN]

Mode == {"none", "narrative", "executive", "premium", "premium_executive"}

ASSUME AuditAssumption ==
  /\ Repos \subseteq Repo
  /\ \A r \in Repos : /\ r.perms # {} => "workflows" \in r.has
                      /\ r.has \cap {"ciKeywords", "permissions", "usesRepoBrain"} # {} => "workflows" \in r.has
                      /\ r.has \cap {"codeRoots", "spread"} # {} => "code" \in r.has
                      /\ r.has \cap {"install", "troubleshooting", "commands", "noMutation"} # {}
                           => r.has \cap {"readme", "docsDir"} # {}
  /\ Responses \subseteq Response
  /\ \A e \in Responses : \A c \in Category : e.cats[c] <= MaxScore[c]
  /\ Texts \subseteq [headed : BOOLEAN, lines : SUBSET Line]
  /\ \A t \in Texts : t.lines # {}

------------------------------------------------------------------------------
(* The score of a repository                                               *)

Has(r, s) == s \in r.has
Any(r, S) == r.has \cap S # {}
Points(held, n) == IF held THEN n ELSE 0

\* Write access is excused where it only lets RepoBrain answer in a pull request.
Justified(r) ==
  /\ {"pull-requests", "issues"} \subseteq r.perms
  /\ r.perms \cap {"contents", "checks", "pull_request_target"} = {}
  /\ Has(r, "usesRepoBrain") \/ {"noMutation", "purpose"} \subseteq r.has

\* The permissions that are held against a repository.
Dangerous(r) == (r.perms \ {"issues"}) \ (IF Justified(r) THEN {"pull-requests"} ELSE {})

\* Mistake: a score may fall below 0.
Bounded_Open(n, max) == IF n > max THEN max ELSE n

\* _category_result keeps a score between 0 and the maximum of its category.
Bounded(n, max) == IF n < 0 THEN 0 ELSE IF n > max THEN max ELSE n

Architecture(r) ==
  Points(Has(r, "codeRoots"), 6) + Points(Has(r, "code") /\ ~Has(r, "spread"), 4)
    + Points(Has(r, "architecture"), 3) + Points(Has(r, "entrypoints"), 2)

CodeQuality(r) ==
  (IF Has(r, "lint") THEN 4 ELSE Points(Has(r, "lintEmbedded"), 3))
    + (IF Has(r, "types") THEN 3 ELSE Points(Has(r, "typesEmbedded"), 2))
    + Points(Any(r, {"format", "formatEmbedded"}), 2) + Points(Has(r, "codeRoots"), 3)

Testing(r) == Points(Has(r, "tests"), 6) + Points(Has(r, "ciKeywords"), 4) + Points(Has(r, "workflows"), 2)

\* Mistake: the penalty of a permission is forgotten.
Security_NoPenalty(r) ==
  Points(Has(r, "security"), 4) + Points(Has(r, "workflows"), 4) + Points(Has(r, "permissions"), 2)
    + Points("pull_request_target" \notin Dangerous(r), 2)

Security(r) ==
  Points(Has(r, "security"), 4) + Points(Has(r, "workflows"), 4) + Points(Has(r, "permissions"), 2)
    + Points(Dangerous(r) = {}, 2)
    - Points("pull_request_target" \in Dangerous(r), 4) - Points("contents" \in Dangerous(r), 3)
    - Points("checks" \in Dangerous(r), 1) - Points("pull-requests" \in Dangerous(r), 2)

CiCd(r) ==
  Points(Has(r, "workflows"), 5) + Points(Has(r, "ciKeywords"), 3)
    + (IF Has(r, "permissions") /\ Dangerous(r) = {} THEN 2 ELSE Points(Justified(r), 1))

Dependencies(r) ==
  Points(Has(r, "manifests"), 4) + Points(Has(r, "lockfiles"), 3) + Points(Has(r, "dependabot"), 1)

Documentation(r) ==
  Points(Has(r, "readme"), 3) + Points(Has(r, "docsDir"), 2)
    + Points(Any(r, {"install", "troubleshooting", "commands"}), 2) + Points(Has(r, "architecture"), 1)

ReleaseOps(r) ==
  Points(Has(r, "version"), 2) + Points(Has(r, "changelog"), 2) + Points(Has(r, "license"), 2)
    + Points(Any(r, {"version", "changelog", "license", "releaseDocs"}), 2)

Governance(r) ==
  Points(Has(r, "permissions"), 2) + Points(Has(r, "codeowners"), 2) + Points(Has(r, "issueTemplates"), 2)
    + Points(Has(r, "prTemplate"), 1) + Points(Has(r, "troubleshooting"), 1)
    - Points("pull_request_target" \in Dangerous(r), 2)

AiReadiness(r) ==
  Points(Any(r, {"readme", "docsDir"}), 2) + Points(Has(r, "manifests"), 2) + Points(Has(r, "workflows"), 1)
    + Points(Any(r, {"architecture", "codeowners", "issueTemplates", "prTemplate", "troubleshootingDir"}), 2)

\* Every category with its points.
Scores(r) == [
  architecture  |-> Bounded(Architecture(r), 15),  code_quality |-> Bounded(CodeQuality(r), 12),
  testing       |-> Bounded(Testing(r), 12),       security     |-> Bounded(Security(r), 12),
  ci_cd         |-> Bounded(CiCd(r), 10),          dependencies |-> Bounded(Dependencies(r), 8),
  documentation |-> Bounded(Documentation(r), 8),  release_ops  |-> Bounded(ReleaseOps(r), 8),
  governance    |-> Bounded(Governance(r), 8),     ai_readiness |-> Bounded(AiReadiness(r), 7)]

\* The sum of the categories, between 0 and 100.
Overall(s) ==
  Bounded(s.architecture + s.code_quality + s.testing + s.security + s.ci_cd + s.dependencies
            + s.documentation + s.release_ops + s.governance + s.ai_readiness, 100)

\* The readiness band of a score.
ReadinessBand(n) ==
  IF n >= 85 THEN "STRONG" ELSE IF n >= 70 THEN "GOOD" ELSE IF n >= 50 THEN "NEEDS_ATTENTION" ELSE "WEAK"

\* A category is strong from 85 per cent of its maximum on.
StrongCategory(c, n) == 100 * n >= 85 * MaxScore[c]

------------------------------------------------------------------------------
(* What is said of it                                                      *)

\* The categories of a scorecard that are at their maximum.
Maxed(s) == {c \in Category : s[c] >= MaxScore[c]}

When(cond, c) == IF cond THEN {c} ELSE {}

\* The categories with a critical blocker: five are kept, and that of the documentation comes last.
Blocked(r) ==
  When(~Has(r, "workflows"), "ci_cd") \cup When(~Has(r, "tests"), "testing")
    \cup When(Dangerous(r) \cap {"pull_request_target", "contents", "checks", "pull-requests"} # {}, "security")
    \cup When(/\ ~Any(r, {"readme", "docsDir"})
              /\ ~({"pull_request_target", "contents", "checks", "pull-requests"} \subseteq Dangerous(r)
                   /\ ~Has(r, "tests")), "documentation")

Raise(c) == [filed |-> c, advisory |-> FALSE]
Monitor == [filed |-> "security", advisory |-> TRUE]

\* What could be improved: one recommendation for each gap that is found, unless its
\* category is at its maximum. The advisory on an excused permission falls with the
\* others: its rationale has none of the words the exception asks for.
Improvements(r) ==
  LET gaps == When(~Has(r, "tests"), "testing") \cup When(~Has(r, "workflows"), "ci_cd")
                \cup When(~Justified(r) /\ Dangerous(r) # {}, "security")
                \cup When(~Has(r, "readme") \/ ~Has(r, "install"), "documentation")
                \cup When(~Any(r, {"lint", "types"}), "code_quality")
                \cup When(~({"version", "changelog"} \subseteq r.has), "release_ops")
                \cup When(~Any(r, {"codeowners", "issueTemplates", "prTemplate"}), "governance")
                \cup When(~Has(r, "architecture"), "architecture")
                \cup When(~Has(r, "manifests") /\ Has(r, "code"), "dependencies")
      found == {Raise(c) : c \in gaps} \cup (IF Justified(r) THEN {Monitor} ELSE {})
  IN  {i \in found : i.filed \notin Maxed(Scores(r))}

\* The line of the roadmap for a blocker or an improvement: its title, and its category in brackets.
RoadmapLine(i) == [names |-> {i.filed}, advisory |-> i.advisory \/ i.filed = "code_quality"]

\* What to do next: the blockers, then the improvements.
Priorities(r) == {RoadmapLine(i) : i \in {Raise(c) : c \in Blocked(r)} \cup Improvements(r)}

\* An improvement is shown unless it is filed under a category that is at its maximum and
\* its title has no word for keeping. Nothing looks for the categories the title names.
Renderable(items, s) == {i \in items : i.filed \notin Maxed(s) \/ i.advisory}

\* Mistake: every line of the roadmap is shown.
RenderableLines_All(lines, s) == lines

\* A line of the roadmap is shown unless it names a category that is at its maximum and has no such word.
RenderableLines(lines, s) == {l \in lines : l.names \cap Maxed(s) = {} \/ l.advisory}

------------------------------------------------------------------------------
VARIABLES
  pc,        \* the stage: "scan", "ask", "narrate", "render"; "done", "error" or "raised"
  inv,       \* the command, the mode of the narrative and the pull request
  repo,      \* the repository
  resp,      \* the answer of the runtime
  report,    \* the report: score, band, categories, recommendations
  summary,   \* what the audit file says
  narrative, \* the lines of the narrative, once it is written
  shown      \* the comment

vars == <<pc, inv, repo, resp, report, summary, narrative, shown>>

NoResponse == [kind |-> "unavailable", defects |-> {}, score |-> 0, band |-> "WEAK",
               cats |-> [c \in Category |-> 0], warnings |-> 0,
               improvements |-> {}, roadmap |-> {}, adjusts |-> FALSE]

ZeroReport == [score |-> 0, band |-> "WEAK", cats |-> [c \in Category |-> 0],
               improvements |-> {}, priorities |-> {}, warned |-> FALSE, mode |-> "none"]

\* The report of the static baseline.
StaticReport(r) ==
  [score |-> Overall(Scores(r)), band |-> ReadinessBand(Overall(Scores(r))), cats |-> Scores(r),
   improvements |-> Improvements(r), priorities |-> Priorities(r), warned |-> FALSE, mode |-> "static_mvp"]

NoSummary == [resolved |-> "not_applicable", mode |-> "none", score |-> 0, band |-> "WEAK"]
NothingShown == [improvements |-> {}, priorities |-> {}, narrative |-> {}, fallback |-> FALSE, claim |-> FALSE,
                 truncated |-> FALSE, artifact |-> FALSE]

Init ==
  /\ pc = "scan"
  /\ inv \in [cmd : {"audit"}, mode : Mode, pull : BOOLEAN] \cup [cmd : {"score"}, mode : {"none"}, pull : BOOLEAN]
  /\ repo \in Repos
  /\ resp = NoResponse /\ report = ZeroReport /\ summary = NoSummary
  /\ narrative = {} /\ shown = NothingShown

\* A selection of the runtime that is no longer supported ends the command with an error.
Unsupported ==
  /\ pc = "scan"
  /\ pc' = "error"
  /\ UNCHANGED <<inv, repo, resp, report, summary, narrative, shown>>

\* score_repository_audit: the static baseline.
Score ==
  /\ pc = "scan"
  /\ report' = StaticReport(repo)
  /\ pc' = "ask"
  /\ UNCHANGED <<inv, repo, resp, summary, narrative, shown>>

\* The stage after the report is settled: only an audit may have a narrative.
AfterMerge == IF inv.cmd = "audit" /\ inv.mode # "none" THEN "narrate" ELSE "render"

\* The summary takes its score and its band from the report.
SummaryOf(rep, engine) == [resolved |-> engine, mode |-> rep.mode, score |-> rep.score, band |-> rep.band]

\* The baseline is retained, and the report says in which mode.
Retain(mode, engine) ==
  LET rep == [report EXCEPT !.mode = mode]
  IN  /\ report' = rep
      /\ summary' = SummaryOf(rep, engine)
      /\ pc' = AfterMerge

\* The runtime has no such capability, or the call of it fails.
AskFails ==
  /\ pc = "ask"
  /\ \E e \in Responses : e.kind # "answer" /\ resp' = e
  /\ Retain("static_contract_ready", "not_applicable")
  /\ UNCHANGED <<inv, repo, narrative, shown>>

\* validate_audit_score_response_v1 rejects the answer.
Reject ==
  /\ pc = "ask"
  /\ \E e \in Responses : e.kind = "answer" /\ e.defects \cap Rejecting # {} /\ resp' = e
  /\ Retain("static_contract_rejected", "v6_rejected")
  /\ UNCHANGED <<inv, repo, narrative, shown>>

\* The delta of an adjustment is not a number: int() raises what nobody catches.
Stumble ==
  /\ pc = "ask"
  /\ \E e \in Responses : e.kind = "answer" /\ e.defects = {"delta"} /\ resp' = e
  /\ pc' = "raised"
  /\ UNCHANGED <<inv, repo, report, summary, narrative, shown>>

\* Mistake: the categories of the baseline stay.
Merged_OldCategories(e) ==
  [score |-> e.score, band |-> e.band, cats |-> report.cats,
   improvements |-> Renderable(e.improvements, e.cats), priorities |-> RenderableLines(e.roadmap, e.cats),
   warned |-> e.band # ReadinessBand(e.score) /\ e.warnings < 6, mode |-> "v6_enriched"]

\* merge_audit_report_with_v6: score, band and categories are the answer's. A band that
\* does not fit the score is kept, and told in the seventh warning at the latest, of which six are kept.
Merged(e) ==
  [score |-> e.score, band |-> e.band, cats |-> e.cats,
   improvements |-> Renderable(e.improvements, e.cats), priorities |-> RenderableLines(e.roadmap, e.cats),
   warned |-> e.band # ReadinessBand(e.score) /\ e.warnings < 6, mode |-> "v6_enriched"]

Accept ==
  /\ pc = "ask"
  /\ \E e \in Responses : /\ e.kind = "answer" /\ e.defects = {}
                          /\ resp' = e
                          /\ report' = Merged(e)
                          /\ summary' = SummaryOf(Merged(e), "v6")
  /\ pc' = AfterMerge
  /\ UNCHANGED <<inv, repo, narrative, shown>>

------------------------------------------------------------------------------
(* The narrative                                                           *)

\* The part before the heading of the pull request; the whole text where there is none.
MainPart(t) ==
  LET main == {l \in t.lines : l.at = "main"}
  IN  IF inv.pull /\ t.headed /\ main # {} THEN main ELSE t.lines

\* Lines that ask to raise a category at its maximum are taken out of the narrative.
Advised(lines, s) == {l \in lines : ~(l.cats \cap Maxed(s) # {} /\ l.raises /\ ~l.keeps)}

\* The language model writes a narrative; whatever becomes of it, the report stays. A
\* narrative that is all taken out is replaced by a sentence without recommendations.
Narrate ==
  /\ pc = "narrate"
  /\ \E t \in Texts : narrative' = Advised(MainPart(t), report.cats)
  /\ pc' = "render"
  /\ UNCHANGED <<inv, repo, resp, report, summary, shown>>

\* No quota, no provider, no permission: the report goes out without a narrative.
NoNarrative ==
  /\ pc = "narrate"
  /\ pc' = "render"
  /\ UNCHANGED <<inv, repo, resp, report, summary, narrative, shown>>

\* The renderer looks again, when some category is at its maximum: dated lines go, and
\* a line that asks more than to keep such a category goes or no longer names it.
Guarded(lines, s) ==
  IF Maxed(s) = {} THEN lines
  ELSE {l \in lines : ~l.dated /\ ~(l.cats \cap Maxed(s) # {} /\ l.raises /\ ~l.keeps)}

\* A premium narrative.
Premium == inv.mode \in {"premium", "premium_executive"}

\* The comment: a premium narrative that is missing or breaks off is replaced by a bounded
\* summary. The section of adjustments says that v6 was accepted whenever there is none.
Comment(lines, breaks) ==
  [improvements |-> Renderable(report.improvements, report.cats),
   priorities   |-> IF inv.cmd = "audit" THEN RenderableLines(report.priorities, report.cats) ELSE {},
   narrative    |-> IF Premium /\ breaks THEN {} ELSE lines,
   fallback     |-> Premium /\ breaks,
   claim        |-> inv.cmd = "audit" /\ ~(report.mode = "v6_enriched" /\ resp.adjusts),
   truncated    |-> FALSE,
   artifact     |-> FALSE]

\* The report fits; or it does with a bounded summary, or no narrative, in the place of its
\* narrative; or it is cut, and its full text is written to a file.
Render ==
  /\ pc = "render"
  /\ LET lines == Guarded(narrative, report.cats)
     IN  \E breaks \in IF lines = {} THEN {TRUE} ELSE BOOLEAN, size \in {"fits", "fitsBounded", "never"} :
           shown' = CASE size = "fits" -> Comment(lines, breaks)
                      [] size = "fitsBounded" /\ narrative # {} -> Comment({}, TRUE)
                      [] OTHER -> [Comment(lines, breaks) EXCEPT !.truncated = TRUE, !.artifact = TRUE]
  /\ pc' = "done"
  /\ UNCHANGED <<inv, repo, resp, report, summary, narrative>>

Next == \/ Unsupported \/ Score
        \/ AskFails \/ Reject \/ Stumble \/ Accept
        \/ Narrate \/ NoNarrative \/ Render

Spec == Init /\ [][Next]_vars

------------------------------------------------------------------------------
(* Properties                                                              *)

Report == [score : 0..100, band : Band, cats : [Category -> 0..15], improvements : SUBSET Item,
           priorities : SUBSET Priority, warned : BOOLEAN, mode : {"none", "static_mvp", "static_contract_ready",
                                                              "static_contract_rejected", "v6_enriched"}]

\* Every variable keeps its type; a score has its bounds wherever it came from.
TypeOK ==
  /\ pc \in {"scan", "ask", "narrate", "render", "done", "error", "raised"}
  /\ inv \in [cmd : {"audit", "score"}, mode : Mode, pull : BOOLEAN]
  /\ repo \in Repos
  /\ resp \in Response
  /\ report \in Report
  /\ summary.resolved \in {"not_applicable", "v6_rejected", "v6"}
  /\ narrative \subseteq Line
  /\ shown.improvements \subseteq Item /\ shown.priorities \subseteq Priority /\ shown.narrative \subseteq Line

Accepted == resp.kind = "answer" /\ resp.defects = {}

\* Whatever the runtime did (no capability, a call that failed, an answer the guard
\* rejected or took), the report and the audit file name the engine the score is from:
\* it is v6 only if an answer was accepted, and then score and categories are that
\* answer's; else both are the baseline's.  No narrative changes them.  A band that does
\* not fit its score is told, unless six warnings came before.  The comment is another
\* matter: see `claim` in Comment.
EngineIsHonest ==
  pc = "done" =>
    /\ (summary.resolved = "v6") = Accepted
    /\ summary.mode = report.mode /\ summary.score = report.score /\ summary.band = report.band
    /\ (report.mode = "v6_enriched") = Accepted
    /\ Accepted => (report.score = resp.score /\ report.cats = resp.cats)
    /\ ~Accepted => (report.cats = Scores(repo) /\ report.score = Overall(Scores(repo)))
    /\ \/ report.band = ReadinessBand(report.score)
       \/ report.warned
       \/ Accepted /\ resp.warnings = 6

\* Nothing in a comment asks to raise a category the scorecard beside it shows at its
\* maximum, as far as the code can tell one: no improvement filed under the title of such
\* a category and no line of the roadmap that names one, of the baseline or of v6, unless it
\* has a word for keeping; and no line of the language model. The scorecard a recommendation
\* was written against is often another one than the scorecard it stands beside.
NoMaxedAdvice ==
  pc = "done" =>
    /\ \A i \in shown.improvements : (i.filed \in Maxed(report.cats) => i.advisory)
    /\ \A p \in shown.priorities : (p.names \cap Maxed(report.cats) # {} => p.advisory)
    /\ \A l \in shown.narrative : (l.cats \cap Maxed(report.cats) # {} => (l.keeps \/ ~l.raises))

\* The rules that score and the rules that block are written apart and agree: a
\* category with a critical blocker is not called strong in the same report.
BlockedIsNotStrong ==
  pc = "ask" => \A c \in Blocked(repo) : ~StrongCategory(c, report.cats[c])

\* No sign of good practice that a repository adds takes points from it, in any category:
\* it loses points by the permissions its workflows grant, and where its code spreads
\* over the top level, and by nothing else.
SignalsNeverHurt ==
  pc = "ask" => \A s \in Signal \ {"spread"} :
                  LET more == Scores([repo EXCEPT !.has = @ \cup {s}])
                  IN  \A c \in Category : more[c] >= report.cats[c]
==============================================================================
