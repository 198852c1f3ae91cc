-------------------------- MODULE AuditReportProofs --------------------------
(***************************************************************************)
(* Proofs about AuditReport: the rules of the score are monotone in what a *)
(* repository shows and agree with the rules that block, for every         *)
(* repository; and from one invariant of each stage, that the report names *)
(* its engine and does not ask to raise what is at its maximum, whatever   *)
(* the runtime and the language model answer.                              *)
(***************************************************************************)
EXTENDS AuditReport, TLAPS

\* The facts about constants that steps use.
LEMMA Given ==
  /\ Repos \subseteq Repo
  /\ Responses \subseteq Response
  /\ Texts \subseteq [headed : BOOLEAN, lines : SUBSET Line]
BY AuditAssumption

-----------------------------------------------------------------------------
(* The rules of the score                                                  *)

LEMMA PointsType == ASSUME NEW b \in BOOLEAN, NEW n \in Nat PROVE Points(b, n) \in Nat
BY DEF Points

\* Evidence that holds in more cases brings no fewer points.
LEMMA PointsMonotone ==
  ASSUME NEW b \in BOOLEAN, NEW d \in BOOLEAN, NEW n \in Nat, b => d PROVE Points(b, n) <= Points(d, n)
BY DEF Points

LEMMA BoundedType ==
  ASSUME NEW n \in Int, NEW max \in Nat PROVE Bounded(n, max) \in 0..max
BY DEF Bounded

LEMMA BoundedMonotone ==
  ASSUME NEW n \in Int, NEW m \in Int, NEW max \in Nat, n <= m PROVE Bounded(n, max) <= Bounded(m, max)
BY DEF Bounded

\* Every rule gives a number.
LEMMA RulesType ==
  ASSUME NEW r \in Repo
  PROVE  /\ Architecture(r) \in Int /\ CodeQuality(r) \in Int /\ Testing(r) \in Int /\ Security(r) \in Int
         /\ CiCd(r) \in Int /\ Dependencies(r) \in Int /\ Documentation(r) \in Int /\ ReleaseOps(r) \in Int
         /\ Governance(r) \in Int /\ AiReadiness(r) \in Int
<1>1. Architecture(r) \in Int
  BY DEF Architecture, Points
<1>2. CodeQuality(r) \in Int
  BY DEF CodeQuality, Points
<1>3. Testing(r) \in Int
  BY DEF Testing, Points
<1>4. Security(r) \in Int
  BY DEF Security, Points
<1>5. CiCd(r) \in Int
  BY DEF CiCd, Points
<1>6. Dependencies(r) \in Int
  BY DEF Dependencies, Points
<1>7. Documentation(r) \in Int
  BY DEF Documentation, Points
<1>8. ReleaseOps(r) \in Int
  BY DEF ReleaseOps, Points
<1>9. Governance(r) \in Int
  BY DEF Governance, Points
<1>10. AiReadiness(r) \in Int
  BY DEF AiReadiness, Points
<1>11. QED BY <1>1, <1>2, <1>3, <1>4, <1>5, <1>6, <1>7, <1>8, <1>9, <1>10

\* A scorecard is a function on the categories, within the bounds of each.
LEMMA ScoresType == ASSUME NEW r \in Repo PROVE Scores(r) \in [Category -> 0..15]
<1>1. /\ Bounded(Architecture(r), 15) \in 0..15 /\ Bounded(CodeQuality(r), 12) \in 0..15
      /\ Bounded(Testing(r), 12) \in 0..15 /\ Bounded(Security(r), 12) \in 0..15
      /\ Bounded(CiCd(r), 10) \in 0..15 /\ Bounded(Dependencies(r), 8) \in 0..15
      /\ Bounded(Documentation(r), 8) \in 0..15 /\ Bounded(ReleaseOps(r), 8) \in 0..15
      /\ Bounded(Governance(r), 8) \in 0..15 /\ Bounded(AiReadiness(r), 7) \in 0..15
  BY RulesType DEF Bounded
<1>2. QED BY <1>1 DEF Scores, Category

LEMMA OverallType == ASSUME NEW r \in Repo PROVE Overall(Scores(r)) \in 0..100
<1> DEFINE s == Scores(r)
<1>1. /\ s.architecture \in Int /\ s.code_quality \in Int /\ s.testing \in Int /\ s.security \in Int
      /\ s.ci_cd \in Int /\ s.dependencies \in Int /\ s.documentation \in Int /\ s.release_ops \in Int
      /\ s.governance \in Int /\ s.ai_readiness \in Int
  BY ScoresType DEF Category
<1> HIDE DEF s
<1>2. s.architecture + s.code_quality + s.testing + s.security + s.ci_cd + s.dependencies
        + s.documentation + s.release_ops + s.governance + s.ai_readiness \in Int
  BY <1>1
<1>3. Overall(s) \in 0..100
  BY <1>2, BoundedType DEF Overall
<1>4. QED BY <1>3 DEF s

LEMMA BandType == ASSUME NEW n \in Int PROVE ReadinessBand(n) \in Band
BY DEF ReadinessBand, Band

\* q shows all that r shows and grants what r grants, and its code is spread only if r's is.
ShowsMore(q, r) ==
  /\ r.has \subseteq q.has
  /\ q.perms = r.perms
  /\ "spread" \in q.has => "spread" \in r.has

\* With more to show, an excuse stays one and less is held against a repository.
LEMMA PermissionsMonotone ==
  ASSUME NEW r \in Repo, NEW q \in Repo, ShowsMore(q, r)
  PROVE  /\ Justified(r) => Justified(q)
         /\ Dangerous(q) \subseteq Dangerous(r)
<1>1. Justified(r) => Justified(q)
  BY DEF ShowsMore, Justified, Has
<1>2. QED BY <1>1 DEF ShowsMore, Dangerous

\* No rule takes points for what is shown in addition.
LEMMA RulesMonotone ==
  ASSUME NEW r \in Repo, NEW q \in Repo, ShowsMore(q, r)
  PROVE  /\ Architecture(r) <= Architecture(q) /\ CodeQuality(r) <= CodeQuality(q)
         /\ Testing(r) <= Testing(q) /\ Security(r) <= Security(q) /\ CiCd(r) <= CiCd(q)
         /\ Dependencies(r) <= Dependencies(q) /\ Documentation(r) <= Documentation(q)
         /\ ReleaseOps(r) <= ReleaseOps(q) /\ Governance(r) <= Governance(q)
         /\ AiReadiness(r) <= AiReadiness(q)
<1>0. /\ \A x : Has(r, x) => Has(q, x)
      /\ \A X : Any(r, X) => Any(q, X)
      /\ Has(q, "spread") => Has(r, "spread")
  BY DEF ShowsMore, Has, Any
<1>p. /\ Justified(r) => Justified(q)
      /\ Dangerous(q) \subseteq Dangerous(r)
  BY PermissionsMonotone
<1>1. Architecture(r) <= Architecture(q)
  BY <1>0 DEF Architecture, Points
<1>2. CodeQuality(r) <= CodeQuality(q)
  BY <1>0 DEF CodeQuality, Points
<1>3. Testing(r) <= Testing(q)
  BY <1>0 DEF Testing, Points
<1>4. Security(r) <= Security(q)
  <2>1. /\ "pull_request_target" \in Dangerous(q) => "pull_request_target" \in Dangerous(r)
        /\ "contents" \in Dangerous(q) => "contents" \in Dangerous(r)
        /\ "checks" \in Dangerous(q) => "checks" \in Dangerous(r)
        /\ "pull-requests" \in Dangerous(q) => "pull-requests" \in Dangerous(r)
        /\ Dangerous(r) = {} => Dangerous(q) = {}
    BY <1>p
  <2>2. QED BY <1>0, <2>1 DEF Security, Points
<1>5. CiCd(r) <= CiCd(q)
  <2>1. Dangerous(r) = {} => Dangerous(q) = {}
    BY <1>p
  <2>2. QED BY <1>0, <1>p, <2>1 DEF CiCd, Points
<1>6. Dependencies(r) <= Dependencies(q)
  BY <1>0 DEF Dependencies, Points
<1>7. Documentation(r) <= Documentation(q)
  BY <1>0 DEF Documentation, Points
<1>8. ReleaseOps(r) <= ReleaseOps(q)
  BY <1>0 DEF ReleaseOps, Points
<1>9. Governance(r) <= Governance(q)
  <2>1. "pull_request_target" \in Dangerous(q) => "pull_request_target" \in Dangerous(r)
    BY <1>p
  <2>2. QED BY <1>0, <2>1 DEF Governance, Points
<1>10. AiReadiness(r) <= AiReadiness(q)
  BY <1>0 DEF AiReadiness, Points
<1>11. QED BY <1>1, <1>2, <1>3, <1>4, <1>5, <1>6, <1>7, <1>8, <1>9, <1>10

\* So every category of the scorecard is monotone.
LEMMA ScoresMonotone ==
  ASSUME NEW r \in Repo, NEW q \in Repo, ShowsMore(q, r), NEW c \in Category
  PROVE  Scores(r)[c] <= Scores(q)[c]
<1>1. /\ Bounded(Architecture(r), 15) <= Bounded(Architecture(q), 15)
      /\ Bounded(CodeQuality(r), 12) <= Bounded(CodeQuality(q), 12)
      /\ Bounded(Testing(r), 12) <= Bounded(Testing(q), 12)
      /\ Bounded(Security(r), 12) <= Bounded(Security(q), 12)
      /\ Bounded(CiCd(r), 10) <= Bounded(CiCd(q), 10)
      /\ Bounded(Dependencies(r), 8) <= Bounded(Dependencies(q), 8)
      /\ Bounded(Documentation(r), 8) <= Bounded(Documentation(q), 8)
      /\ Bounded(ReleaseOps(r), 8) <= Bounded(ReleaseOps(q), 8)
      /\ Bounded(Governance(r), 8) <= Bounded(Governance(q), 8)
      /\ Bounded(AiReadiness(r), 7) <= Bounded(AiReadiness(q), 7)
  BY RulesType, RulesMonotone, BoundedMonotone
<1>2. QED BY <1>1 DEF Scores, Category

\* Where no workflow is found there is nothing a workflow grants; and so on for the other
\* signals that are read in files found before.
LEMMA RepoFacts ==
  ASSUME NEW r \in Repos
  PROVE  /\ r \in Repo
         /\ r.perms # {} => "workflows" \in r.has
         /\ r.has \cap {"ciKeywords", "permissions", "usesRepoBrain"} # {} => "workflows" \in r.has
         /\ r.has \cap {"install", "troubleshooting", "commands", "noMutation"} # {}
              => r.has \cap {"readme", "docsDir"} # {}
BY AuditAssumption

\* A category with a blocker stays below 85 per cent of its maximum.
LEMMA BlockedBelow ==
  ASSUME NEW r \in Repos, NEW c \in Blocked(r) PROVE c \in Category /\ ~StrongCategory(c, Scores(r)[c])
<1>r. r \in Repo
  BY RepoFacts
<1>1. CASE c = "ci_cd" /\ ~Has(r, "workflows")
  <2>1. CiCd(r) = 0
    BY <1>1, RepoFacts DEF CiCd, Points, Has, Justified
  <2>2. Scores(r)[c] = 0
    BY <1>1, <2>1 DEF Scores, Bounded
  <2>3. QED BY <1>1, <2>2 DEF StrongCategory, MaxScore, Category
<1>2. CASE c = "testing" /\ ~Has(r, "tests")
  <2>1. Testing(r) \in 0..6
    BY <1>2 DEF Testing, Points
  <2>2. Scores(r)[c] \in 0..6
    BY <1>2, <2>1 DEF Scores, Bounded
  <2>3. QED BY <1>2, <2>2 DEF StrongCategory, MaxScore, Category
<1>3. CASE c = "security"
           /\ Dangerous(r) \cap {"pull_request_target", "contents", "checks", "pull-requests"} # {}
  <2>1. Security(r) \in Int /\ Security(r) <= 10
    BY <1>3, RulesType, <1>r DEF Security, Points
  <2>2. Scores(r)[c] \in 0..10
    BY <1>3, <2>1 DEF Scores, Bounded
  <2>3. QED BY <1>3, <2>2 DEF StrongCategory, MaxScore, Category
<1>4. CASE c = "documentation" /\ ~Any(r, {"readme", "docsDir"})
  <2>1. Documentation(r) \in 0..1
    BY <1>4, RepoFacts DEF Documentation, Points, Any, Has
  <2>2. Scores(r)[c] \in 0..1
    BY <1>4, <2>1 DEF Scores, Bounded
  <2>3. QED BY <1>4, <2>2 DEF StrongCategory, MaxScore, Category
<1>5. QED BY <1>1, <1>2, <1>3, <1>4 DEF Blocked, When

-----------------------------------------------------------------------------
(* Type correctness                                                        *)

LEMMA ItemsType ==
  ASSUME NEW r \in Repo PROVE Improvements(r) \subseteq Item /\ Priorities(r) \subseteq Priority
<1>1. \A c \in Category : Raise(c) \in Item /\ RoadmapLine(Raise(c)) \in Priority
  BY DEF Raise, Item, RoadmapLine, Priority
<1>2. Monitor \in Item /\ RoadmapLine(Monitor) \in Priority
  BY DEF Monitor, Item, RoadmapLine, Priority, Category
<1>3. Blocked(r) \subseteq Category
  BY DEF Blocked, When, Category
<1>4. \A i \in Improvements(r) : i \in Item /\ RoadmapLine(i) \in Priority
  <2>1. SUFFICES ASSUME NEW i \in Improvements(r) PROVE i \in Item /\ RoadmapLine(i) \in Priority
    OBVIOUS
  <2>2. (\E c \in Category : i = Raise(c)) \/ i = Monitor
    BY DEF Improvements, When, Category
  <2>3. QED BY <1>1, <1>2, <2>2
<1>5. QED BY <1>1, <1>3, <1>4 DEF Priorities

LEMMA StaticType == ASSUME NEW r \in Repo PROVE StaticReport(r) \in Report
<1>1. /\ Overall(Scores(r)) \in 0..100 /\ ReadinessBand(Overall(Scores(r))) \in Band
      /\ Scores(r) \in [Category -> 0..15]
      /\ Improvements(r) \subseteq Item /\ Priorities(r) \subseteq Priority
  BY OverallType, BandType, ScoresType, ItemsType
<1>2. QED BY <1>1 DEF StaticReport, Report

LEMMA MergedType == ASSUME NEW e \in Response PROVE Merged(e) \in Report
BY DEF Merged, Report, Response, Renderable, RenderableLines

LEMMA TypeInit == Init => TypeOK
<1>1. SUFFICES ASSUME Init PROVE TypeOK
  OBVIOUS
<1>2. ZeroReport \in Report
  BY DEF ZeroReport, Report, Band
<1>3. NoResponse \in Response
  BY DEF NoResponse, Response, Band
<1>4. inv \in [cmd : {"audit", "score"}, mode : Mode, pull : BOOLEAN]
  BY <1>1 DEF Init, Mode
<1>5. QED BY <1>1, <1>2, <1>3, <1>4 DEF Init, TypeOK, NoSummary, NothingShown

LEMMA TypeNext == TypeOK /\ [Next]_vars => TypeOK'
<1>1. SUFFICES ASSUME TypeOK, [Next]_vars PROVE TypeOK'
  OBVIOUS
<1>a. AfterMerge \in {"narrate", "render"}
  BY DEF AfterMerge
<1>g. repo \in Repo /\ Responses \subseteq Response /\ Texts \subseteq [headed : BOOLEAN, lines : SUBSET Line]
  BY <1>1, Given DEF TypeOK
<1>r. ASSUME NEW m \in {"static_contract_ready", "static_contract_rejected"},
             NEW x \in {"not_applicable", "v6_rejected"}, Retain(m, x)
      PROVE  report' \in Report /\ summary'.resolved \in {"not_applicable", "v6_rejected", "v6"}
             /\ pc' \in {"narrate", "render"}
  BY <1>1, <1>a, <1>r DEF Retain, SummaryOf, TypeOK, Report
<1>2. CASE Unsupported
  BY <1>1, <1>2 DEF Unsupported, TypeOK
<1>3. CASE Score
  <2>1. report' \in Report
    BY <1>3, <1>g, StaticType DEF Score
  <2>2. QED BY <1>1, <1>3, <2>1 DEF Score, TypeOK
<1>4. CASE AskFails
  BY <1>1, <1>4, <1>g, <1>r DEF AskFails, TypeOK
<1>5. CASE Reject
  BY <1>1, <1>5, <1>g, <1>r DEF Reject, TypeOK
<1>6. CASE Stumble
  BY <1>1, <1>6, <1>g DEF Stumble, TypeOK
<1>7. CASE Accept
  <2>1. report' \in Report /\ summary'.resolved = "v6" /\ resp' \in Response
    BY <1>7, <1>g, MergedType DEF Accept, SummaryOf
  <2>2. QED BY <1>1, <1>7, <1>a, <2>1 DEF Accept, TypeOK
<1>8. CASE Narrate
  <2>1. narrative' \subseteq Line
    BY <1>8, <1>g DEF Narrate, Advised, MainPart
  <2>2. QED BY <1>1, <1>8, <2>1 DEF Narrate, TypeOK
<1>9. CASE NoNarrative
  BY <1>1, <1>9 DEF NoNarrative, TypeOK
<1>10. CASE Render
  <2>1. ASSUME NEW lines \in SUBSET Line, NEW b \in BOOLEAN
        PROVE  LET k == Comment(lines, b)
               IN k.improvements \subseteq Item /\ k.priorities \subseteq Priority /\ k.narrative \subseteq Line
    BY <1>1 DEF Comment, Renderable, RenderableLines, TypeOK, Report
  <2>2. Guarded(narrative, report.cats) \subseteq Line /\ {} \subseteq Line
    BY <1>1 DEF Guarded, TypeOK
  <2>3. PICK b \in BOOLEAN :
          \/ shown' = Comment(Guarded(narrative, report.cats), b)
          \/ shown' = Comment({}, TRUE)
          \/ shown' = [Comment(Guarded(narrative, report.cats), b) EXCEPT !.truncated = TRUE, !.artifact = TRUE]
    BY <1>10, Zenon DEF Render
  <2>4. shown'.improvements \subseteq Item /\ shown'.priorities \subseteq Priority /\ shown'.narrative \subseteq Line
    <3>1. CASE shown' = Comment(Guarded(narrative, report.cats), b)
      BY <2>1, <2>2, <3>1, Zenon
    <3>2. CASE shown' = Comment({}, TRUE)
      BY <2>1, <2>2, <3>2, Zenon
    <3>3. CASE shown' = [Comment(Guarded(narrative, report.cats), b) EXCEPT !.truncated = TRUE, !.artifact = TRUE]
      BY <2>1, <2>2, <3>3 DEF Comment
    <3>4. QED BY <2>3, <3>1, <3>2, <3>3
  <2>5. QED BY <1>1, <1>10, <2>4 DEF Render, TypeOK
<1>11. CASE UNCHANGED vars
  BY <1>1, <1>11 DEF vars, TypeOK
<1>12. QED BY <1>1, <1>2, <1>3, <1>4, <1>5, <1>6, <1>7, <1>8, <1>9, <1>10, <1>11 DEF Next

\* Every variable of an audit keeps its type, whatever the repository, the runtime and
\* the language model: no answer gets a score out of 0..100 or a category out of its range.
THEOREM TypeCorrect == Spec => []TypeOK
<1>1. QED BY TypeInit, TypeNext, PTL DEF Spec

-----------------------------------------------------------------------------
(* The stages                                                              *)

\* What EngineIsHonest says, from the moment the report is settled.
Told ==
  /\ (summary.resolved = "v6") = Accepted
  /\ summary.mode = report.mode /\ summary.score = report.score /\ summary.band = report.band
  /\ (report.mode = "v6_enriched") = Accepted
  /\ Accepted => (report.score = resp.score /\ report.cats = resp.cats)
  /\ ~Accepted => (report.cats = Scores(repo) /\ report.score = Overall(Scores(repo)))
  /\ \/ report.band = ReadinessBand(report.score)
     \/ report.warned
     \/ Accepted /\ resp.warnings = 6

\* What NoMaxedAdvice says of a comment.
Fair ==
  /\ \A i \in shown.improvements : (i.filed \in Maxed(report.cats) => i.advisory)
  /\ \A p \in shown.priorities : (p.names \cap Maxed(report.cats) # {} => p.advisory)
  /\ \A l \in shown.narrative : (l.cats \cap Maxed(report.cats) # {} => (l.keeps \/ ~l.raises))

\* Until the runtime is asked the report is the baseline; once it has answered, or
\* failed, the report says whose it is; a comment is fair.
StageInv ==
  /\ pc = "ask" => (report = StaticReport(repo) /\ resp = NoResponse)
  /\ pc = "scan" => resp = NoResponse
  /\ pc \in {"narrate", "render", "done"} => Told
  /\ pc = "done" => Fair

Inv == TypeOK /\ StageInv

LEMMA StageInit == Init => StageInv
BY DEF Init, StageInv

\* Where no answer was accepted, the report is the baseline of the repository.
LEMMA RetainTold ==
  ASSUME Inv, pc = "ask", repo' = repo,
         NEW m \in {"static_contract_ready", "static_contract_rejected"},
         NEW x \in {"not_applicable", "v6_rejected"},
         Retain(m, x), ~Accepted'
  PROVE  Told'
<1>1. report = StaticReport(repo)
  BY DEF Inv, StageInv
<1>2. /\ report'.mode = m /\ report'.score = Overall(Scores(repo)) /\ report'.cats = Scores(repo)
      /\ report'.band = ReadinessBand(Overall(Scores(repo)))
      /\ summary'.resolved = x /\ summary'.mode = m
      /\ summary'.score = report'.score /\ summary'.band = report'.band
  BY <1>1 DEF Retain, SummaryOf, StaticReport
<1>3. m # "v6_enriched" /\ x # "v6"
  OBVIOUS
<1>4. (report'.mode = "v6_enriched") = FALSE /\ (summary'.resolved = "v6") = FALSE /\ Accepted' = FALSE
  BY <1>2, <1>3
<1>5. QED BY <1>2, <1>4 DEF Told

LEMMA AcceptTold == ASSUME Inv, Accept PROVE Told'
<1>1. PICK e \in Responses : /\ e.kind = "answer" /\ e.defects = {}
                             /\ resp' = e /\ report' = Merged(e) /\ summary' = SummaryOf(Merged(e), "v6")
  BY DEF Accept
<1>2. e.warnings \in 0..6
  BY Given DEF Response
<1>3. Accepted'
  BY <1>1 DEF Accepted
<1>4. report'.band = ReadinessBand(report'.score) \/ report'.warned \/ resp'.warnings = 6
  <2>1. report'.band = e.band /\ report'.score = e.score /\ resp'.warnings = e.warnings
    BY <1>1 DEF Merged
  <2>2. report'.warned = (e.band # ReadinessBand(e.score) /\ e.warnings < 6)
    BY <1>1, Zenon DEF Merged
  <2>3. CASE e.band = ReadinessBand(e.score)
    BY <2>1, <2>3
  <2>4. CASE e.band # ReadinessBand(e.score) /\ e.warnings < 6
    BY <2>2, <2>4, Zenon
  <2>5. CASE e.warnings = 6
    BY <2>1, <2>5
  <2>6. e.warnings < 6 \/ e.warnings = 6
    BY <1>2
  <2>7. QED BY <2>3, <2>4, <2>5, <2>6
<1>5. report'.mode = "v6_enriched" /\ summary'.resolved = "v6"
  BY <1>1 DEF Merged, SummaryOf
<1>6. report'.score = resp'.score /\ report'.cats = resp'.cats
  BY <1>1 DEF Merged
<1>7. summary'.mode = report'.mode /\ summary'.score = report'.score /\ summary'.band = report'.band
  BY <1>1 DEF SummaryOf
<1>8. (report'.mode = "v6_enriched") = Accepted' /\ (summary'.resolved = "v6") = Accepted'
  BY <1>3, <1>5
<1>9. QED BY <1>3, <1>4, <1>6, <1>7, <1>8 DEF Told

\* What is rendered advises to raise nothing that is at its maximum.
LEMMA RenderFair == ASSUME Inv, Render PROVE Fair'
<1> DEFINE Lines == Guarded(narrative, report.cats)
<1>1. PICK b \in BOOLEAN :
        \/ shown' = Comment(Lines, b)
        \/ shown' = Comment({}, TRUE)
        \/ shown' = [Comment(Lines, b) EXCEPT !.truncated = TRUE, !.artifact = TRUE]
  BY Zenon DEF Render
<1>2. shown'.improvements = Renderable(report.improvements, report.cats)
  <2>1. CASE shown' = Comment(Lines, b)
    BY <2>1 DEF Comment
  <2>2. CASE shown' = Comment({}, TRUE)
    BY <2>2 DEF Comment
  <2>3. CASE shown' = [Comment(Lines, b) EXCEPT !.truncated = TRUE, !.artifact = TRUE]
    BY <2>3 DEF Comment
  <2>4. QED BY <1>1, <2>1, <2>2, <2>3
<1>3. shown'.priorities \subseteq RenderableLines(report.priorities, report.cats)
  <2>1. CASE shown' = Comment(Lines, b)
    BY <2>1 DEF Comment
  <2>2. CASE shown' = Comment({}, TRUE)
    BY <2>2 DEF Comment
  <2>3. CASE shown' = [Comment(Lines, b) EXCEPT !.truncated = TRUE, !.artifact = TRUE]
    BY <2>3 DEF Comment
  <2>4. QED BY <1>1, <2>1, <2>2, <2>3
<1>4. shown'.narrative \subseteq Lines
  <2>1. CASE shown' = Comment(Lines, b)
    BY <2>1 DEF Comment
  <2>2. CASE shown' = Comment({}, TRUE)
    BY <2>2 DEF Comment
  <2>3. CASE shown' = [Comment(Lines, b) EXCEPT !.truncated = TRUE, !.artifact = TRUE]
    BY <2>3 DEF Comment
  <2>4. QED BY <1>1, <2>1, <2>2, <2>3
<1>5. report' = report
  BY DEF Render
<1>6. \A l \in Lines : (l.cats \cap Maxed(report.cats) # {} => (l.keeps \/ ~l.raises))
  BY DEF Guarded
<1>7. QED BY <1>2, <1>3, <1>4, <1>5, <1>6 DEF Fair, Renderable, RenderableLines

LEMMA StageNext == Inv /\ [Next]_vars => StageInv'
<1>1. SUFFICES ASSUME Inv, [Next]_vars PROVE StageInv'
  OBVIOUS
<1>a. AfterMerge \in {"narrate", "render"}
  BY DEF AfterMerge
<1>2. CASE Unsupported
  BY <1>2 DEF Unsupported, StageInv
<1>3. CASE Score
  BY <1>1, <1>3 DEF Score, StageInv, Inv
<1>4. CASE AskFails
  <2>1. ~Accepted'
    BY <1>4 DEF AskFails, Accepted
  <2>2. Told'
    BY <1>1, <1>4, <2>1, RetainTold DEF AskFails
  <2>3. QED BY <1>4, <1>a, <2>2 DEF AskFails, Retain, StageInv
<1>5. CASE Reject
  <2>1. ~Accepted'
    BY <1>5 DEF Reject, Accepted
  <2>2. Told'
    BY <1>1, <1>5, <2>1, RetainTold DEF Reject
  <2>3. QED BY <1>5, <1>a, <2>2 DEF Reject, Retain, StageInv
<1>6. CASE Stumble
  BY <1>6 DEF Stumble, StageInv
<1>7. CASE Accept
  <2>1. Told'
    BY <1>1, <1>7, AcceptTold
  <2>2. QED BY <1>7, <1>a, <2>1 DEF Accept, StageInv
<1>8. CASE Narrate
  BY <1>1, <1>8 DEF Narrate, StageInv, Inv, Told, Accepted
<1>9. CASE NoNarrative
  BY <1>1, <1>9 DEF NoNarrative, StageInv, Inv, Told, Accepted
<1>10. CASE Render
  <2>1. Fair'
    BY <1>1, <1>10, RenderFair
  <2>2. Told'
    BY <1>1, <1>10 DEF Render, StageInv, Inv, Told, Accepted
  <2>3. QED BY <1>10, <2>1, <2>2 DEF Render, StageInv
<1>11. CASE UNCHANGED vars
  BY <1>1, <1>11 DEF vars, StageInv, Inv, Told, Fair, Accepted
<1>12. QED BY <1>1, <1>2, <1>3, <1>4, <1>5, <1>6, <1>7, <1>8, <1>9, <1>10, <1>11 DEF Next

LEMMA Invariant == Spec => []Inv
<1>1. Init => Inv
  BY TypeInit, StageInit DEF Inv
<1>2. Inv /\ [Next]_vars => Inv'
  BY TypeNext, StageNext DEF Inv
<1>3. QED BY <1>1, <1>2, PTL DEF Spec

\* The report and the audit file name the engine the score is from, whatever the
\* runtime answers and the language model writes.
THEOREM EnginesAreTold == Spec => []EngineIsHonest
<1>1. Inv => EngineIsHonest
  BY DEF Inv, StageInv, Told, EngineIsHonest
<1>2. QED BY <1>1, Invariant, PTL

\* No improvement filed under a category that is shown at its maximum, no line of the
\* roadmap that names one and no line of a narrative asks to raise it, whatever the
\* runtime and the language model write.
THEOREM AdviceIsFair == Spec => []NoMaxedAdvice
<1>1. Inv => NoMaxedAdvice
  BY DEF Inv, StageInv, Fair, NoMaxedAdvice
<1>2. QED BY <1>1, Invariant, PTL

\* In no repository is a category both blocked and strong.
THEOREM BlockersAgree == Spec => []BlockedIsNotStrong
<1>1. Inv => BlockedIsNotStrong
  <2>1. SUFFICES ASSUME Inv, pc = "ask", NEW c \in Blocked(repo)
                 PROVE  ~StrongCategory(c, report.cats[c])
    BY DEF BlockedIsNotStrong
  <2>2. report.cats = Scores(repo) /\ repo \in Repos
    BY <2>1 DEF Inv, StageInv, StaticReport, TypeOK
  <2>3. QED BY <2>2, BlockedBelow
<1>2. QED BY <1>1, Invariant, PTL

\* In no repository does a sign of good practice take points, in any category.
THEOREM ScoresAreMonotone == Spec => []SignalsNeverHurt
<1>1. Inv => SignalsNeverHurt
  <2>1. SUFFICES ASSUME Inv, pc = "ask", NEW s \in Signal \ {"spread"}, NEW c \in Category
                 PROVE  Scores([repo EXCEPT !.has = @ \cup {s}])[c] >= report.cats[c]
    BY DEF SignalsNeverHurt
  <2> DEFINE q == [repo EXCEPT !.has = @ \cup {s}]
  <2>2. report.cats = Scores(repo) /\ repo \in Repo
    BY <2>1, Given DEF Inv, StageInv, StaticReport, TypeOK
  <2>3. q \in Repo /\ ShowsMore(q, repo)
    BY <2>2 DEF Repo, ShowsMore
  <2>4. Scores(repo)[c] <= Scores(q)[c]
    BY <2>2, <2>3, ScoresMonotone
  <2>5. Scores(repo)[c] \in Int /\ Scores(q)[c] \in Int
    BY <2>2, <2>3, ScoresType
  <2>6. QED BY <2>2, <2>4, <2>5
<1>2. QED BY <1>1, Invariant, PTL

=============================================================================
