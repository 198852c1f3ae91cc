---------------------------- MODULE MCAuditReport ----------------------------
(***************************************************************************)
(* Repositories around three typical ones, and answers around a good one.  *)
(***************************************************************************)
EXTENDS AuditReport

Ci == {"workflows", "ciKeywords", "permissions"}
Bare == {"code", "readme"}
Tidy == Signal \ {"spread", "usesRepoBrain", "lintEmbedded", "typesEmbedded", "formatEmbedded"}

\* A full repository with every choice of permissions and of what excuses them, or without
\* one of a few signals; a new repository with little more than code; and no code at all.
MCRepos ==
  {[has |-> Tidy \cup on, perms |-> p] :
     on \in {{}, {"usesRepoBrain"}},
     p \in SUBSET {"pull_request_target", "contents", "checks", "pull-requests", "issues"}}
  \cup {[has |-> Tidy \ {off}, perms |-> p] : off \in {"tests", "types", "purpose"}, p \in {{}, {"pull-requests", "issues"}}}
  \cup {[has |-> Bare \cup on, perms |-> {}] : on \in SUBSET {"codeRoots", "spread", "typesEmbedded"}}
  \cup {[has |-> Ci, perms |-> p] : p \in {{}, {"pull_request_target", "contents"}, Permission}}
  \cup {[has |-> on, perms |-> {}] : on \in {{}, {"docsDir"}, {"code"}, {"tests"}}}

Good == [kind |-> "answer", defects |-> {}, score |-> 88, band |-> "STRONG",
         cats |-> [c \in Category |-> IF c \in {"testing", "security"} THEN MaxScore[c] ELSE MaxScore[c] - 1],
         warnings |-> 0, improvements |-> {}, roadmap |-> {}, adjusts |-> TRUE]

Ask(c) == [filed |-> c, advisory |-> FALSE]
Watch(c) == [filed |-> c, advisory |-> TRUE]
Name(C, keeps) == [names |-> C, advisory |-> keeps]

MCResponses ==
  {[Good EXCEPT !.kind = k, !.band = "WEAK"] : k \in {"unavailable", "raises"}}
  \cup {[Good EXCEPT !.defects = {d}] : d \in Defect}
  \cup {[Good EXCEPT !.defects = {"delta", "band"}]}
  \cup {[Good EXCEPT !.band = b, !.warnings = w, !.adjusts = (w = 0)] : b \in {"GOOD", "WEAK"}, w \in {0, 6}}
  \cup {[Good EXCEPT !.improvements = i, !.roadmap = p] :
          i \in {{Ask("testing"), Ask("other")}, {Watch("testing"), Ask("ci_cd")}},
          p \in {{Name({"testing", "ci_cd"}, FALSE), Name({}, FALSE)},
                 {Name({"testing"}, TRUE), Name({"ci_cd"}, FALSE)}}}

Say(at, cats, raises, keeps, dated) == [at |-> at, cats |-> cats, raises |-> raises, keeps |-> keeps, dated |-> dated]
RaiseTests == Say("main", {"testing"}, TRUE, FALSE, FALSE)
KeepTests  == Say("main", {"testing"}, TRUE, TRUE, FALSE)
RaiseBoth  == Say("main", {"testing", "ci_cd"}, TRUE, FALSE, TRUE)
RaiseCi    == Say("main", {"ci_cd"}, TRUE, FALSE, TRUE)
OfThePull  == Say("pr", {"security"}, TRUE, FALSE, FALSE)
MCTexts == {[headed |-> FALSE, lines |-> l] : l \in {{RaiseTests}, {KeepTests, RaiseBoth}, {RaiseCi}}}
           \cup {[headed |-> TRUE, lines |-> l] : l \in {{RaiseTests, OfThePull}, {OfThePull}, {KeepTests, OfThePull}}}
=============================================================================
