----------------------------- MODULE MCReviewFix -----------------------------
(***************************************************************************)
(* Two files and a third outside of the request, for TLC.                  *)
(***************************************************************************)
EXTENDS ReviewFix

CONSTANTS a, b

Plain == [cmd |-> "fix", scope |-> "open", dry |-> FALSE, mutation |-> FALSE, require |-> TRUE,
          batches |-> TRUE, force |-> FALSE, policy |-> TRUE, dynamic |-> TRUE, verify |-> TRUE,
          strict |-> FALSE]

MCInvocations ==
  {[Plain EXCEPT !.require = r, !.batches = on] : r, on \in BOOLEAN}
  \cup {[Plain EXCEPT !.mutation = TRUE], [Plain EXCEPT !.policy = FALSE, !.force = TRUE],
        [Plain EXCEPT !.dry = TRUE, !.require = FALSE, !.dynamic = FALSE]}
  \cup {[Plain EXCEPT !.cmd = "review", !.batches = on, !.strict = on] : on \in BOOLEAN}
  \cup {[Plain EXCEPT !.cmd = c, !.scope = s] : c \in {"review", "fix"}, s \in {"issue", "noNumber", "closed"}}

\* Kinds of files: unremarkable, with conflict markers, risky by name and
\* wording only, named by the query, and a document that is all but risky.
File(path, hunks, named) == [path |-> path, patch |-> hunks, named |-> named]
Quiet      == File({}, {}, FALSE)
Conflicted == File({}, {"conflict"}, FALSE)
Kinds == {Quiet, Conflicted, File({"workflow", "sensitive"}, {"secret"}, FALSE),
          File({}, {}, TRUE), File({"doc"}, {"conflict"}, TRUE)}
MCContents == [{a} -> Kinds]
              \cup {[f \in {a, b} |-> IF f = a THEN k ELSE Conflicted] : k \in {Quiet, Conflicted}}

Report(ruff, pytest) == [c \in Checks |-> IF c = "ruff" THEN ruff ELSE pytest]
MCReports == {Report("PASS", "PASS"), Report("FAIL", "PASS"), Report("PASS", "NOT_RUN")}

\* Diffs of files named, one that takes a stray file away as well without naming
\* it, and two with template words.  An engine may also hand over nothing else
\* than such a removal.
Diff(named, gone, marks) == [named |-> named, gone |-> gone, marks |-> marks]
MCDiffs == {Diff({a}, {}, {}), Diff({a, Stray}, {}, {}), Diff({b}, {Stray}, {})}
           \cup {Diff({a}, {}, {m}) : m \in Marks}

MCEngines ==
  {[route |-> "FAST", mode |-> "retrieval_plus_llm", diff |-> d] :
      d \in {NoDiff, Diff({a}, {}, {}), Diff({a, Stray}, {}, {}), Diff({}, {Stray}, {})}}
  \cup {[route |-> r, mode |-> m, diff |-> NoDiff] :
          r \in {"DEEP", "REVIEW"}, m \in {"retrieval_only", "retrieval_plus_llm"}}
  \cup {[route |-> "WAIT", mode |-> "verification_first", diff |-> d] :
          d \in {NoDiff, Diff({a}, {}, {})}}
  \cup {[route |-> r, mode |-> "refuse", diff |-> NoDiff] : r \in {"REFUSE", "BLOCK"}}
=============================================================================
