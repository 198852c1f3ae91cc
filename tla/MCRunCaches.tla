----------------------------- MODULE MCRunCaches -----------------------------
(***************************************************************************)
(* Runs of two pull requests on a small repository.                        *)
(***************************************************************************)
EXTENDS RunCaches

CONSTANTS p, q

Task(cmd, pr, dry) == [cmd |-> cmd, pr |-> pr, dry |-> dry]
Plan(a, b, c, pushed) == [task |-> <<a, b, c>>, pushed |-> pushed]

\* Reviews of one and of two pull requests, with a dry run; snapshots of review
\* and fix; questions with an index that is built, restored or refreshed.
MCPlans ==
  {Plan(Task("review", p, FALSE), Task("review", q, FALSE), Task("review", p, FALSE), {p}),
   Plan(Task("review", p, FALSE), Task("review", p, TRUE), Task("review", p, FALSE), {p}),
   Plan(Task("fix", p, FALSE), Task("review", p, FALSE), Task("fix", p, FALSE), {p}),
   Plan(Task("ask", None, FALSE), Task("index", None, FALSE), Task("ask", p, FALSE), {"main"}),
   Plan(Task("ask", p, FALSE), Task("fix", p, TRUE), Task("ask", p, FALSE), {}),
   Plan(Task("ask", None, FALSE), Task("review", p, FALSE), Task("index", None, FALSE), {"main"})}

\* One file changes with every commit, one is only indented anew.
MCText == [c \in Commits |-> [f \in Files |->
  [lines |-> 1, words |-> IF f = "moving" THEN c ELSE 0, space |-> c]]]
MCChanged == [c \in Commits |-> {"moving"}]

Row(id, class) == [id |-> id, class |-> class]
MCRows == [c \in Commits |->
  CASE c = 1 -> {Row("a", "high"), Row("b", "low")}
    [] c = 2 -> {Row("a", "low"), Row("c", "low")}
    [] OTHER -> {Row("a", "not_tracked")}]
=============================================================================
