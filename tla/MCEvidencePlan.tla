--------------------------- MODULE MCEvidencePlan ---------------------------
(***************************************************************************)
(* Twenty-four paths, the first nine of every kind but two; pull requests  *)
(* of none to nine of them, of twelve and of all, where the parts of a     *)
(* budget pass their floors; an index with several chunks of a file.       *)
(***************************************************************************)
EXTENDS EvidencePlan

MCKindOf == <<"workflow", "docs", "core", "core", "mixed", "tests", "generated", "core", "core",
              "docs", "tests", "config", "core", "core", "core", "tooling", "core", "mixed",
              "core", "core", "docs", "core", "core", "core">>

\* The scores of a pull request: those of documents and of generated files are below most.
Score == <<40, 30, 60, 35, 50, 45, 32, 80, 42, 25, 44, 38, 61, 55, 70, 36, 58, 34, 49, 62, 28,
           53, 66, 47>>

\* The hunks of path p: of ordinary size, beyond a call, several, or none where GitHub lists none.
HunksIn(shape, p) ==
  CASE shape = "each" -> <<3>>
    [] shape = "over" -> IF p % 2 = 1 THEN <<12>> ELSE <<4>>
    [] shape = "many" -> <<3, 5, 4>>
    [] shape = "some" -> IF p = 4 THEN <<>> ELSE <<2, 3>>

\* The files of S in the order of their names or the other way round; path q is named in the patch of 3.
Listing(S, shape, q, back) ==
  LET order == IF back THEN Reverse(Sorted(S)) ELSE Sorted(S)
  IN  [i \in DOMAIN order |->
         [path |-> order[i], score |-> Score[order[i]], hunks |-> HunksIn(shape, order[i]),
          names |-> IF order[i] = 3 THEN q ELSE 0]]

Command == [cmd |-> "review", listing |-> <<>>, index |-> <<>>, words |-> [p \in Paths |-> 0],
            targets |-> <<>>, force |-> FALSE, query |-> "plain"]

Pulls == {{}, {2}, {3}, {2, 7}, {1, 2, 3, 4}, {2, 3, 6, 7, 8}, {1, 2, 3, 4, 5, 6, 8}, 1..9}

Listings == {Listing(S, shape, q, back) :
               S \in Pulls, shape \in {"each", "over", "many", "some"}, q \in {0, 2, 3}, back \in BOOLEAN}

\* Pull requests where the parts of the budget pass their floors.
Large == {Listing(1..n, "each", 0, back) : n \in {12, 18, 24}, back \in BOOLEAN}

\* Indexes, with scores from best to ones that are dropped where others are left.
At(p, line, last, score) == [path |-> p, line |-> line, last |-> last, score |-> score]
Indexes == {<<At(1, 1, 9, 7)>>,
            <<At(3, 1, 15, 90), At(3, 5, 18, 80), At(3, 5, 25, 70), At(2, 1, 9, 40)>>,
            <<At(4, 1, 9, 90), At(4, 31, 39, 20), At(1, 1, 9, 80), At(6, 1, 9, 60), At(2, 1, 9, 50),
              At(7, 1, 9, 70), At(5, 1, 9, 9), At(8, 1, 9, 20), At(9, 1, 9, 0)>>}

\* Nothing in the names of the files, or something in those of most of them.
Words == {[p \in Paths |-> 0], [p \in Paths |-> IF p = 2 THEN 0 ELSE (p % 3) + 1]}

MCInvocations ==
  {[Command EXCEPT !.cmd = c, !.index = i, !.listing = Listing(S, "each", 0, FALSE), !.words = w, !.query = q] :
     c \in Lookup, i \in Indexes, S \in {{}, {2, 3, 4}}, w \in Words, q \in {"plain", "workflows"}}
  \cup {[Command EXCEPT !.listing = l, !.force = f, !.query = q] :
           l \in Listings \cup Large, f \in BOOLEAN, q \in {"plain", "docs"}}
  \cup {[Command EXCEPT !.cmd = "fix", !.listing = l, !.targets = t, !.force = f] :
           l \in {x \in Listings \cup Large : {3, 4} \subseteq PathsOf(x)}, t \in {<<3>>, <<4, 3>>}, f \in BOOLEAN}
=============================================================================
