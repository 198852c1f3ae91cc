----------------------------- MODULE EvidencePlan -----------------------------
(***************************************************************************)
(* From the index and the pull request to what the engine and the language *)
(* model are shown: retrieval, for ask, explain and locate; the evidence   *)
(* kept within a budget and freed of noise; and, in review and fix, the    *)
(* patches dealt into batches of bounded size, the first few of them sent. *)
(*                                                                         *)
(* A path is its place in the order of the names. A patch is what GitHub   *)
(* lists for one file, without the file's name; its text may happen to     *)
(* name a path. Which files a fix is about is settled in ReviewFix, what   *)
(* becomes of the calls in LlmBudget. Retrieval by vectors, the extra      *)
(* bounds of very large pull requests, and hunks with the same text are    *)
(* left out.                                                               *)
(***************************************************************************)
EXTENDS Integers, SequencesExt

CONSTANTS LastPath,    \* the paths are numbered to it, in the order of their names
          KindOf,      \* the segment every path belongs to
          Private,     \* the paths that are never shown
          Readme,      \* the path that stands in where a pull request lists no file
          Invocations, \* the commands, each with what was found for it
          Room,        \* the tokens of a call, less what is reserved
          TargetHunks, \* the hunks a fix looks at
          HunkCap,     \* the hunks of one call of a fix
          MaxCalls,    \* the calls of one stage
          TopK         \* the candidates of a retrieval

Paths == 1..LastPath

Kind == {"core", "mixed", "tests", "docs", "workflow", "config", "tooling", "generated"}

\* A candidate: lines of a file, with a score in hundredths.
Chunk == [path : Paths, line : Nat, last : Nat, score : 0..100]

\* A file of the pull request, with its score and the sizes in tokens of the hunks of its
\* patch, none where GitHub lists no patch. What its text names is one of the paths, or 0.
Listed == [path : Paths, score : 20..100, hunks : Seq(Nat \ {0}), names : Paths \cup {0}]

Lookup == {"ask", "explain", "locate"}

\* A command: the files of its pull request, the index with the scores of its chunks, how many
\* words of the query a path has, the files a fix is about in the order of its choice, whether
\* batches are forced, and what the query is about.
Invocation == [cmd : Lookup \cup {"review", "fix"}, listing : Seq(Listed), index : Seq(Chunk),
               words : [Paths -> 0..3], targets : Seq(Paths), force : BOOLEAN,
               query : {"plain", "docs", "workflows"}]

PathsOf(s) == {s[i].path : i \in DOMAIN s}

ASSUME EvidenceAssumption ==
  /\ LastPath \in Nat \ {0} /\ Private \subseteq Paths
  /\ KindOf \in [Paths -> Kind]
  /\ Readme \in Paths /\ KindOf[Readme] = "docs" /\ Readme \notin Private
  /\ Room \in Nat \ {0} /\ TargetHunks \in Nat \ {0} /\ HunkCap \in Nat \ {0} /\ MaxCalls \in Nat \ {0} /\ TopK \in Nat \ {0}
  /\ \A v \in Invocations :
       /\ v \in Invocation
       /\ \A i, j \in DOMAIN v.listing : v.listing[i].path = v.listing[j].path => i = j
       /\ \A i, j \in DOMAIN v.index : v.index[i] = v.index[j] => i = j
       /\ v.cmd \in Lookup => v.index # <<>>
       /\ v.cmd = "fix" => /\ v.targets # <<>> /\ IsInjective(v.targets)
                           /\ \A i \in DOMAIN v.targets : v.targets[i] \in PathsOf(v.listing)

Least(m, n) == IF m < n THEN m ELSE n
Most(m, n) == IF m < n THEN n ELSE m
First(n, s) == SubSeq(s, 1, Least(n, Len(s)))

------------------------------------------------------------------------------
(* Retrieval                                                               *)

\* By score, then by place.
Better(c, d) ==
  \/ c.score > d.score
  \/ c.score = d.score /\ (c.path < d.path \/ (c.path = d.path /\ (c.line < d.line \/ (c.line = d.line /\ c.last < d.last))))

\* scope_chunks_incremental: where the index has changed files, those and the four others
\* whose names have the most words of the query.
Scoped(index, words, changed) ==
  LET there == changed \cap PathsOf(index)
      others == SelectSeq([p \in Paths |-> p], LAMBDA p : p \in PathsOf(index) \ there /\ words[p] > 0)
      support == First(4, SortSeq(others, LAMBDA p, q : words[p] > words[q] \/ (words[p] = words[q] /\ p < q)))
  IN  IF there = {} THEN index ELSE SelectSeq(index, LAMBDA c : c.path \in there \cup ToSet(support))

\* retrieve_topk_pro: the best, with few chunks of one file, and few files to locate something.
Retrieved(cmd, s) ==
  LET Take(kept, c) ==
        LET before == Len(SelectSeq(kept, LAMBDA d : d.path = c.path))
        IN  IF \/ Len(kept) >= TopK
               \/ before >= (IF cmd = "ask" THEN 2 ELSE 1)
               \/ cmd = "locate" /\ before = 0 /\ Cardinality(PathsOf(kept)) >= 5
            THEN kept ELSE Append(kept, c)
  IN  FoldLeft(Take, <<>>, SortSeq(s, Better))

\* rerank_candidates: the score, the words of the query in the name, and what the kind of the
\* file and the change add or take away.
Rescored(c, words, query, changed) ==
  LET named  == IF words[c.path] = 0 THEN 0 ELSE Least(100, 25 + 20 * words[c.path])
      wanted == query = "workflows" /\ KindOf[c.path] = "workflow"
      bonus  == (IF c.path \in changed THEN 22 ELSE 0) + (IF wanted THEN 45 ELSE 0)
                - (IF query = "workflows" /\ KindOf[c.path] = "docs" THEN 8 ELSE 0)
                - (IF KindOf[c.path] = "generated" THEN 10 ELSE 0) + (6 * c.score) \div 100
      sum    == (68 * c.score + 22 * named + 10 * Most(0, Least(100, bonus))) \div 100
  IN  [c EXCEPT !.score = Least(100, sum + IF wanted THEN 12 ELSE 0)]

Reranked(s, words, query, changed) ==
  IF Len(s) = 1 THEN s
  ELSE SortSeq([i \in DOMAIN s |-> Rescored(s[i], words, query, changed)], Better)

------------------------------------------------------------------------------
(* The budget of the evidence                                              *)

\* Explaining and locating are budgeted as asking.
Like(cmd) == IF cmd \in Lookup THEN "ask" ELSE cmd

\* The share of the candidates a command may keep, between its floor and its ceiling.
Share == [ask    |-> [part |-> 60, low |-> 3, high |-> 18],
          review |-> [part |-> 75, low |-> 6, high |-> 30],
          fix    |-> [part |-> 50, low |-> 4, high |-> 20]]

\* What every bucket may take of it: a part in hundredths, and a floor.
Part == [ask    |-> [primary |-> 45, secondary |-> 15, support |-> 25, workflow |-> 10, tests |-> 8, docs |-> 5],
         review |-> [primary |-> 45, secondary |-> 20, support |-> 10, workflow |-> 15, tests |-> 7, docs |-> 5],
         fix    |-> [primary |-> 60, secondary |-> 20, support |-> 7,  workflow |-> 8,  tests |-> 3, docs |-> 2]]
Floor == [ask    |-> [primary |-> 3, secondary |-> 1, support |-> 2, workflow |-> 1, tests |-> 1, docs |-> 1],
          review |-> [primary |-> 6, secondary |-> 2, support |-> 2, workflow |-> 2, tests |-> 1, docs |-> 1],
          fix    |-> [primary |-> 4, secondary |-> 1, support |-> 1, workflow |-> 1, tests |-> 1, docs |-> 1]]

\* In which order the buckets are served.
Priority(cmd) ==
  CASE cmd \in Lookup  -> <<"primary", "support", "workflow", "secondary", "tests", "docs">>
    [] cmd = "review" -> <<"primary", "workflow", "secondary", "tests", "support", "docs">>
    [] cmd = "fix"    -> <<"primary", "secondary", "workflow", "support", "tests", "docs">>

Base(cmd, n) == LET part == Share[Like(cmd)] IN Most(part.low, Least(part.high, (n * part.part) \div 100))
Limit(cmd, n) == Least(n, Base(cmd, n))

\* Mistake: the floor alone, whatever the length of the list.
Cap_FloorOnly(cmd, n, b) == Floor[Like(cmd)][b]

\* What a bucket is served: its part of the limit, rounded down, or its floor.
Cap(cmd, n, b) == Most(Floor[Like(cmd)][b], (Base(cmd, n) * Part[Like(cmd)][b]) \div 100)

\* What is code to a review, which knows the segments of its pull request, and to an ask, which
\* has only the names.
Code(cmd) == IF cmd \in Lookup THEN {"core", "tooling", "generated"} ELSE {"core", "mixed"}

\* The bucket of a path.
BucketOf(cmd, p, changed) ==
  IF p \in changed /\ KindOf[p] \in Code(cmd) THEN "primary"
  ELSE IF p \in changed /\ cmd \in Lookup THEN "secondary"
  ELSE CASE KindOf[p] \in {"workflow", "config"} -> "workflow"
         [] KindOf[p] \in {"tests", "docs"}      -> KindOf[p]
         [] OTHER                                -> "support"

\* plan_evidence_budget: every bucket up to its cap, then whatever comes first.
Budgeted(cmd, s, changed) ==
  LET n == Len(s)
      Of(b) == SelectSeq(s, LAMBDA c : BucketOf(cmd, c.path, changed) = b)
      Serve(kept, b) == kept \o First(Least(Cap(cmd, n, b), Limit(cmd, n) - Len(kept)), Of(b))
      served == FoldLeft(Serve, <<>>, Priority(cmd))
      rest == SelectSeq(s, LAMBDA c : c \notin ToSet(served))
  IN  served \o First(Limit(cmd, n) - Len(served), rest)

------------------------------------------------------------------------------
(* The filter of the evidence                                              *)

TopScore(s) == CHOOSE n \in {s[i].score : i \in DOMAIN s} : \A i \in DOMAIN s : s[i].score <= n

\* A question about the workflows of RepoBrain itself puts the documents first, and does
\* without the workflows of others.
Padding(query, p) == query = "workflows" /\ KindOf[p] = "workflow"
Rank(query, p) == IF query # "workflows" THEN 50 ELSE CASE KindOf[p] = "docs" -> 2 [] KindOf[p] = "workflow" -> 8 [] OTHER -> 50

\* Documents give way to anything else when a pull request is looked at.
DocsNoise(cmd, query, s, c) ==
  /\ cmd \in {"review", "fix"}
  /\ KindOf[c.path] = "docs" /\ query # "docs"
  /\ \E i \in DOMAIN s : KindOf[s[i].path] # "docs"
  /\ 100 * c.score <= 99 * TopScore(s)

SameRegion(c, d) == c.path = d.path /\ c.line \div 20 = d.line \div 20 /\ c.last \div 20 = d.last \div 20

Before(query, c, d) ==
  \/ Rank(query, c.path) < Rank(query, d.path)
  \/ Rank(query, c.path) = Rank(query, d.path)
     /\ \/ c.score > d.score
        \/ c.score = d.score /\ (c.path < d.path \/ (c.path = d.path /\ c.line < d.line))

\* filter_candidate_evidence: one look at each candidate in turn; the first one stays where none would.
Filtered(cmd, query, s, max) ==
  LET Look(kept, c) ==
        IF \/ Len(kept) >= Most(1, max)
           \/ c.path \in Private
           \/ Padding(query, c.path)
           \/ 100 * c.score < Most(100, 12 * TopScore(s)) /\ Len(kept) >= 3
           \/ DocsNoise(cmd, query, s, c)
           \/ KindOf[c.path] = "generated" /\ 100 * c.score < 85 * TopScore(s)
           \/ \E i \in DOMAIN kept : SameRegion(kept[i], c)
        THEN kept ELSE Append(kept, c)
      kept == FoldLeft(Look, <<>>, s)
  IN  SortSeq(IF kept = <<>> THEN <<s[1]>> ELSE kept, LAMBDA c, d : Before(query, c, d))

------------------------------------------------------------------------------
(* The batches                                                             *)

\* Paths in the order of their names.
Sorted(S) == SelectSeq([p \in Paths |-> p], LAMBDA p : p \in S)

\* Mistake: the patches are dealt to the paths from the second on.
Dealt_Shifted(known, j) == known[(j % Len(known)) + 1]

\* A patch that names none of the paths goes to the next in turn, whatever file it is of.
Dealt(known, j) == known[((j - 1) % Len(known)) + 1]

\* The patches that are read as those of path p.
HunksOf(p, known, hunks) ==
  LET Named(h) == h.names \in ToSet(known)
      loose == SelectSeq(hunks, LAMBDA h : ~Named(h))
      turns == SelectSeq([j \in DOMAIN loose |-> j], LAMBDA j : Dealt(known, j) = p)
  IN  SelectSeq(hunks, LAMBDA h : Named(h) /\ h.names = p) \o [i \in DOMAIN turns |-> loose[turns[i]]]

\* Mistake: what does not fit is left out.
Packed_Dropped(items, start) ==
  LET Put(acc, x) == IF acc.now.items # <<>> /\ acc.now.tokens + x.tokens > Room THEN acc
                     ELSE [acc EXCEPT !.now = [items |-> Append(@.items, x), tokens |-> @.tokens + x.tokens]]
      end == FoldLeft(Put, [full |-> <<>>, now |-> [items |-> <<>>, tokens |-> start]], items)
  IN  Append(end.full, end.now)

\* Things with a size put together in their order, a new group wherever the next would not fit.
Packed(items, start) ==
  LET Put(acc, x) ==
        IF acc.now.items # <<>> /\ acc.now.tokens + x.tokens > Room
        THEN [full |-> Append(acc.full, acc.now), now |-> [items |-> <<x>>, tokens |-> start + x.tokens]]
        ELSE [acc EXCEPT !.now = [items |-> Append(@.items, x), tokens |-> @.tokens + x.tokens]]
      end == FoldLeft(Put, [full |-> <<>>, now |-> [items |-> <<>>, tokens |-> start]], items)
  IN  Append(end.full, end.now)

\* _chunk_file_units: the patches of a path, with its name and its candidates in every unit.
Units(p, cands, hunks) ==
  LET start == 1 + Len(SelectSeq(cands, LAMBDA c : c.path = p))
      sized == [i \in DOMAIN hunks |-> [hunk |-> hunks[i], tokens |-> hunks[i].size]]
      groups == Packed(sized, start)
  IN  [g \in DOMAIN groups |->
         [path |-> p, tokens |-> groups[g].tokens,
          hunks |-> [i \in DOMAIN groups[g].items |-> groups[g].items[i].hunk]]]

\* plan_batches: the units of all the paths, in the order of the names.
Planned(changed, cands, hunks) ==
  LET known == Sorted(changed \cup PathsOf(cands))
      units == FlattenSeq([i \in DOMAIN known |-> Units(known[i], cands, HunksOf(known[i], known, hunks))])
      groups == Packed(units, 0)
  IN  [g \in DOMAIN groups |->
         [paths  |-> Sorted(PathsOf(groups[g].items)),
          hunks  |-> FlattenSeq([i \in DOMAIN groups[g].items |-> groups[g].items[i].hunks]),
          units  |-> Len(groups[g].items),
          tokens |-> groups[g].tokens]]

\* Mistake: the second half of one is nothing.
Halves_Empty(s) == LET mid == Most(1, Len(s) \div 2) IN <<First(mid, s), SubSeq(s, mid + 1, Len(s))>>

\* Two halves of a list; both hold it where it has one element.
Halves(s) ==
  LET mid == Most(1, Len(s) \div 2)
  IN  IF Len(s) <= 1 THEN <<s, s>> ELSE <<First(mid, s), SubSeq(s, mid + 1, Len(s))>>

\* _split_batch_for_force_mode: paths and patches are halved each for itself.
Forced(b) ==
  [k \in 1..2 |->
     [paths |-> Halves(b.paths)[k], hunks |-> Halves(b.hunks)[k], units |-> 1,
      tokens |-> IF k = 1 THEN Most(1, b.tokens \div 2) ELSE Most(1, b.tokens - Most(1, b.tokens \div 2))]]

\* _split_batch_by_hunk_cap: the paths go with every part.
Capped(b) ==
  LET n == Len(b.hunks)
      parts == (n + HunkCap - 1) \div HunkCap
      Cut(k) == SubSeq(b.hunks, (k - 1) * HunkCap + 1, Least(k * HunkCap, n))
  IN  IF n <= HunkCap THEN <<b>>
      ELSE [k \in 1..parts |-> [b EXCEPT !.hunks = Cut(k), !.tokens = Most(1, (b.tokens * Len(Cut(k))) \div n)]]

------------------------------------------------------------------------------
VARIABLES
  pc,       \* the stage: "retrieve", "filter", "budget", "engine", "plan", "split", "send", "done"
  inv,      \* the command
  evidence, \* the candidates that are left
  selected, \* the candidates the budget has kept
  batches,  \* the batches
  sent      \* how many of them are sent

vars == <<pc, inv, evidence, selected, batches, sent>>

Changed == PathsOf(inv.listing)

\* The candidates of a pull request are its files; the README where it lists none.
FromListing(fs) ==
  IF fs = <<>> THEN <<[path |-> Readme, line |-> 1, last |-> 1, score |-> 1]>>
  ELSE [i \in DOMAIN fs |-> [path |-> fs[i].path, line |-> 1, last |-> 1, score |-> fs[i].score]]

Hunk(f, k, size) == [of |-> f.path, part |-> k, names |-> f.names, size |-> size]

\* The patches the model is to see: all of them in a review, in a fix the first hunks of its targets.
Hunks ==
  LET Patch(p) == CHOOSE f \in ToSet(inv.listing) : f.path = p
      Parts(f) == [k \in DOMAIN f.hunks |-> Hunk(f, k, f.hunks[k])]
      patched  == SelectSeq(inv.listing, LAMBDA f : f.hunks # <<>>)
  IN  IF inv.cmd = "fix"
      THEN First(TargetHunks, FlattenSeq([i \in DOMAIN inv.targets |-> Parts(Patch(inv.targets[i]))]))
      ELSE [i \in DOMAIN patched |-> Hunk(patched[i], 1, FoldLeft(+, 0, patched[i].hunks))]

Init ==
  /\ inv \in Invocations
  /\ evidence = IF inv.cmd \in Lookup THEN inv.index ELSE FromListing(inv.listing)
  /\ pc = IF inv.cmd \in Lookup THEN "retrieve" ELSE "budget"
  /\ selected = <<>> /\ batches = <<>> /\ sent = 0

Retrieve ==
  /\ pc = "retrieve"
  /\ LET best == Retrieved(inv.cmd, Scoped(inv.index, inv.words, Changed))
     IN  evidence' = Reranked(best, inv.words, inv.query, Changed)
  /\ pc' = "filter"
  /\ UNCHANGED <<inv, selected, batches, sent>>

\* What was retrieved is freed of noise first and then brought within its budget; a review the
\* other way round.
Filter ==
  /\ pc = "filter"
  /\ evidence' = Filtered(inv.cmd, inv.query, evidence, IF inv.cmd \in Lookup THEN TopK ELSE Len(evidence))
  /\ pc' = IF inv.cmd \in Lookup THEN "budget" ELSE "plan"
  /\ UNCHANGED <<inv, selected, batches, sent>>

Budget ==
  /\ pc = "budget"
  /\ selected' = Budgeted(inv.cmd, evidence, Changed)
  /\ evidence' = selected'
  /\ pc' = IF inv.cmd \in Lookup THEN "engine" ELSE "filter"
  /\ UNCHANGED <<inv, batches, sent>>

\* One place of each file, and few files, to explain or to locate something.
Deduped(cmd, s) ==
  LET Take(kept, c) == IF c.path \in PathsOf(kept) THEN kept ELSE Append(kept, c)
      files == FoldLeft(Take, <<>>, s)
  IN  CASE cmd = "ask" -> s [] cmd = "locate" -> First(5, files) [] cmd = "explain" -> First(7, files)

\* The engine answers from some of the evidence, and that is filtered once more.
Answer ==
  /\ pc = "engine"
  /\ \E S \in SUBSET ToSet(evidence) \ {{}} :
       LET used == Deduped(inv.cmd, SelectSeq(evidence, LAMBDA c : c \in S))
       IN  evidence' = Filtered(inv.cmd, inv.query, used, Len(used))
  /\ pc' = "done"
  /\ UNCHANGED <<inv, selected, batches, sent>>

Plan ==
  /\ pc = "plan"
  /\ batches' = Planned(IF inv.cmd = "fix" THEN ToSet(inv.targets) ELSE Changed, evidence, Hunks)
  /\ pc' = "split"
  /\ UNCHANGED <<inv, evidence, selected, sent>>

\* A single batch is halved where batches are forced; those of a fix are cut to the cap.
\* plan_review_fix_batches would put code first, but nobody hands it the segments: the order stays.
Split ==
  /\ pc = "split"
  /\ LET halved == IF inv.force /\ Len(batches) = 1 THEN Forced(batches[1]) ELSE batches
     IN  batches' = IF inv.cmd = "fix" THEN FlattenSeq([i \in DOMAIN halved |-> Capped(halved[i])]) ELSE halved
  /\ pc' = "send"
  /\ UNCHANGED <<inv, evidence, selected, sent>>

\* The first batches are sent, as many as the limits and the governor allow.
Send ==
  /\ pc = "send"
  /\ \E calls \in 1..MaxCalls : sent' = Least(calls, Len(batches))
  /\ pc' = "done"
  /\ UNCHANGED <<inv, evidence, selected, batches>>

Next == Retrieve \/ Filter \/ Budget \/ Answer \/ Plan \/ Split \/ Send

Spec == Init /\ [][Next]_vars

------------------------------------------------------------------------------
(* Properties                                                              *)

\* Every variable keeps its type; no stage is left with no evidence, and no call with no path.
TypeOK ==
  /\ pc \in {"retrieve", "filter", "budget", "engine", "plan", "split", "send", "done"}
  /\ inv \in Invocations
  /\ evidence # <<>> /\ \A i \in DOMAIN evidence : evidence[i] \in Chunk
  /\ \A i \in DOMAIN selected : selected[i] \in Chunk
  /\ \A i \in DOMAIN batches : batches[i].paths # <<>> /\ batches[i].tokens \in Nat \ {0}
  /\ sent \in 0..Least(MaxCalls, Len(batches))

Holders(h) == {i \in DOMAIN batches : h \in ToSet(batches[i].hunks)}

\* Every patch the model is to see is in exactly one batch, in two only where a batch of
\* one patch is halved, and no batch has another; no call of a fix has more than its cap.
\* As planned, a batch has more tokens than a call may only if it is one file with one patch.
PatchesAreCovered ==
  /\ pc \in {"split", "send"} =>
       /\ \A i \in DOMAIN batches : ToSet(batches[i].hunks) \subseteq ToSet(Hunks)
       /\ \A h \in ToSet(Hunks) :
            Cardinality(Holders(h)) \in IF pc = "send" /\ inv.force /\ Len(Hunks) = 1 THEN 1..2 ELSE {1}
  /\ pc = "split" =>
       \A i \in DOMAIN batches :
         batches[i].tokens > Room => (batches[i].units = 1 /\ Len(batches[i].hunks) <= 1)
  /\ (pc = "send" /\ inv.cmd = "fix") => \A i \in DOMAIN batches : Len(batches[i].hunks) <= HunkCap

\* What GitHub lists where nothing special happens: every file has a patch, in the order of
\* the names, and no patch happens to name a path.
Plain(v) ==
  LET fs == v.listing
  IN  /\ \A i, j \in DOMAIN fs : i < j => fs[i].path < fs[j].path
      /\ \A i \in DOMAIN fs : fs[i].hunks # <<>> /\ fs[i].names = 0

\* In a review of such a pull request each patch is sent with the name of its file, although
\* patches are dealt by their place and the filter has taken files away from the evidence.
PatchWithItsFile ==
  (pc \in {"send", "done"} /\ inv.cmd = "review" /\ ~inv.force /\ Plain(inv))
    => \A i \in DOMAIN batches : \A h \in ToSet(batches[i].hunks) : h.of \in ToSet(batches[i].paths)

Primary(s) == {c \in ToSet(s) : BucketOf(inv.cmd, c.path, Changed) = "primary"}

\* Changed code is the last to go: the budget leaves a changed file of code out only once
\* its limit is used up and code has its part of it, but for less than one file, however
\* the parts, floors and limits are rounded; and the filter, which runs after it in a
\* review, takes no such file away, unless it is never shown.
CodeIsKeptFirst ==
  /\ pc = "filter" /\ inv.cmd \notin Lookup =>
       LET limit == Limit(inv.cmd, Len(inv.listing))
       IN  Primary(FromListing(inv.listing)) \subseteq ToSet(evidence)
             \/ (Len(evidence) = limit
                   /\ 100 * (Cardinality(Primary(evidence)) + 1) > limit * Part[inv.cmd].primary)
  /\ pc = "plan" => \A c \in Primary(selected) : c.path \in Private \/ c \in ToSet(evidence)
==============================================================================
