------------------------------ MODULE RunCaches ------------------------------
(***************************************************************************)
(* What workflow runs leave for one another.  A run restores two things    *)
(* from the Actions cache: the index package, and the directory            *)
(* artifacts/.repobrain_cache with the retrieval snapshots, the findings   *)
(* of the last review of each pull request and the embeddings.  It works   *)
(* on its own copy and saves it in the end.  Runs overlap, are cancelled   *)
(* or lost, and the author pushes in between.                              *)
(***************************************************************************)
EXTENDS Naturals, Sequences, FiniteSets

CONSTANTS
  N,           \* bound: runs
  Plans,       \* which run does what, and which branches are pushed to
  PRs,         \* pull requests
  Files,
  Text,        \* Text[c][f]: file f at commit c, by its number of lines, its words and its white space
  Changed,     \* Changed[c]: the names of the files a head c changes
  Rows,        \* Rows[c]: the findings of a review of head c
  None,
  MaxCommit,   \* bound: commits
  MaxAtOnce,   \* bound: runs at the same time
  MaxEntries,  \* _MAX_ENTRIES: retrieval snapshots kept
  MaxStates,   \* _MAX_STATES: reviews kept
  MaxFaults    \* bound: cancelled, failed or lost runs, expired caches, heads moved back

\* Runs are numbered in the order in which they start.
Runs     == 1..N
Commits  == 1..MaxCommit
Branches == PRs \cup {"main"}
Commands == {"ask", "review", "fix", "index"}
Tasks    == [cmd : Commands, pr : PRs \cup {None}, dry : BOOLEAN]
Texts    == UNION {{Text[c][f] : f \in Files} : c \in Commits}
RowSets  == {Rows[c] : c \in Commits} \cup {{}}

ASSUME RunCachesAssumption ==
  /\ Plans \subseteq [task : [Runs -> Tasks], pushed : SUBSET Branches]
  /\ Text \in [Commits -> [Files -> Texts]]
  /\ \A t \in Texts : t = [lines |-> t.lines, words |-> t.words, space |-> t.space]
  /\ Changed \in [Commits -> SUBSET Files]
  /\ \A c \in Commits : Rows[c] \subseteq [id : STRING, class : STRING]
  /\ MaxCommit \in Nat \ {0} /\ MaxEntries \in Nat \ {0} /\ MaxStates \in Nat \ {0}
  /\ MaxFaults \in Nat /\ N \in Nat /\ MaxAtOnce \in Nat
  /\ "main" \notin PRs /\ None \notin Texts /\ None \notin PRs /\ None \notin Nat
  \* Outside a pull request review and fix end before they touch a cache.
  /\ \A x \in Plans, r \in Runs : x.task[r].cmd \in {"review", "fix"} => x.task[r].pr # None

VARIABLES
  plan,      \* what each run does, and what the author works on
  tip,       \* the head of every branch
  newest,    \* the last commit
  indexes,   \* cached index packages, in the order in which they were saved
  saved,     \* the directory saved last
  pc,
  dir,       \* the run's own copy of the directory
  disk,      \* its index package: artifacts/index-package.zip
  sha,       \* GITHUB_SHA: main when the run was triggered
  tree,      \* the commit it has checked out
  exact,     \* the index was restored by its own key
  head,      \* the head it has read
  diff,      \* the head whose files it has read
  hit,       \* what its retrieval took from a snapshot
  told,      \* the comparison with the review before
  due,       \* history: the review that its readers expect it to be compared with
  ledger,    \* history: the last saved review of each pull request
  wiped,     \* history: reviews in files that were cut short, and in an expired cache
  clock,     \* history: reviews and snapshots stored so far
  faults, overlapped, moved   \* history: what went wrong

task    == plan.task
github  == <<tip, newest>>
caches  == <<indexes, saved>>
copy    == <<dir, disk>>
start   == <<sha, tree, exact>>
read    == <<head, diff>>
outcome == <<hit, told>>
history == <<due, ledger, wiped, faults, overlapped, moved>>
vars == <<plan, github, caches, pc, copy, start, read, outcome, clock, history>>

NoDir  == [exists |-> FALSE, snaps |-> {}, states |-> {}, vectors |-> {}]
NoRead == 0

Vectors  == [Files -> Texts \cup {None}]
Packages == [commit : Commits, vec : Vectors]
Keys     == [pr : PRs \cup {None}, head : Commits \cup {NoRead}, changed : SUBSET Files, cmd : Commands,
             topk : {"fast", "deep"}]
Found    == [index : Commits \cup {NoRead}, diff : Commits \cup {NoRead}, empty : BOOLEAN]
States   == [pr : PRs, head : Commits, rows : RowSets, at : Nat]
Deltas   == [known : BOOLEAN, new : SUBSET STRING, resolved : SUBSET STRING,
             reclassified : SUBSET STRING]

ASSUME NoneIsNothing == None \notin Packages /\ None \notin Found /\ None \notin Deltas

DirType(d) ==
  /\ d.exists \in BOOLEAN
  /\ \A s \in d.snaps : s.key \in Keys /\ s.found \in Found /\ s.at \in Nat
  /\ d.states \subseteq States
  /\ \A v \in d.vectors : v.text \in Texts
  /\ Cardinality(d.snaps) <= MaxEntries /\ Cardinality(d.states) <= MaxStates

\* Type correctness, with the limits of the two JSON files.
TypeOK ==
  /\ plan \in Plans
  /\ tip \in [Branches -> Commits] /\ newest \in Commits
  /\ \A i \in DOMAIN indexes : indexes[i].key \in Commits /\ indexes[i].package \in Packages
  /\ DirType(saved)
  /\ pc \in [Runs -> {"idle", "load", "head", "diff", "delta", "fast", "deep", "save", "post", "over"}]
  /\ \A r \in Runs : DirType(dir[r])
  /\ disk \in [Runs -> Packages \cup {None}]
  /\ sha \in [Runs -> Commits] /\ tree \in [Runs -> Commits] /\ exact \in [Runs -> BOOLEAN]
  /\ head \in [Runs -> Commits \cup {NoRead}] /\ diff \in [Runs -> Commits \cup {NoRead}]
  /\ hit \in [Runs -> Found \cup {None}]
  /\ \A r \in Runs : told[r] = None \/ told[r].known \in BOOLEAN
  /\ due \in [Runs -> States \cup {None}]
  /\ ledger \subseteq States /\ wiped \subseteq States
  /\ clock \in Nat /\ faults \in 0..MaxFaults

Init ==
  /\ plan \in Plans
  /\ tip = [b \in Branches |-> 1] /\ newest = 1
  /\ indexes = <<>> /\ saved = NoDir
  /\ pc = [r \in Runs |-> "idle"]
  /\ dir = [r \in Runs |-> NoDir] /\ disk = [r \in Runs |-> None]
  /\ sha = [r \in Runs |-> 1] /\ tree = [r \in Runs |-> 1] /\ exact = [r \in Runs |-> FALSE]
  /\ head = [r \in Runs |-> NoRead] /\ diff = [r \in Runs |-> NoRead]
  /\ hit = [r \in Runs |-> None] /\ told = [r \in Runs |-> None]
  /\ due = [r \in Runs |-> None] /\ ledger = {} /\ wiped = {}
  /\ clock = 0 /\ faults = 0 /\ overlapped = FALSE /\ moved = FALSE

-----------------------------------------------------------------------------
(* The author                                                              *)

Push(b) ==
  /\ b \in plan.pushed /\ newest < MaxCommit
  /\ newest' = newest + 1 /\ tip' = [tip EXCEPT ![b] = newest + 1]
  /\ UNCHANGED <<plan, caches, pc, copy, start, read, outcome, clock, history>>

Fault == faults < MaxFaults /\ faults' = faults + 1

\* A force push to a commit the pull request had before.
MoveBack(p) ==
  /\ p \in plan.pushed /\ Fault
  /\ \E c \in Commits : c < tip[p] /\ tip' = [tip EXCEPT ![p] = c]
  /\ moved' = TRUE
  /\ UNCHANGED <<plan, newest, caches, pc, copy, start, read, outcome, clock, due, ledger, wiped, overlapped>>

-----------------------------------------------------------------------------
(* Starting: checkout and the two restores                                 *)

Active(r) == pc[r] \notin {"idle", "over"}
PR(r)     == task[r].pr
Goto(r, place) == pc' = [pc EXCEPT ![r] = place]

\* actions/cache: the package of this key, or the one saved last.
Restored(key) ==
  LET exactly == {i \in DOMAIN indexes : indexes[i].key = key}
  IN  IF exactly # {} THEN indexes[CHOOSE i \in exactly : TRUE].package
      ELSE IF indexes # <<>> THEN indexes[Len(indexes)].package ELSE None

HasKey(key) == \E i \in DOMAIN indexes : indexes[i].key = key

\* A command on an open pull request of the repository itself works on its
\* head, while the cache is keyed by main.  repobrain_index_cache.yml restores nothing
\* before it builds.
Start(r) ==
  /\ pc[r] = "idle" /\ \A q \in 1..(r - 1) : pc[q] # "idle"
  /\ Cardinality({q \in Runs : Active(q)}) < MaxAtOnce
  /\ sha' = [sha EXCEPT ![r] = tip["main"]]
  /\ tree' = [tree EXCEPT ![r] = IF PR(r) = None THEN tip["main"] ELSE tip[PR(r)]]
  /\ IF task[r].cmd = "index" THEN UNCHANGED <<copy, exact>>
     ELSE /\ disk' = [disk EXCEPT ![r] = Restored(tip["main"])]
          /\ exact' = [exact EXCEPT ![r] = HasKey(tip["main"])]
          /\ dir' = [dir EXCEPT ![r] = saved]
  /\ overlapped' = (overlapped \/ \E q \in Runs : Active(q))
  /\ Goto(r, IF task[r].cmd \in {"ask", "index"} THEN "load"
             ELSE IF ~task[r].dry THEN "head"
             ELSE IF task[r].cmd = "review" THEN "delta" ELSE "save")
  /\ UNCHANGED <<plan, github, caches, read, outcome, clock, due, ledger, wiped, faults, moved>>

-----------------------------------------------------------------------------
(* The index package (index_store.py, embeddings_cache.py)                 *)

\* Mistake: the hash leaves out the text.
ChunkHash_NoText(f, t) == <<f, "v1">>

\* _chunk_hash: place and words; the white space is left out, though what is
\* embedded has it.
ChunkHash(f, t) == <<f, t.lines, t.words>>

\* EmbeddingsCache.get_many
Cached(r, c) == {f \in Files : \E v \in dir[r].vectors : v.hash = ChunkHash(f, Text[c][f])}
VectorOf(r, c, f) == (CHOOSE v \in dir[r].vectors : v.hash = ChunkHash(f, Text[c][f])).text

\* build_index: vectors come from the cache, and from the provider until a
\* budget, an error or a short answer ends the batches; what was answered is
\* cached.  Embeddings may be off altogether.
Build(r, c) ==
  \E on \in BOOLEAN, called \in SUBSET Files :
    LET cached == IF on THEN Cached(r, c) ELSE {}
    IN  /\ called \subseteq (IF on THEN Files \ cached ELSE {})
        /\ disk' = [disk EXCEPT ![r] =
             [commit |-> c,
              vec |-> [f \in Files |-> IF f \in cached THEN VectorOf(r, c, f)
                                       ELSE IF f \in called THEN Text[c][f] ELSE None]]]
        /\ dir' = IF ~on THEN dir
                  ELSE [dir EXCEPT ![r].exists = TRUE,
                          ![r].vectors = @ \cup {[hash |-> ChunkHash(f, Text[c][f]), text |-> Text[c][f]]
                                                 : f \in called}]

\* load_or_build_chunks_with_meta: any package there is will do.
LoadIndex(r) ==
  /\ pc[r] = "load" /\ task[r].cmd = "ask"
  /\ IF disk[r] # None THEN UNCHANGED copy ELSE Build(r, tree[r])
  /\ Goto(r, IF PR(r) = None THEN "fast" ELSE "diff")
  /\ UNCHANGED <<plan, github, caches, start, read, outcome, clock, history>>

\* run_index.py builds, and the step "Save index to cache" first restores.
BuildIndex(r) ==
  /\ pc[r] = "load" /\ task[r].cmd = "index"
  /\ IF Restored(sha[r]) # None
       THEN disk' = [disk EXCEPT ![r] = Restored(sha[r])] /\ UNCHANGED dir
       ELSE Build(r, tree[r])
  /\ exact' = [exact EXCEPT ![r] = HasKey(sha[r])]
  /\ Goto(r, "post")
  /\ UNCHANGED <<plan, github, caches, sha, tree, read, outcome, clock, history>>

-----------------------------------------------------------------------------
(* Reading the pull request                                                *)

\* review and fix read the head and then the files, ask the files and then the
\* head (_build_review_markdown, _enrich_github_context_with_pr_metadata).
ReadHead(r) ==
  /\ pc[r] = "head"
  /\ \/ head' = [head EXCEPT ![r] = tip[PR(r)]]
        /\ Goto(r, IF task[r].cmd = "ask" THEN "fast" ELSE "diff")
     \/ task[r].cmd # "ask" /\ Goto(r, "save") /\ UNCHANGED head     \* the pull request is closed
  /\ UNCHANGED <<plan, github, caches, copy, start, diff, outcome, clock, history>>

ReadDiff(r) ==
  /\ pc[r] = "diff"
  /\ diff' = [diff EXCEPT ![r] = tip[PR(r)]]
  /\ Goto(r, CASE task[r].cmd = "ask" -> "head" [] task[r].cmd = "fix" -> "fast" [] OTHER -> "delta")
  /\ UNCHANGED <<plan, github, caches, copy, start, head, outcome, clock, history>>

-----------------------------------------------------------------------------
(* The findings of the last review (review_delta_memory.py)                *)

\* Mistake: one entry more is kept.
Newest_More(S, n) == {x \in S : Cardinality({y \in S : y.at > x.at}) <= n}

\* Both files keep the entries stored last.
Newest(S, n) == {x \in S : Cardinality({y \in S : y.at > x.at}) < n}

Ids(rows) == {x.id : x \in rows}

\* compute_review_delta_and_store: a finding persists when it is neither new
\* nor of another class; text findings have no class to compare.
Delta(prior, rows) ==
  LET before == IF prior = None THEN {} ELSE prior.rows
  IN  [known |-> prior # None,
       new |-> Ids(rows) \ Ids(before),
       resolved |-> Ids(before) \ Ids(rows),
       reclassified |-> {x.id : x \in {y \in rows : y.class # "not_tracked" /\
                           \E z \in before : z.id = y.id /\ z.class \notin {y.class, "not_tracked"}}}]

\* The state of a pull request, if one is kept.
Prior(states, p) ==
  IF \E s \in states : s.pr = p THEN CHOOSE s \in states : s.pr = p ELSE None

Replacing(states, s) == Newest({t \in states : t.pr # s.pr} \cup {s}, MaxStates)

\* Mistake: a dry run stores its review as well.
Persists_Dry(r) == TRUE

\* persist_state
Persists(r) == ~task[r].dry

\* A dry run reviews an empty list of files.
Findings(r) == IF task[r].dry THEN {} ELSE Rows[diff[r]]

\* A dry run stores nothing.
Compare(r) ==
  LET state == [pr |-> PR(r), head |-> head[r], rows |-> Findings(r), at |-> clock + 1]
  IN  /\ pc[r] = "delta"
      /\ told' = [told EXCEPT ![r] = Delta(Prior(dir[r].states, PR(r)), Findings(r))]
      /\ due'  = [due EXCEPT ![r] = Prior(ledger, PR(r))]
      /\ IF ~Persists(r) THEN UNCHANGED <<dir, clock>>
         ELSE /\ dir' = [dir EXCEPT ![r].exists = TRUE, ![r].states = Replacing(@, state)]
              /\ clock' = clock + 1
      /\ Goto(r, IF task[r].dry THEN "save" ELSE "fast")
      /\ UNCHANGED <<plan, github, caches, disk, start, read, hit, ledger, wiped, faults, overlapped, moved>>

-----------------------------------------------------------------------------
(* Retrieval snapshots (snapshot_cache.py, incremental_index.py)           *)

\* Mistake: the head is not part of the key.
CacheKey_PrOnly(r, topk) ==
  [pr |-> PR(r), head |-> NoRead, changed |-> Changed[diff[r]], cmd |-> task[r].cmd, topk |-> topk]

\* _build_cache_key
CacheKey(r, topk) ==
  [pr |-> PR(r), head |-> head[r], changed |-> Changed[diff[r]], cmd |-> task[r].cmd, topk |-> topk]

\* An issue has no changed files, and so no key.
HasCacheKey(r) == PR(r) # None /\ Changed[diff[r]] # {}

\* load_retrieval_snapshot: a snapshot without candidates is a miss.
Snapshots(r, topk) == {s \in dir[r].snaps : s.key = CacheKey(r, topk) /\ ~s.found.empty}

\* What is found comes from the diff in review and fix, else from the index,
\* and may be nothing there.
Finds(r) ==
  IF task[r].cmd = "ask" THEN [index : {disk[r].commit}, diff : {NoRead}, empty : BOOLEAN]
  ELSE {[index |-> NoRead, diff |-> diff[r], empty |-> FALSE]}

StoreSnapshot(r, topk, found) ==
  LET key == CacheKey(r, topk)
      s   == [key |-> key, found |-> found, at |-> clock + 1]
  IN  /\ dir' = [dir EXCEPT ![r].exists = TRUE,
                            ![r].snaps = Newest({t \in @ : t.key # key} \cup {s}, MaxEntries)]
      /\ clock' = clock + 1

\* _retrieve_candidates_with_runtime; ask may go deep once.
Retrieve(r, topk) ==
  /\ pc[r] = topk
  /\ IF ~HasCacheKey(r) THEN hit' = [hit EXCEPT ![r] = None] /\ UNCHANGED <<dir, clock>>
     ELSE IF Snapshots(r, topk) # {}
       THEN hit' = [hit EXCEPT ![r] = (CHOOSE s \in Snapshots(r, topk) : TRUE).found]
            /\ UNCHANGED <<dir, clock>>
     ELSE hit' = [hit EXCEPT ![r] = None] /\ \E found \in Finds(r) : StoreSnapshot(r, topk, found)
  /\ \/ Goto(r, "save")
     \/ topk = "fast" /\ task[r].cmd = "ask" /\ Goto(r, "deep")
  /\ UNCHANGED <<plan, github, caches, disk, start, read, told, history>>

-----------------------------------------------------------------------------
(* Ending                                                                  *)

\* The workspace goes with the runner.
Leave(r) ==
  /\ Goto(r, "over")
  /\ dir' = [dir EXCEPT ![r] = NoDir] /\ disk' = [disk EXCEPT ![r] = None]
  /\ sha' = [sha EXCEPT ![r] = 1] /\ tree' = [tree EXCEPT ![r] = 1]
  /\ exact' = [exact EXCEPT ![r] = FALSE]
  /\ head' = [head EXCEPT ![r] = NoRead] /\ diff' = [diff EXCEPT ![r] = NoRead]
  /\ hit' = [hit EXCEPT ![r] = None] /\ told' = [told EXCEPT ![r] = None]
  /\ due' = [due EXCEPT ![r] = None]

\* The review of this run becomes the last one.
Remembers(r) ==
  ledger' = IF told[r] # None /\ ~task[r].dry
              THEN Replacing(ledger, Prior(dir[r].states, PR(r))) ELSE ledger

\* The directory is saved by every run that still has a runner, under a key of
\* its own; a directory without files is not.
SaveDir(r) ==
  /\ saved' = IF task[r].cmd # "index" /\ dir[r].exists THEN dir[r] ELSE saved
  /\ Remembers(r)

Save(r) ==
  /\ pc[r] = "save"
  /\ SaveDir(r)
  /\ Goto(r, "post")
  /\ UNCHANGED <<plan, github, indexes, copy, start, read, outcome, clock, due, wiped, faults, overlapped, moved>>

\* The post step of actions/cache: only of a job that succeeded, only if the
\* key was not restored, and nothing is overwritten.
PostIndex(r) ==
  /\ pc[r] = "post"
  /\ indexes' = IF exact[r] \/ disk[r] = None \/ HasKey(sha[r]) THEN indexes
                ELSE Append(indexes, [key |-> sha[r], package |-> disk[r]])
  /\ Leave(r)
  /\ UNCHANGED <<plan, github, saved, clock, ledger, wiped, faults, overlapped, moved>>

\* A call fails or the job is cancelled; steps with if: always() still run, the
\* post step of the index does not.
Stops(r) ==
  /\ Fault /\ Active(r) /\ pc[r] # "post"
  /\ SaveDir(r)
  /\ Leave(r)
  /\ UNCHANGED <<plan, github, indexes, clock, wiped, overlapped, moved>>

\* The job is killed while it writes one of the files: the file is cut short,
\* and read as an empty one from then on.
Torn(r) ==
  /\ Fault
  /\ \/ /\ pc[r] = "delta" /\ ~task[r].dry
        /\ saved' = [dir[r] EXCEPT !.exists = TRUE, !.states = {}]
        /\ wiped' = wiped \cup dir[r].states
        /\ UNCHANGED ledger
     \/ /\ pc[r] \in {"fast", "deep"} /\ HasCacheKey(r)
        /\ saved' = [dir[r] EXCEPT !.exists = TRUE, !.snaps = {}]
        /\ Remembers(r)
        /\ UNCHANGED wiped
  /\ Leave(r)
  /\ UNCHANGED <<plan, github, indexes, clock, overlapped, moved>>

\* The runner is gone: nothing is saved.
Lost(r) ==
  /\ Fault /\ Active(r) /\ Leave(r)
  /\ UNCHANGED <<plan, github, caches, clock, ledger, wiped, overlapped, moved>>

\* GitHub drops what nobody used for a week.
Expire ==
  /\ Fault /\ \A r \in Runs : ~Active(r)
  /\ saved' = NoDir /\ indexes' = <<>> /\ wiped' = wiped \cup saved.states
  /\ UNCHANGED <<plan, github, pc, copy, start, read, outcome, clock, due, ledger, overlapped, moved>>

Step(r) ==
  \/ Start(r) \/ LoadIndex(r) \/ BuildIndex(r) \/ ReadHead(r) \/ ReadDiff(r) \/ Compare(r)
  \/ \E topk \in {"fast", "deep"} : Retrieve(r, topk)
  \/ Save(r) \/ PostIndex(r) \/ Stops(r) \/ Torn(r) \/ Lost(r)

Next ==
  \/ \E r \in Runs : Step(r)
  \/ \E b \in Branches : Push(b)
  \/ \E p \in PRs : MoveBack(p)
  \/ Expire

Spec == Init /\ [][Next]_vars

-----------------------------------------------------------------------------
(* Properties                                                              *)

\* While runs do not overlap, a review is compared with the last review of its
\* pull request that was saved: neither other pull requests and commands nor
\* dry runs, cancelled and lost runs come between them.  The exception is a
\* review in a file that was cut short, or in an expired cache: the next one is
\* told as the first of its pull request then, and never compared with one that
\* is older still.
ComparedWithTheLast ==
  ~overlapped => \A r \in Runs : told[r] # None =>
    \/ told[r] = Delta(due[r], Findings(r))
    \/ due[r] \in wiped /\ told[r] = Delta(None, Findings(r))

\* What review or fix takes from a snapshot was found in the diff of the very
\* head that the run is about, though every run reads head and files one after
\* the other and other runs store in between: who restores a snapshot reads the
\* head later.
HitIsOfItsHead ==
  ~moved => \A r \in Runs : hit[r] # None /\ task[r].cmd # "ask" => hit[r].diff = head[r]

\* Whatever package a run has, every vector in it was computed from a text with
\* the words and the lines that the package holds for the file: not from an
\* older version, unless that differs in white space alone (_chunk_hash leaves
\* it out, so that a file that is only indented anew keeps its old vector).
SameWords(t, u) == t.words = u.words /\ t.lines = u.lines
VectorsFit(package) ==
  \A f \in Files : package.vec[f] = None \/ SameWords(package.vec[f], Text[package.commit][f])
VectorsFitTheIndex ==
  /\ \A i \in DOMAIN indexes : VectorsFit(indexes[i].package)
  /\ \A r \in Runs : disk[r] # None => VectorsFit(disk[r])
=============================================================================
