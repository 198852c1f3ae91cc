-------------------------- MODULE RunCachesProofs --------------------------
(***************************************************************************)
(* What holds of the caches for any number of runs, plans, pull requests,  *)
(* files and faults: the types with the limits of the files, that vectors  *)
(* fit the package they are in, that a snapshot belongs to the head it is  *)
(* used for, and that a review is compared with the last one that was      *)
(* saved.                                                                  *)
(***************************************************************************)
EXTENDS RunCaches, FiniteSetTheorems, WellFoundedInduction, TLAPS

-----------------------------------------------------------------------------
(* The invariants                                                          *)

Cmd(r) == task[r].cmd
Dry(r) == task[r].dry

Fitting == {k \in Packages : VectorsFit(k)}
Snaps   == [key : Keys, found : Found, at : Nat]
Vecs    == {[hash |-> ChunkHash(f, t), text |-> t] : f \in Files, t \in Texts}
Dirs    == [exists : BOOLEAN, snaps : SUBSET Snaps, states : SUBSET States, vectors : SUBSET Vecs]

\* Entries of a file are finite in number and were stored one after the other.
Stamped(S, c) ==
  /\ IsFiniteSet(S)
  /\ \A x \in S : x.at \in Nat /\ x.at <= c
  /\ \A x, y \in S : x.at = y.at => x = y

DirInv(d, c) ==
  /\ d \in Dirs
  /\ Stamped(d.snaps, c) /\ Cardinality(d.snaps) <= MaxEntries
  /\ Stamped(d.states, c) /\ Cardinality(d.states) <= MaxStates

Places == {"idle", "load", "head", "diff", "delta", "fast", "deep", "save", "post", "over"}

TypeInv ==
  /\ plan \in Plans
  /\ tip \in [Branches -> Commits] /\ newest \in Commits /\ \A b \in Branches : tip[b] <= newest
  /\ indexes \in Seq([key : Commits, package : Fitting])
  /\ DirInv(saved, clock)
  /\ pc \in [Runs -> Places]
  /\ dir \in [Runs -> Dirs] /\ \A r \in Runs : DirInv(dir[r], clock)
  /\ disk \in [Runs -> Fitting \cup {None}]
  /\ sha \in [Runs -> Commits] /\ tree \in [Runs -> Commits] /\ exact \in [Runs -> BOOLEAN]
  /\ head \in [Runs -> Commits \cup {NoRead}] /\ diff \in [Runs -> Commits \cup {NoRead}]
  /\ hit \in [Runs -> Found \cup {None}]
  /\ told \in [Runs -> Deltas \cup {None}] /\ due \in [Runs -> States \cup {None}]
  /\ ledger \subseteq States
  /\ wiped \subseteq States /\ \A x \in wiped : x.at <= clock
  /\ clock \in Nat /\ faults \in 0..MaxFaults
  /\ overlapped \in BOOLEAN /\ moved \in BOOLEAN

\* What a run has read, restored and compared when it is at a place.
CanBe(r) ==
  /\ pc[r] = "load" => Cmd(r) \in {"ask", "index"}
  /\ pc[r] \in {"head", "diff"} => PR(r) # None /\ Cmd(r) # "index"
  /\ pc[r] = "diff" /\ Cmd(r) # "ask" => head[r] # NoRead
  /\ pc[r] = "head" /\ Cmd(r) = "ask" => diff[r] # NoRead
  /\ pc[r] = "delta" => Cmd(r) = "review" /\ (~Dry(r) => head[r] # NoRead /\ diff[r] # NoRead)
  /\ pc[r] \in {"fast", "deep"} =>
       Cmd(r) # "index" /\ (PR(r) # None => head[r] # NoRead /\ diff[r] # NoRead)
  /\ pc[r] = "deep" => Cmd(r) = "ask"
  /\ pc[r] \in {"head", "diff", "fast", "deep"} /\ Cmd(r) = "ask" => disk[r] # None
  /\ pc[r] \in {"idle", "load", "head", "diff", "delta", "over"} => told[r] = None /\ hit[r] = None
  /\ told[r] # None =>
       Cmd(r) = "review" /\ (~Dry(r) => dir[r].exists /\ \E s \in dir[r].states : s.pr = PR(r))

Where == \A r \in Runs : CanBe(r)

Inv == TypeInv /\ Where

\* The head in the key of a snapshot was read before the files it was found in.
Ordered(s) ==
  s.key.cmd # "ask" =>
    s.key.pr \in PRs /\ s.key.head <= s.found.diff /\ s.found.diff <= tip[s.key.pr]

\* A run reads its head after it restored its snapshots.
ReadsLater(r) ==
  /\ pc[r] = "idle" => head[r] = NoRead
  /\ pc[r] \in {"diff", "delta", "fast"} /\ head[r] # NoRead =>
       /\ head[r] <= tip[PR(r)]
       /\ \A s \in dir[r].snaps : s.key.cmd # "ask" /\ s.key.pr = PR(r) => s.found.diff <= head[r]
  /\ pc[r] \in {"delta", "fast"} /\ head[r] # NoRead => head[r] <= diff[r] /\ diff[r] <= tip[PR(r)]
  /\ hit[r] # None => hit[r].diff = head[r]

HeadInv ==
  ~moved =>
    /\ \A s \in saved.snaps : Ordered(s)
    /\ \A r \in Runs : \A s \in dir[r].snaps : Ordered(s)
    /\ \A r \in Runs : Cmd(r) # "ask" => ReadsLater(r)

\* The review that run r leaves takes the place of the one before.
Remembered(r) ==
  IF told[r] # None /\ ~Dry(r) THEN Replacing(ledger, Prior(dir[r].states, PR(r))) ELSE ledger

\* Reviews that were stored after all that were lost.
AfterLoss(S) == \A x \in wiped, y \in S : x.at < y.at

OnePerPR(S) == \A x, y \in S : x.pr = y.pr => x = y

\* The reviews that a run has are those that were saved and not lost since,
\* with its own one in the place of the one before.
Carries(r) ==
  Active(r) /\ Cmd(r) # "index" /\ pc[r] # "post" =>
    dir[r].states = Remembered(r) \ wiped /\ AfterLoss(dir[r].states)

\* What run r tells is right, or the review it is about is lost.
ToldRight(r) ==
  told[r] # None =>
    \/ told[r] = Delta(due[r], Findings(r))
    \/ due[r] \in wiped /\ told[r] = Delta(None, Findings(r))

LastInv ==
  ~overlapped =>
    /\ \A q, r \in Runs : Active(q) /\ Active(r) => q = r
    /\ saved.states = ledger \ wiped /\ AfterLoss(saved.states) /\ OnePerPR(ledger)
    /\ \A r \in Runs : ToldRight(r) /\ Carries(r)

-----------------------------------------------------------------------------
(* The entries stored last                                                 *)

LEMMA Least ==
  ASSUME NEW T \in SUBSET Nat, T # {} PROVE \E m \in T : \A n \in T : m <= n
  <1>. DEFINE R == OpToRel(<, Nat)
  <1>1. IsWellFoundedOn(R, Nat)
    BY NatLessThanWellFounded, Zenon
  <1>2. \A x, y \in Nat : y < x => <<y, x>> \in R
    BY Zenon DEF OpToRel
  <1>. HIDE DEF R
  <1>3. PICK m \in T : \A n \in T : ~(<<n, m>> \in R)
    BY <1>1, WFMin
  <1>4. \A n \in T : ~(n < m)
    BY <1>2, <1>3
  <1>. QED BY <1>4

\* No more than n entries are among the last n: the oldest of them has the
\* others after it.
LEMMA NewestCount ==
  ASSUME NEW S, NEW c \in Nat, Stamped(S, c), NEW n \in Nat
  PROVE  /\ Newest(S, n) \subseteq S /\ IsFiniteSet(Newest(S, n))
         /\ Cardinality(Newest(S, n)) <= n
  <1>. DEFINE T == Newest(S, n)
  <1>1. T \subseteq S /\ IsFiniteSet(S)
    BY DEF Newest, Stamped
  <1>2. IsFiniteSet(T) /\ Cardinality(T) \in Nat
    BY <1>1, FS_Subset, FS_CardinalityType
  <1>3. CASE T = {}
    BY <1>1, <1>2, <1>3, FS_EmptySet
  <1>4. CASE T # {}
    <2>1. {x.at : x \in T} \in SUBSET Nat /\ {x.at : x \in T} # {}
      BY <1>1, <1>4 DEF Stamped
    <2>2. PICK a \in {x.at : x \in T} : \A b \in {x.at : x \in T} : a <= b
      BY <2>1, Least
    <2>3. PICK m \in T : m.at = a
      BY <2>2
    <2>. DEFINE U == {y \in S : y.at > m.at}
    <2>4. Cardinality(U) < n
      BY <2>3 DEF Newest
    <2>5. T \ {m} \subseteq U
      <3>1. SUFFICES ASSUME NEW x \in T, x # m PROVE x.at > m.at
        BY <1>1
      <3>2. m.at <= x.at /\ m.at # x.at
        BY <1>1, <2>2, <2>3, <3>1 DEF Stamped
      <3>3. m.at \in Nat /\ x.at \in Nat
        BY <1>1 DEF Stamped
      <3>. QED BY <3>2, <3>3
    <2>6. IsFiniteSet(U) /\ Cardinality(U) \in Nat
      BY <1>1, FS_Subset, FS_CardinalityType
    <2>. HIDE DEF T, U
    <2>7. Cardinality(T \ {m}) = Cardinality(T) - 1 /\ Cardinality(T \ {m}) <= Cardinality(U)
      BY <1>2, <2>3, <2>5, <2>6, FS_RemoveElement, FS_Subset
    <2>8. Cardinality(T) <= n
      BY <1>2, <2>4, <2>6, <2>7
    <2>. QED BY <1>1, <1>2, <2>8 DEF T
  <1>. QED BY <1>3, <1>4

\* A new entry is among those that are kept, which are numbered as before.
LEMMA Stored ==
  ASSUME NEW S, NEW c \in Nat, Stamped(S, c), NEW T, T \subseteq S, NEW s, s.at = c + 1,
         NEW n \in Nat \ {0}
  PROVE  /\ Stamped(Newest(T \cup {s}, n), c + 1)
         /\ Cardinality(Newest(T \cup {s}, n)) <= n
         /\ s \in Newest(T \cup {s}, n) /\ Newest(T \cup {s}, n) \subseteq T \cup {s}
  <1>. DEFINE W == T \cup {s}
  <1>1. Stamped(W, c + 1)
    <2>1. IsFiniteSet(T) /\ IsFiniteSet(W)
      BY FS_Subset, FS_AddElement DEF Stamped
    <2>2. \A x \in W : x.at \in Nat /\ x.at <= c + 1
      BY DEF Stamped
    <2>3. \A x, y \in W : x.at = y.at => x = y
      BY DEF Stamped
    <2>. QED BY <2>1, <2>2, <2>3 DEF Stamped
  <1>2. s \in Newest(W, n)
    <2>1. {y \in W : y.at > s.at} = {}
      BY <1>1 DEF Stamped
    <2>. QED BY <2>1, FS_EmptySet DEF Newest
  <1>. HIDE DEF W
  <1>3. /\ Newest(W, n) \subseteq W /\ IsFiniteSet(Newest(W, n))
        /\ Cardinality(Newest(W, n)) <= n
    BY <1>1, NewestCount
  <1>4. Stamped(Newest(W, n), c + 1)
    BY <1>1, <1>3 DEF Stamped
  <1>. QED BY <1>2, <1>3, <1>4 DEF W

\* Time does not disturb a directory.
LEMMA Later ==
  ASSUME NEW c \in Nat, NEW d, DirInv(d, c) PROVE DirInv(d, c + 1)
  BY DEF DirInv, Stamped

\* What was lost stays older than the clock.
LEMMA LostBefore ==
  ASSUME TypeInv, UNCHANGED wiped, clock' \in {clock, clock + 1}
  PROVE  wiped' \subseteq States /\ \A x \in wiped' : x.at <= clock'
  <1>1. clock \in Nat /\ wiped \subseteq States /\ \A x \in wiped : x.at \in Nat /\ x.at <= clock
    BY DEF TypeInv, States
  <1>. QED BY <1>1

LEMMA NoDirInv == ASSUME NEW c PROVE DirInv(NoDir, c) /\ NoDir \in Dirs
  BY FS_EmptySet, RunCachesAssumption DEF DirInv, NoDir, Dirs, Stamped, RunCachesAssumption

LEMMA ReplacingFacts ==
  ASSUME NEW S, NEW s PROVE Replacing(S, s) \subseteq S \cup {s}
  BY DEF Replacing, Newest

-----------------------------------------------------------------------------
(* Runs, packages and directories                                          *)

\* A step of run r leaves the other runs alone.
Only(r) ==
  /\ UNCHANGED plan
  /\ \A x \in Runs : x # r =>
       /\ pc'[x] = pc[x] /\ dir'[x] = dir[x] /\ disk'[x] = disk[x]
       /\ head'[x] = head[x] /\ diff'[x] = diff[x] /\ hit'[x] = hit[x]
       /\ told'[x] = told[x] /\ due'[x] = due[x]

LEMMA Constants ==
  /\ MaxCommit \in Nat /\ Commits \subseteq Nat /\ 1 \in Commits
  /\ NoRead \in Nat \ Commits
  /\ \A c \in Commits : Rows[c] \in RowSets /\ Changed[c] \in SUBSET Files
  /\ \A c \in Commits, f \in Files : Text[c][f] \in Texts
  /\ {} \in RowSets /\ \A rows \in RowSets : Ids(rows) \subseteq STRING
  /\ MaxEntries \in Nat \ {0} /\ MaxStates \in Nat \ {0} /\ MaxFaults \in Nat
  /\ None \notin PRs
  <1>1. /\ MaxCommit \in Nat \ {0} /\ MaxEntries \in Nat \ {0} /\ MaxStates \in Nat \ {0} /\ MaxFaults \in Nat
        /\ None \notin PRs
    BY RunCachesAssumption DEF RunCachesAssumption
  <1>2. Commits \subseteq Nat /\ 1 \in Commits /\ NoRead \in Nat \ Commits
    BY <1>1 DEF Commits, NoRead
  <1>3. \A c \in Commits : Rows[c] \subseteq [id : STRING, class : STRING]
    BY RunCachesAssumption DEF RunCachesAssumption
  <1>4. {} \in RowSets /\ \A c \in Commits : Rows[c] \in RowSets
    BY DEF RowSets
  <1>5. \A rows \in RowSets : Ids(rows) \subseteq STRING
    BY <1>3 DEF RowSets, Ids
  <1>6. /\ \A c \in Commits : Changed[c] \in SUBSET Files
        /\ \A c \in Commits, f \in Files : Text[c][f] \in Texts
    BY RunCachesAssumption DEF RunCachesAssumption
  <1>. QED BY <1>1, <1>2, <1>3, <1>4, <1>5, <1>6

LEMMA TaskFacts ==
  ASSUME plan \in Plans, NEW r \in Runs
  PROVE  /\ Cmd(r) \in Commands /\ Dry(r) \in BOOLEAN /\ PR(r) \in PRs \cup {None}
         /\ Cmd(r) \in {"review", "fix"} => PR(r) \in PRs
         /\ PR(r) \in PRs => PR(r) \in Branches
         /\ "main" \in Branches
  <1>1. plan \in [task : [Runs -> Tasks], pushed : SUBSET Branches]
    BY RunCachesAssumption DEF RunCachesAssumption
  <1>2. task[r] \in Tasks
    BY <1>1 DEF task
  <1>3. Cmd(r) \in {"review", "fix"} => PR(r) # None
    BY RunCachesAssumption DEF RunCachesAssumption, Cmd, PR, task
  <1>. QED BY <1>2, <1>3 DEF Cmd, Dry, PR, Tasks, Branches

LEMMA SameTask ==
  ASSUME UNCHANGED plan, NEW r
  PROVE  Cmd(r)' = Cmd(r) /\ Dry(r)' = Dry(r) /\ PR(r)' = PR(r)
  BY DEF Cmd, Dry, PR, task

\* What a restore finds fits.
LEMMA RestoredFacts ==
  ASSUME TypeInv, NEW key PROVE Restored(key) \in Fitting \cup {None}
  <1>. DEFINE E == [key : Commits, package : Fitting]
  <1>a. indexes \in Seq(E)
    BY DEF TypeInv
  <1>1. \A i \in DOMAIN indexes : indexes[i].package \in Fitting
    <2>. HIDE DEF E
    <2>1. \A i \in DOMAIN indexes : indexes[i] \in E
      BY <1>a
    <2>. QED BY <2>1 DEF E
  <1>. HIDE DEF E
  <1>2. indexes # <<>> => Len(indexes) \in DOMAIN indexes
    BY <1>a
  <1>. DEFINE exactly == {i \in DOMAIN indexes : indexes[i].key = key}
  <1>3. exactly # {} => (CHOOSE i \in exactly : TRUE) \in DOMAIN indexes
    OBVIOUS
  <1>. QED BY <1>1, <1>2, <1>3 DEF Restored

\* A vector that is cached under the hash of a text was computed from it.
LEMMA VectorFacts ==
  ASSUME TypeInv, NEW r \in Runs, NEW c, NEW f \in Cached(r, c)
  PROVE  VectorOf(r, c, f) \in Texts /\ SameWords(VectorOf(r, c, f), Text[c][f])
  <1>1. dir[r].vectors \subseteq Vecs
    BY DEF TypeInv, Dirs
  <1>2. PICK v \in dir[r].vectors : v.hash = ChunkHash(f, Text[c][f])
    BY DEF Cached
  <1>. DEFINE w == CHOOSE x \in dir[r].vectors : x.hash = ChunkHash(f, Text[c][f])
  <1>3. w \in dir[r].vectors /\ w.hash = ChunkHash(f, Text[c][f])
    BY <1>2
  <1>. HIDE DEF w
  <1>4. PICK g \in Files, t \in Texts : w = [hash |-> ChunkHash(g, t), text |-> t]
    BY <1>1, <1>3 DEF Vecs
  <1>5. w.text \in Texts /\ SameWords(w.text, Text[c][f])
    BY <1>3, <1>4 DEF ChunkHash, SameWords
  <1>. QED BY <1>5 DEF VectorOf, w

\* Only vectors change in a directory when an index is built.
LEMMA BuildFacts ==
  ASSUME TypeInv, NEW r \in Runs, NEW c \in Commits, Build(r, c)
  PROVE  /\ disk' = [disk EXCEPT ![r] = disk'[r]] /\ disk'[r] \in Fitting
         /\ dir' = [dir EXCEPT ![r] = dir'[r]] /\ DirInv(dir'[r], clock)
         /\ dir'[r].states = dir[r].states /\ dir'[r].snaps = dir[r].snaps
         /\ dir[r].exists => dir'[r].exists
  <1>1. PICK on \in BOOLEAN, called \in SUBSET Files :
          LET cached == IF on THEN Cached(r, c) ELSE {}
          IN  /\ disk' = [disk EXCEPT ![r] =
                   [commit |-> c,
                    vec |-> [f \in Files |-> IF f \in cached THEN VectorOf(r, c, f)
                                             ELSE IF f \in called THEN Text[c][f] ELSE None]]]
              /\ dir' = IF ~on THEN dir
                        ELSE [dir EXCEPT ![r].exists = TRUE,
                                ![r].vectors = @ \cup {[hash |-> ChunkHash(f, Text[c][f]), text |-> Text[c][f]]
                                                       : f \in called}]
    BY DEF Build
  <1>. DEFINE cached == IF on THEN Cached(r, c) ELSE {}
              vec == [f \in Files |-> IF f \in cached THEN VectorOf(r, c, f)
                                      ELSE IF f \in called THEN Text[c][f] ELSE None]
              k == [commit |-> c, vec |-> vec]
              V == {[hash |-> ChunkHash(f, Text[c][f]), text |-> Text[c][f]] : f \in called}
  <1>2. \A f \in Files : vec[f] = None \/ (vec[f] \in Texts /\ SameWords(vec[f], Text[c][f]))
    BY VectorFacts, Constants DEF SameWords
  <1>3. disk' = [disk EXCEPT ![r] = k]
    BY <1>1
  <1>4. k \in Fitting
    <2>1. vec \in Vectors
      BY <1>2, Constants DEF Vectors
    <2>. HIDE DEF vec
    <2>. QED BY <1>2, <2>1 DEF Fitting, Packages, VectorsFit
  <1>5. disk'[r] = k
    <2>. HIDE DEF k
    <2>. QED BY <1>3 DEF TypeInv
  <1>6. V \subseteq Vecs
    BY Constants DEF Vecs
  <1>7. dir' = IF ~on THEN dir ELSE [dir EXCEPT ![r] = [dir[r] EXCEPT !.exists = TRUE, !.vectors = @ \cup V]]
    BY <1>1 DEF TypeInv, Dirs
  <1>. HIDE DEF k, V
  <1>8. DirInv(dir[r], clock)
    BY DEF TypeInv
  <1>9. CASE ~on
    BY <1>3, <1>4, <1>5, <1>7, <1>8, <1>9 DEF TypeInv
  <1>10. CASE on
    <2>1. dir' = [dir EXCEPT ![r] = [dir[r] EXCEPT !.exists = TRUE, !.vectors = @ \cup V]]
      BY <1>7, <1>10
    <2>2. dir'[r] = [dir[r] EXCEPT !.exists = TRUE, !.vectors = @ \cup V]
      BY <2>1 DEF TypeInv
    <2>3. /\ DirInv(dir'[r], clock) /\ dir'[r].states = dir[r].states
          /\ dir'[r].snaps = dir[r].snaps /\ dir'[r].exists = TRUE
      BY <1>6, <1>8, <2>2 DEF DirInv, Dirs
    <2>. QED BY <1>3, <1>4, <1>5, <2>1, <2>2, <2>3
  <1>. QED BY <1>9, <1>10

-----------------------------------------------------------------------------
(* Types and places: the steps of a run                                    *)

LEMMA InvFrom ==
  ASSUME Inv, NEW r \in Runs, Only(r), TypeInv', CanBe(r)' PROVE Inv'
  <1>1. ASSUME NEW x \in Runs, x # r PROVE CanBe(x)'
    <2>1. /\ pc'[x] = pc[x] /\ dir'[x] = dir[x] /\ disk'[x] = disk[x]
          /\ head'[x] = head[x] /\ diff'[x] = diff[x] /\ hit'[x] = hit[x] /\ told'[x] = told[x]
          /\ Cmd(x)' = Cmd(x) /\ Dry(x)' = Dry(x) /\ PR(x)' = PR(x)
      BY <1>1, SameTask DEF Only
    <2>. QED BY <1>1, <2>1 DEF CanBe, Inv, Where
  <1>. QED BY <1>1 DEF Inv, Where

\* The workspace of a run that is over is empty.
LEMMA LeaveFacts ==
  ASSUME TypeInv, NEW r \in Runs, Leave(r), UNCHANGED plan
  PROVE  /\ pc' \in [Runs -> Places]
         /\ dir' \in [Runs -> Dirs] /\ \A x \in Runs : DirInv(dir'[x], clock)
         /\ disk' \in [Runs -> Fitting \cup {None}]
         /\ sha' \in [Runs -> Commits] /\ tree' \in [Runs -> Commits] /\ exact' \in [Runs -> BOOLEAN]
         /\ head' \in [Runs -> Commits \cup {NoRead}] /\ diff' \in [Runs -> Commits \cup {NoRead}]
         /\ hit' \in [Runs -> Found \cup {None}]
         /\ told' \in [Runs -> Deltas \cup {None}] /\ due' \in [Runs -> States \cup {None}]
         /\ Only(r) /\ CanBe(r)'
         /\ pc'[r] = "over" /\ dir'[r] = NoDir /\ told'[r] = None /\ due'[r] = None /\ hit'[r] = None
  <1>1. NoDir \in Dirs /\ DirInv(NoDir, clock)
    BY NoDirInv
  <1>2. dir' \in [Runs -> Dirs] /\ dir'[r] = NoDir /\ \A x \in Runs : x # r => dir'[x] = dir[x]
    BY <1>1 DEF Leave, TypeInv
  <1>3. \A x \in Runs : DirInv(dir'[x], clock)
    BY <1>1, <1>2 DEF TypeInv
  <1>4. /\ pc' \in [Runs -> Places] /\ pc'[r] = "over"
        /\ \A x \in Runs : x # r => pc'[x] = pc[x]
    BY DEF Leave, Goto, TypeInv, Places
  <1>5. /\ disk' \in [Runs -> Fitting \cup {None}] /\ hit' \in [Runs -> Found \cup {None}] /\ hit'[r] = None
        /\ \A x \in Runs : x # r => disk'[x] = disk[x] /\ hit'[x] = hit[x]
    BY DEF Leave, TypeInv
  <1>6. /\ sha' \in [Runs -> Commits] /\ tree' \in [Runs -> Commits] /\ exact' \in [Runs -> BOOLEAN]
    BY Constants DEF Leave, TypeInv
  <1>7. /\ head' \in [Runs -> Commits \cup {NoRead}] /\ diff' \in [Runs -> Commits \cup {NoRead}]
        /\ \A x \in Runs : x # r => head'[x] = head[x] /\ diff'[x] = diff[x]
    BY DEF Leave, TypeInv
  <1>8. /\ told' \in [Runs -> Deltas \cup {None}] /\ due' \in [Runs -> States \cup {None}]
        /\ told'[r] = None /\ due'[r] = None
        /\ \A x \in Runs : x # r => told'[x] = told[x] /\ due'[x] = due[x]
    BY DEF Leave, TypeInv
  <1>9. Only(r)
    BY <1>2, <1>4, <1>5, <1>7, <1>8 DEF Only
  <1>10. CanBe(r)'
    BY <1>4, <1>5, <1>8 DEF CanBe
  <1>. QED BY <1>2, <1>3, <1>4, <1>5, <1>6, <1>7, <1>8, <1>9, <1>10

\* What a run keeps when it changes neither its directory nor its package.
LEMMA SameCopy ==
  ASSUME TypeInv, UNCHANGED <<dir, disk, clock>>
  PROVE  /\ dir' \in [Runs -> Dirs] /\ \A x \in Runs : DirInv(dir'[x], clock')
         /\ disk' \in [Runs -> Fitting \cup {None}]
  BY DEF TypeInv

LEMMA StartStep ==
  ASSUME Inv, NEW r \in Runs, Start(r) PROVE TypeInv' /\ CanBe(r)' /\ Only(r)
  <1> USE DEF github, caches, copy, start, read, outcome, history
  <1>1. TypeInv /\ CanBe(r) /\ plan \in Plans
    BY DEF Inv, Where, TypeInv
  <1>2. Cmd(r) \in Commands /\ (Cmd(r) \in {"review", "fix"} => PR(r) \in PRs) /\ None \notin PRs
    BY <1>1, TaskFacts, Constants
  <1>3. /\ UNCHANGED <<plan, tip, newest, indexes, saved, head, diff, hit, told, clock, due, ledger, wiped, faults, moved>>
        /\ pc[r] = "idle"
    BY DEF Start
  <1>4. sha' \in [Runs -> Commits] /\ tree' \in [Runs -> Commits]
    <2>1. tip["main"] \in Commits /\ (PR(r) # None => tip[PR(r)] \in Commits)
      BY <1>1, TaskFacts DEF TypeInv
    <2>. QED BY <1>1, <2>1 DEF Start, TypeInv
  <1>5. /\ dir' \in [Runs -> Dirs] /\ \A x \in Runs : DirInv(dir'[x], clock')
        /\ disk' \in [Runs -> Fitting \cup {None}] /\ exact' \in [Runs -> BOOLEAN]
        /\ \A x \in Runs : x # r => dir'[x] = dir[x] /\ disk'[x] = disk[x]
    <2>1. CASE Cmd(r) = "index"
      BY <1>1, <1>3, <2>1 DEF Start, Cmd, TypeInv
    <2>2. CASE Cmd(r) # "index"
      <3>1. /\ disk' = [disk EXCEPT ![r] = Restored(tip["main"])] /\ dir' = [dir EXCEPT ![r] = saved]
            /\ exact' = [exact EXCEPT ![r] = HasKey(tip["main"])]
        BY <2>2 DEF Start, Cmd
      <3>2. Restored(tip["main"]) \in Fitting \cup {None}
        BY <1>1, RestoredFacts
      <3>3. saved \in Dirs /\ DirInv(saved, clock)
        BY <1>1 DEF TypeInv, DirInv
      <3>4. exact' \in [Runs -> BOOLEAN]
        BY <1>1, <3>1 DEF TypeInv, HasKey
      <3>5. disk' \in [Runs -> Fitting \cup {None}] /\ \A x \in Runs : x # r => disk'[x] = disk[x]
        BY <1>1, <3>1, <3>2 DEF TypeInv
      <3>6. dir' \in [Runs -> Dirs] /\ \A x \in Runs : dir'[x] = IF x = r THEN saved ELSE dir[x]
        BY <1>1, <3>1, <3>3 DEF TypeInv
      <3>7. \A x \in Runs : DirInv(dir'[x], clock')
        BY <1>1, <1>3, <3>3, <3>6 DEF TypeInv
      <3>. QED BY <3>4, <3>5, <3>6, <3>7
    <2>. QED BY <2>1, <2>2
  <1>. DEFINE place == IF Cmd(r) \in {"ask", "index"} THEN "load"
                       ELSE IF ~Dry(r) THEN "head"
                       ELSE IF Cmd(r) = "review" THEN "delta" ELSE "save"
  <1>6. pc' = [pc EXCEPT ![r] = place]
    BY DEF Start, Goto, Cmd, Dry
  <1>7. pc' \in [Runs -> Places] /\ pc'[r] = place /\ \A x \in Runs : x # r => pc'[x] = pc[x]
    <2>1. place \in Places
      BY DEF Places
    <2>. HIDE DEF place
    <2>. QED BY <1>1, <1>6, <2>1 DEF TypeInv
  <1>8. overlapped' \in BOOLEAN
    BY <1>1 DEF Start, TypeInv
  <1>9. Only(r)
    BY <1>3, <1>5, <1>7 DEF Only
  <1>10. CanBe(r)'
    <2>1. Cmd(r)' = Cmd(r) /\ Dry(r)' = Dry(r) /\ PR(r)' = PR(r)
      BY <1>3, SameTask
    <2>2. told'[r] = None /\ hit'[r] = None
      BY <1>1, <1>3 DEF CanBe
    <2>. QED BY <1>2, <1>7, <2>1, <2>2 DEF CanBe, Commands
  <1>11. TypeInv'
    BY <1>1, <1>3, <1>4, <1>5, <1>7, <1>8 DEF TypeInv
  <1>. QED BY <1>9, <1>10, <1>11

LEMMA LoadStep ==
  ASSUME Inv, NEW r \in Runs, LoadIndex(r) PROVE TypeInv' /\ CanBe(r)' /\ Only(r)
  <1> USE DEF github, caches, copy, start, read, outcome, history
  <1>1. TypeInv /\ CanBe(r) /\ plan \in Plans
    BY DEF Inv, Where, TypeInv
  <1>2. /\ UNCHANGED <<plan, tip, newest, indexes, saved, sha, tree, exact, head, diff, hit, told, clock,
                       due, ledger, wiped, faults, overlapped, moved>>
        /\ pc[r] = "load" /\ Cmd(r) = "ask"
    BY DEF LoadIndex, Cmd
  <1>3. /\ dir' \in [Runs -> Dirs] /\ \A x \in Runs : DirInv(dir'[x], clock')
        /\ disk' \in [Runs -> Fitting \cup {None}] /\ disk'[r] # None
        /\ \A x \in Runs : x # r => dir'[x] = dir[x] /\ disk'[x] = disk[x]
    <2>1. CASE disk[r] # None
      BY <1>1, <1>2, <2>1, SameCopy DEF LoadIndex
    <2>2. CASE disk[r] = None
      <3>1. Build(r, tree[r]) /\ tree[r] \in Commits
        BY <1>1, <2>2 DEF LoadIndex, TypeInv
      <3>2. /\ disk' = [disk EXCEPT ![r] = disk'[r]] /\ disk'[r] \in Fitting
            /\ dir' = [dir EXCEPT ![r] = dir'[r]] /\ DirInv(dir'[r], clock)
        BY <1>1, <3>1, BuildFacts
      <3>3. disk'[r] # None
        BY <3>2, NoneIsNothing DEF Fitting
      <3>4. dir'[r] \in Dirs
        BY <3>2 DEF DirInv
      <3>. QED BY <1>1, <1>2, <3>2, <3>3, <3>4 DEF TypeInv
    <2>. QED BY <2>1, <2>2
  <1>4. /\ pc' \in [Runs -> Places] /\ pc'[r] = (IF PR(r) = None THEN "fast" ELSE "diff")
        /\ \A x \in Runs : x # r => pc'[x] = pc[x]
    BY <1>1 DEF LoadIndex, Goto, TypeInv, Places
  <1>5. Only(r)
    BY <1>2, <1>3, <1>4 DEF Only
  <1>6. CanBe(r)'
    <2>1. Cmd(r)' = Cmd(r) /\ Dry(r)' = Dry(r) /\ PR(r)' = PR(r)
      BY <1>2, SameTask
    <2>. QED BY <1>1, <1>2, <1>3, <1>4, <2>1 DEF CanBe
  <1>7. TypeInv'
    BY <1>1, <1>2, <1>3, <1>4 DEF TypeInv
  <1>. QED BY <1>5, <1>6, <1>7

LEMMA BuildStep ==
  ASSUME Inv, NEW r \in Runs, BuildIndex(r) PROVE TypeInv' /\ CanBe(r)' /\ Only(r)
  <1> USE DEF github, caches, copy, start, read, outcome, history
  <1>1. TypeInv /\ CanBe(r) /\ plan \in Plans
    BY DEF Inv, Where, TypeInv
  <1>2. /\ UNCHANGED <<plan, tip, newest, indexes, saved, sha, tree, head, diff, hit, told, clock,
                       due, ledger, wiped, faults, overlapped, moved>>
        /\ pc[r] = "load" /\ Cmd(r) = "index"
    BY DEF BuildIndex, Cmd
  <1>3. /\ dir' \in [Runs -> Dirs] /\ \A x \in Runs : DirInv(dir'[x], clock')
        /\ disk' \in [Runs -> Fitting \cup {None}]
        /\ \A x \in Runs : x # r => dir'[x] = dir[x] /\ disk'[x] = disk[x]
    <2>1. CASE Restored(sha[r]) # None
      <3>1. Restored(sha[r]) \in Fitting \cup {None}
        BY <1>1, RestoredFacts
      <3>. QED BY <1>1, <1>2, <2>1, <3>1 DEF BuildIndex, TypeInv
    <2>2. CASE Restored(sha[r]) = None
      <3>1. Build(r, tree[r]) /\ tree[r] \in Commits
        BY <1>1, <2>2 DEF BuildIndex, TypeInv
      <3>2. /\ disk' = [disk EXCEPT ![r] = disk'[r]] /\ disk'[r] \in Fitting
            /\ dir' = [dir EXCEPT ![r] = dir'[r]] /\ DirInv(dir'[r], clock)
        BY <1>1, <3>1, BuildFacts
      <3>3. dir'[r] \in Dirs
        BY <3>2 DEF DirInv
      <3>. QED BY <1>1, <1>2, <3>2, <3>3 DEF TypeInv
    <2>. QED BY <2>1, <2>2
  <1>4. /\ pc' \in [Runs -> Places] /\ pc'[r] = "post"
        /\ \A x \in Runs : x # r => pc'[x] = pc[x]
    BY <1>1 DEF BuildIndex, Goto, TypeInv, Places
  <1>5. exact' \in [Runs -> BOOLEAN]
    BY <1>1 DEF BuildIndex, HasKey, TypeInv
  <1>6. Only(r)
    BY <1>2, <1>3, <1>4 DEF Only
  <1>7. CanBe(r)'
    <2>1. told'[r] = None
      BY <1>1, <1>2 DEF CanBe
    <2>. QED BY <1>4, <2>1 DEF CanBe
  <1>8. TypeInv'
    BY <1>1, <1>2, <1>3, <1>4, <1>5 DEF TypeInv
  <1>. QED BY <1>6, <1>7, <1>8

LEMMA ReadHeadStep ==
  ASSUME Inv, NEW r \in Runs, ReadHead(r) PROVE TypeInv' /\ CanBe(r)' /\ Only(r)
  <1> USE DEF github, caches, copy, start, outcome, history
  <1>1. TypeInv /\ CanBe(r) /\ plan \in Plans
    BY DEF Inv, Where, TypeInv
  <1>2. /\ UNCHANGED <<plan, tip, newest, indexes, saved, dir, disk, sha, tree, exact, diff, hit, told, clock,
                       due, ledger, wiped, faults, overlapped, moved>>
        /\ pc[r] = "head" /\ PR(r) # None /\ PR(r) \in Branches
    BY <1>1, TaskFacts DEF ReadHead, CanBe
  <1>3. \/ /\ head' = [head EXCEPT ![r] = tip[PR(r)]]
           /\ pc' = [pc EXCEPT ![r] = IF Cmd(r) = "ask" THEN "fast" ELSE "diff"]
        \/ UNCHANGED head /\ pc' = [pc EXCEPT ![r] = "save"]
    BY DEF ReadHead, Goto, Cmd
  <1>4. tip[PR(r)] \in Commits /\ tip[PR(r)] # NoRead
    BY <1>1, <1>2, Constants DEF TypeInv
  <1>5. /\ head' \in [Runs -> Commits \cup {NoRead}] /\ pc' \in [Runs -> Places]
        /\ \A x \in Runs : x # r => head'[x] = head[x] /\ pc'[x] = pc[x]
        /\ \/ pc'[r] = (IF Cmd(r) = "ask" THEN "fast" ELSE "diff") /\ head'[r] = tip[PR(r)]
           \/ pc'[r] = "save"
    BY <1>1, <1>3, <1>4 DEF TypeInv, Places
  <1>6. Only(r)
    BY <1>2, <1>5 DEF Only
  <1>7. CanBe(r)'
    <2>1. Cmd(r)' = Cmd(r) /\ Dry(r)' = Dry(r) /\ PR(r)' = PR(r)
      BY <1>2, SameTask
    <2>. QED BY <1>1, <1>2, <1>4, <1>5, <2>1 DEF CanBe
  <1>8. TypeInv'
    BY <1>1, <1>2, <1>5 DEF TypeInv
  <1>. QED BY <1>6, <1>7, <1>8

LEMMA ReadDiffStep ==
  ASSUME Inv, NEW r \in Runs, ReadDiff(r) PROVE TypeInv' /\ CanBe(r)' /\ Only(r)
  <1> USE DEF github, caches, copy, start, outcome, history
  <1>1. TypeInv /\ CanBe(r) /\ plan \in Plans
    BY DEF Inv, Where, TypeInv
  <1>2. /\ UNCHANGED <<plan, tip, newest, indexes, saved, dir, disk, sha, tree, exact, head, hit, told, clock,
                       due, ledger, wiped, faults, overlapped, moved>>
        /\ pc[r] = "diff" /\ PR(r) # None /\ PR(r) \in Branches
    BY <1>1, TaskFacts DEF ReadDiff, CanBe
  <1>. DEFINE place == IF Cmd(r) = "ask" THEN "head" ELSE IF Cmd(r) = "fix" THEN "fast" ELSE "delta"
  <1>3. diff' = [diff EXCEPT ![r] = tip[PR(r)]] /\ pc' = [pc EXCEPT ![r] = place]
    BY DEF ReadDiff, Goto, Cmd
  <1>4. tip[PR(r)] \in Commits /\ tip[PR(r)] # NoRead /\ Cmd(r) \in Commands /\ place \in Places
    BY <1>1, <1>2, TaskFacts, Constants DEF TypeInv, Places
  <1>5. /\ diff' \in [Runs -> Commits \cup {NoRead}] /\ pc' \in [Runs -> Places]
        /\ \A x \in Runs : x # r => diff'[x] = diff[x] /\ pc'[x] = pc[x]
        /\ pc'[r] = place /\ diff'[r] = tip[PR(r)]
    <2>. HIDE DEF place
    <2>. QED BY <1>1, <1>3, <1>4 DEF TypeInv
  <1>6. Only(r)
    BY <1>2, <1>5 DEF Only
  <1>7. CanBe(r)'
    <2>1. Cmd(r)' = Cmd(r) /\ Dry(r)' = Dry(r) /\ PR(r)' = PR(r)
      BY <1>2, SameTask
    <2>. QED BY <1>1, <1>2, <1>4, <1>5, <2>1 DEF CanBe, Commands
  <1>8. TypeInv'
    BY <1>1, <1>2, <1>5 DEF TypeInv
  <1>. QED BY <1>6, <1>7, <1>8

-----------------------------------------------------------------------------
(* Reviews and snapshots                                                   *)

LEMMA PriorFacts ==
  ASSUME NEW S, NEW p
  PROVE  /\ (\E s \in S : s.pr = p) => Prior(S, p) \in S /\ Prior(S, p).pr = p
         /\ ~(\E s \in S : s.pr = p) => Prior(S, p) = None
  BY DEF Prior

LEMMA DeltaType ==
  ASSUME NEW S \in SUBSET States, NEW p, NEW rows \in RowSets
  PROVE  Delta(Prior(S, p), rows) \in Deltas
  <1>. DEFINE prior == Prior(S, p)
              before == IF prior = None THEN {} ELSE prior.rows
              other == {y \in rows : y.class # "not_tracked" /\
                          \E z \in before : z.id = y.id /\ z.class \notin {y.class, "not_tracked"}}
  <1>1. before \in RowSets
    BY PriorFacts, Constants DEF States
  <1>2. Ids(before) \subseteq STRING /\ Ids(rows) \subseteq STRING
    BY <1>1, Constants
  <1>3. {x.id : x \in other} \subseteq STRING
    BY <1>2 DEF Ids
  <1>4. Delta(prior, rows) = [known |-> prior # None, new |-> Ids(rows) \ Ids(before),
                              resolved |-> Ids(before) \ Ids(rows), reclassified |-> {x.id : x \in other}]
    BY DEF Delta
  <1>. HIDE DEF before, other, prior
  <1>5. (prior # None) \in BOOLEAN
    OBVIOUS
  <1>6. Delta(prior, rows) \in Deltas
    BY <1>2, <1>3, <1>4, <1>5 DEF Deltas
  <1>. QED BY <1>6 DEF prior

\* The new review takes the place of the one before.
LEMMA ReplacingStored ==
  ASSUME NEW S, NEW c \in Nat, Stamped(S, c), NEW s, s.at = c + 1
  PROVE  /\ Stamped(Replacing(S, s), c + 1) /\ Cardinality(Replacing(S, s)) <= MaxStates
         /\ s \in Replacing(S, s) /\ Prior(Replacing(S, s), s.pr) = s
  <1>. DEFINE T == {t \in S : t.pr # s.pr}
  <1>1. T \subseteq S /\ Replacing(S, s) = Newest(T \cup {s}, MaxStates)
    BY DEF Replacing
  <1>2. \A t \in T \cup {s} : t.pr = s.pr => t = s
    OBVIOUS
  <1>. HIDE DEF T
  <1>3. /\ Stamped(Replacing(S, s), c + 1) /\ Cardinality(Replacing(S, s)) <= MaxStates
        /\ s \in Replacing(S, s) /\ Replacing(S, s) \subseteq T \cup {s}
    <2>1. MaxStates \in Nat \ {0}
      BY Constants
    <2>2. /\ Stamped(Newest(T \cup {s}, MaxStates), c + 1)
          /\ Cardinality(Newest(T \cup {s}, MaxStates)) <= MaxStates
          /\ s \in Newest(T \cup {s}, MaxStates) /\ Newest(T \cup {s}, MaxStates) \subseteq T \cup {s}
      BY <1>1, <2>1, Stored
    <2>. QED BY <1>1, <2>2
  <1>4. Prior(Replacing(S, s), s.pr) = s
    BY <1>2, <1>3, PriorFacts
  <1>. QED BY <1>3, <1>4

\* A review that is stored.
LEMMA StoreReview ==
  ASSUME TypeInv, NEW d, DirInv(d, clock), NEW s \in States, s.at = clock + 1
  PROVE  /\ Stamped(Replacing(d.states, s), clock + 1) /\ Cardinality(Replacing(d.states, s)) <= MaxStates
         /\ s \in Replacing(d.states, s) /\ Prior(Replacing(d.states, s), s.pr) = s
         /\ Replacing(d.states, s) \in SUBSET States
  <1>1. clock \in Nat /\ Stamped(d.states, clock) /\ d \in Dirs
    BY DEF TypeInv, DirInv
  <1>2. /\ Stamped(Replacing(d.states, s), clock + 1) /\ Cardinality(Replacing(d.states, s)) <= MaxStates
        /\ s \in Replacing(d.states, s) /\ Prior(Replacing(d.states, s), s.pr) = s
    BY <1>1, ReplacingStored
  <1>3. Replacing(d.states, s) \in SUBSET States
    BY <1>1, ReplacingFacts DEF Dirs
  <1>. QED BY <1>2, <1>3

LEMMA CompareStep ==
  ASSUME Inv, NEW r \in Runs, Compare(r)
  PROVE  /\ TypeInv' /\ CanBe(r)' /\ Only(r)
         /\ told'[r] = Delta(Prior(dir[r].states, PR(r)), Findings(r))
         /\ due'[r] = Prior(ledger, PR(r))
         /\ Dry(r) => UNCHANGED dir
         /\ ~Dry(r) => /\ dir'[r].snaps = dir[r].snaps
                       /\ dir'[r].states = Replacing(dir[r].states, Prior(dir'[r].states, PR(r)))
                       /\ Prior(dir'[r].states, PR(r)).at = clock + 1
                       /\ Prior(dir'[r].states, PR(r)).pr = PR(r)
         /\ pc'[r] = (IF Dry(r) THEN "save" ELSE "fast")
  <1> USE DEF github, caches, copy, start, read, history
  <1>. DEFINE rows == Findings(r)
              state == [pr |-> PR(r), head |-> head[r], rows |-> rows, at |-> clock + 1]
  <1>1. TypeInv /\ CanBe(r) /\ plan \in Plans
    BY DEF Inv, Where, TypeInv
  <1>2. /\ UNCHANGED <<plan, tip, newest, indexes, saved, disk, sha, tree, exact, head, diff, hit, ledger, wiped,
                       faults, overlapped, moved>>
        /\ pc[r] = "delta" /\ Cmd(r) = "review" /\ hit[r] = None
        /\ told' = [told EXCEPT ![r] = Delta(Prior(dir[r].states, PR(r)), rows)]
        /\ due' = [due EXCEPT ![r] = Prior(ledger, PR(r))]
        /\ pc' = [pc EXCEPT ![r] = IF Dry(r) THEN "save" ELSE "fast"]
    BY <1>1 DEF Compare, CanBe, Goto, Dry
  <1>3. IF Dry(r) THEN UNCHANGED <<dir, clock>>
        ELSE /\ dir' = [dir EXCEPT ![r] = [dir[r] EXCEPT !.exists = TRUE, !.states = Replacing(dir[r].states, state)]]
             /\ clock' = clock + 1
    BY <1>1 DEF Compare, Persists, Dry, TypeInv, Dirs
  <1>4. rows \in RowSets /\ PR(r) \in PRs
    BY <1>1, <1>2, TaskFacts, Constants DEF CanBe, TypeInv, Findings, Dry
  <1>. HIDE DEF rows
  <1>5. ~Dry(r) => state \in States /\ state.at = clock + 1 /\ state.pr = PR(r)
    BY <1>1, <1>2, <1>4 DEF States, CanBe, TypeInv
  <1>. HIDE DEF state
  <1>6. /\ told' \in [Runs -> Deltas \cup {None}] /\ due' \in [Runs -> States \cup {None}]
        /\ told'[r] = Delta(Prior(dir[r].states, PR(r)), rows)
        /\ due'[r] = Prior(ledger, PR(r))
        /\ \A x \in Runs : x # r => told'[x] = told[x] /\ due'[x] = due[x]
    <2>1. dir[r].states \in SUBSET States /\ ledger \in SUBSET States
      BY <1>1 DEF TypeInv, Dirs
    <2>2. Delta(Prior(dir[r].states, PR(r)), rows) \in Deltas
      BY <1>4, <2>1, DeltaType
    <2>3. Prior(ledger, PR(r)) \in States \cup {None}
      BY <2>1, PriorFacts DEF Prior
    <2>. QED BY <1>1, <1>2, <2>2, <2>3 DEF TypeInv
  <1>7. /\ pc' \in [Runs -> Places] /\ pc'[r] = (IF Dry(r) THEN "save" ELSE "fast")
        /\ \A x \in Runs : x # r => pc'[x] = pc[x]
    BY <1>1, <1>2 DEF TypeInv, Places
  <1>8. /\ dir' \in [Runs -> Dirs] /\ \A x \in Runs : DirInv(dir'[x], clock')
        /\ clock' \in Nat /\ DirInv(saved, clock')
        /\ \A x \in Runs : x # r => dir'[x] = dir[x]
        /\ ~Dry(r) => /\ dir'[r].exists /\ dir'[r].snaps = dir[r].snaps
                      /\ dir'[r].states = Replacing(dir[r].states, Prior(dir'[r].states, PR(r)))
                      /\ Prior(dir'[r].states, PR(r)).at = clock + 1
                      /\ Prior(dir'[r].states, PR(r)).pr = PR(r)
                      /\ \E s \in dir'[r].states : s.pr = PR(r)
    <2>1. CASE Dry(r)
      BY <1>1, <1>3, <2>1 DEF TypeInv
    <2>2. CASE ~Dry(r)
      <3>. DEFINE e == [dir[r] EXCEPT !.exists = TRUE, !.states = Replacing(dir[r].states, state)]
      <3>1. dir' = [dir EXCEPT ![r] = e] /\ clock' = clock + 1
        BY <1>3, <2>2
      <3>2. DirInv(dir[r], clock)
        BY <1>1 DEF TypeInv
      <3>3. /\ DirInv(e, clock + 1) /\ e.exists = TRUE /\ e.snaps = dir[r].snaps
            /\ e.states = Replacing(dir[r].states, state)
            /\ state \in e.states /\ Prior(e.states, state.pr) = state
        <4>. DEFINE R == Replacing(dir[r].states, state)
        <4>1. /\ Stamped(R, clock + 1) /\ Cardinality(R) <= MaxStates
              /\ state \in R /\ Prior(R, state.pr) = state /\ R \in SUBSET States
          BY <1>1, <1>5, <2>2, <3>2, StoreReview
        <4>2. DirInv(dir[r], clock + 1)
          BY <1>1, <3>2, Later DEF TypeInv
        <4>3. e \in Dirs /\ e.exists = TRUE /\ e.snaps = dir[r].snaps /\ e.states = R
          BY <4>1, <4>2 DEF DirInv, Dirs
        <4>. HIDE DEF e
        <4>4. DirInv(e, clock + 1)
          BY <4>1, <4>2, <4>3 DEF DirInv
        <4>. QED BY <4>1, <4>3, <4>4 DEF R
      <3>4. e \in Dirs
        BY <3>3 DEF DirInv
      <3>. HIDE DEF e
      <3>5. dir' \in [Runs -> Dirs] /\ \A x \in Runs : dir'[x] = IF x = r THEN e ELSE dir[x]
        BY <1>1, <3>1, <3>4 DEF TypeInv
      <3>6. DirInv(saved, clock') /\ \A x \in Runs : DirInv(dir[x], clock')
        BY <1>1, <3>1, Later DEF TypeInv
      <3>. QED BY <1>1, <1>5, <2>2, <3>1, <3>3, <3>5, <3>6 DEF TypeInv
    <2>. QED BY <2>1, <2>2
  <1>9. Only(r)
    BY <1>2, <1>6, <1>7, <1>8 DEF Only
  <1>10. CanBe(r)'
    <2>1. Cmd(r)' = Cmd(r) /\ Dry(r)' = Dry(r) /\ PR(r)' = PR(r)
      BY <1>2, SameTask
    <2>. QED BY <1>1, <1>2, <1>7, <1>8, <2>1 DEF CanBe
  <1>11. TypeInv'
    <2>1. wiped' \subseteq States /\ \A x \in wiped' : x.at <= clock'
      BY <1>1, <1>2, <1>3, LostBefore
    <2>. QED BY <1>1, <1>2, <1>6, <1>7, <1>8, <2>1 DEF TypeInv
  <1>. QED BY <1>3, <1>6, <1>7, <1>8, <1>9, <1>10, <1>11 DEF rows

\* What a retrieval takes was kept under its key, and what it stores is found
\* in the head of its own run.
LEMMA RetrieveStep ==
  ASSUME Inv, NEW r \in Runs, NEW topk \in {"fast", "deep"}, Retrieve(r, topk)
  PROVE  /\ TypeInv' /\ CanBe(r)' /\ Only(r)
         /\ dir'[r].states = dir[r].states /\ UNCHANGED <<told, due>>
         /\ hit'[r] # None => \E s \in dir[r].snaps : s.key = CacheKey(r, topk) /\ hit'[r] = s.found
         /\ \A s \in dir'[r].snaps :
              \/ s \in dir[r].snaps
              \/ PR(r) # None /\ s.key = CacheKey(r, topk) /\ s.found \in Finds(r)
         /\ Cmd(r) # "ask" => pc'[r] = "save"
  <1> USE DEF github, caches, start, read, history
  <1>1. TypeInv /\ CanBe(r) /\ plan \in Plans
    BY DEF Inv, Where, TypeInv
  <1>2. /\ UNCHANGED <<plan, tip, newest, indexes, saved, disk, sha, tree, exact, head, diff, told, due, ledger, wiped,
                       faults, overlapped, moved>>
        /\ pc[r] = topk
    BY DEF Retrieve
  <1>3. \/ UNCHANGED <<dir, clock>> /\ hit' = [hit EXCEPT ![r] = None]
        \/ /\ UNCHANGED <<dir, clock>>
           /\ \E s \in dir[r].snaps : s.key = CacheKey(r, topk) /\ hit' = [hit EXCEPT ![r] = s.found]
        \/ /\ hit' = [hit EXCEPT ![r] = None] /\ HasCacheKey(r)
           /\ \E found \in Finds(r) : StoreSnapshot(r, topk, found)
    <2>1. Snapshots(r, topk) # {} =>
            LET s == CHOOSE s \in Snapshots(r, topk) : TRUE
            IN  s \in dir[r].snaps /\ s.key = CacheKey(r, topk)
      BY DEF Snapshots
    <2>. QED BY <2>1 DEF Retrieve
  <1>4. /\ pc' \in [Runs -> Places] /\ (pc'[r] = "save" \/ (pc'[r] = "deep" /\ Cmd(r) = "ask"))
        /\ \A x \in Runs : x # r => pc'[x] = pc[x]
    BY <1>1 DEF Retrieve, Goto, Cmd, TypeInv, Places
  <1>5. /\ hit' \in [Runs -> Found \cup {None}] /\ \A x \in Runs : x # r => hit'[x] = hit[x]
        /\ hit'[r] # None => \E s \in dir[r].snaps : s.key = CacheKey(r, topk) /\ hit'[r] = s.found
    <2>1. \A s \in dir[r].snaps : s.found \in Found
      BY <1>1 DEF TypeInv, Dirs, Snaps
    <2>. QED BY <1>1, <1>3, <2>1 DEF TypeInv
  <1>6. /\ dir' \in [Runs -> Dirs] /\ \A x \in Runs : DirInv(dir'[x], clock')
        /\ clock' \in Nat /\ DirInv(saved, clock')
        /\ \A x \in Runs : x # r => dir'[x] = dir[x]
        /\ dir'[r].states = dir[r].states /\ (dir[r].exists => dir'[r].exists)
        /\ \A s \in dir'[r].snaps :
             \/ s \in dir[r].snaps
             \/ PR(r) # None /\ s.key = CacheKey(r, topk) /\ s.found \in Finds(r)
    <2>1. CASE UNCHANGED <<dir, clock>>
      BY <1>1, <2>1 DEF TypeInv
    <2>2. CASE HasCacheKey(r) /\ \E found \in Finds(r) : StoreSnapshot(r, topk, found)
      <3>1. PICK found \in Finds(r) : StoreSnapshot(r, topk, found)
        BY <2>2
      <3>2. PR(r) # None /\ PR(r) \in PRs /\ Cmd(r) # "index" /\ diff[r] \in Commits /\ head[r] \in Commits
        BY <1>1, <1>2, <2>2, TaskFacts DEF HasCacheKey, CanBe, TypeInv
      <3>. DEFINE key == CacheKey(r, topk)
                  s   == [key |-> key, found |-> found, at |-> clock + 1]
                  K   == {t \in dir[r].snaps : t.key # key}
                  S   == Newest(K \cup {s}, MaxEntries)
                  e   == [dir[r] EXCEPT !.exists = TRUE, !.snaps = S]
      <3>3. key \in Keys
        BY <1>1, <3>2, TaskFacts, Constants DEF CacheKey, Keys, Cmd
      <3>4. found \in Found
        <4>1. CASE Cmd(r) = "ask"
          <5>1. disk[r] \in Packages
            BY <1>1, <1>2, <4>1 DEF CanBe, TypeInv, Fitting
          <5>. QED BY <3>1, <4>1, <5>1 DEF Finds, Found, Packages, Cmd
        <4>2. CASE Cmd(r) # "ask"
          <5>1. found = [index |-> NoRead, diff |-> diff[r], empty |-> FALSE]
            BY <3>1, <4>2 DEF Finds, Cmd
          <5>. QED BY <3>2, <5>1 DEF Found
        <4>. QED BY <4>1, <4>2
      <3>5. dir' = [dir EXCEPT ![r] = e] /\ clock' = clock + 1
        BY <1>1, <3>1 DEF StoreSnapshot, TypeInv, Dirs
      <3>6. DirInv(dir[r], clock) /\ clock \in Nat /\ MaxEntries \in Nat \ {0}
        BY <1>1, Constants DEF TypeInv
      <3>7. DirInv(dir[r], clock + 1)
        BY <3>6, Later
      <3>. HIDE DEF key
      <3>8. s \in Snaps /\ s.at = clock + 1 /\ s.key = key /\ s.found = found
        BY <3>3, <3>4, <3>6 DEF Snaps
      <3>. HIDE DEF s
      <3>9. K \subseteq dir[r].snaps /\ Stamped(dir[r].snaps, clock)
        BY <3>6 DEF DirInv
      <3>. HIDE DEF K
      <3>10. Stamped(S, clock + 1) /\ Cardinality(S) <= MaxEntries /\ S \subseteq K \cup {s}
        <4>. DEFINE D == dir[r].snaps
        <4>1. K \subseteq D /\ Stamped(D, clock)
          BY <3>9
        <4>. HIDE DEF D
        <4>2. /\ Stamped(Newest(K \cup {s}, MaxEntries), clock + 1)
              /\ Cardinality(Newest(K \cup {s}, MaxEntries)) <= MaxEntries
              /\ Newest(K \cup {s}, MaxEntries) \subseteq K \cup {s}
          BY <3>6, <3>8, <4>1, Stored
        <4>. QED BY <4>2
      <3>. HIDE DEF S
      <3>11. S \in SUBSET Snaps
        BY <3>6, <3>8, <3>9, <3>10 DEF DirInv, Dirs
      <3>12. e \in Dirs /\ e.exists = TRUE /\ e.snaps = S /\ e.states = dir[r].states
        BY <3>7, <3>11 DEF DirInv, Dirs
      <3>. HIDE DEF e
      <3>13. DirInv(e, clock + 1)
        BY <3>7, <3>10, <3>12 DEF DirInv
      <3>14. dir' \in [Runs -> Dirs] /\ \A x \in Runs : dir'[x] = IF x = r THEN e ELSE dir[x]
        BY <1>1, <3>5, <3>12 DEF TypeInv
      <3>15. DirInv(saved, clock') /\ \A x \in Runs : DirInv(dir[x], clock')
        BY <1>1, <3>5, Later DEF TypeInv
      <3>16. \A t \in e.snaps : t \in dir[r].snaps \/ (t.key = key /\ t.found \in Finds(r))
        BY <3>1, <3>8, <3>9, <3>10, <3>12
      <3>. QED BY <1>1, <3>2, <3>5, <3>12, <3>13, <3>14, <3>15, <3>16 DEF TypeInv, key
    <2>. QED BY <1>3, <2>1, <2>2
  <1>7. Only(r)
    BY <1>2, <1>4, <1>5, <1>6 DEF Only
  <1>8. CanBe(r)'
    <2>1. Cmd(r)' = Cmd(r) /\ Dry(r)' = Dry(r) /\ PR(r)' = PR(r)
      BY <1>2, SameTask
    <2>2. pc[r] \in {"fast", "deep"}
      BY <1>2
    <2>. QED BY <1>1, <1>2, <1>4, <1>6, <2>1, <2>2 DEF CanBe
  <1>9. TypeInv'
    <2>1. clock' \in {clock, clock + 1}
      BY DEF Retrieve, StoreSnapshot
    <2>2. wiped' \subseteq States /\ \A x \in wiped' : x.at <= clock'
      BY <1>1, <1>2, <2>1, LostBefore
    <2>. QED BY <1>1, <1>2, <1>4, <1>5, <1>6, <2>2 DEF TypeInv
  <1>. QED BY <1>2, <1>4, <1>5, <1>6, <1>7, <1>8, <1>9

-----------------------------------------------------------------------------
(* Endings                                                                 *)

\* The ledger holds reviews, whatever is remembered.
LEMMA RemembersFacts ==
  ASSUME Inv, NEW r \in Runs, Remembers(r) PROVE ledger' \in SUBSET States
  <1>1. CASE told[r] # None /\ ~Dry(r)
    <2>1. PICK s \in dir[r].states : s.pr = PR(r)
      BY <1>1 DEF Inv, Where, CanBe
    <2>2. Prior(dir[r].states, PR(r)) \in dir[r].states /\ dir[r].states \subseteq States /\ ledger \subseteq States
      BY <2>1, PriorFacts DEF Inv, TypeInv, Dirs
    <2>3. ledger' = Replacing(ledger, Prior(dir[r].states, PR(r)))
      BY <1>1 DEF Remembers, Dry
    <2>. QED BY <2>2, <2>3, ReplacingFacts
  <1>2. CASE told[r] = None \/ Dry(r)
    BY <1>2 DEF Remembers, Dry, Inv, TypeInv
  <1>. QED BY <1>1, <1>2

LEMMA SaveDirFacts ==
  ASSUME Inv, NEW r \in Runs, SaveDir(r) PROVE DirInv(saved', clock) /\ ledger' \in SUBSET States
  BY RemembersFacts DEF SaveDir, Inv, TypeInv

LEMMA SaveStep ==
  ASSUME Inv, NEW r \in Runs, Save(r) PROVE TypeInv' /\ CanBe(r)' /\ Only(r)
  <1> USE DEF github, copy, start, read, outcome
  <1>1. TypeInv /\ CanBe(r)
    BY DEF Inv, Where
  <1>2. /\ UNCHANGED <<plan, tip, newest, indexes, dir, disk, sha, tree, exact, head, diff, hit, told, due,
                       wiped, clock, faults, overlapped, moved>>
        /\ pc[r] = "save"
    BY DEF Save
  <1>3. DirInv(saved', clock') /\ ledger' \in SUBSET States
    BY <1>2, SaveDirFacts DEF Save
  <1>4. pc' \in [Runs -> Places] /\ pc'[r] = "post" /\ \A x \in Runs : x # r => pc'[x] = pc[x]
    BY <1>1 DEF Save, Goto, TypeInv, Places
  <1>5. Only(r)
    BY <1>2, <1>4 DEF Only
  <1>6. CanBe(r)'
    <2>1. Cmd(r)' = Cmd(r) /\ Dry(r)' = Dry(r) /\ PR(r)' = PR(r)
      BY <1>2, SameTask
    <2>. QED BY <1>1, <1>2, <1>4, <2>1 DEF CanBe
  <1>7. TypeInv'
    BY <1>1, <1>2, <1>3, <1>4 DEF TypeInv
  <1>. QED BY <1>5, <1>6, <1>7

LEMMA PostStep ==
  ASSUME Inv, NEW r \in Runs, PostIndex(r) PROVE TypeInv' /\ CanBe(r)' /\ Only(r)
  <1> USE DEF github
  <1>1. TypeInv
    BY DEF Inv
  <1>2. /\ UNCHANGED <<plan, tip, newest, saved, clock, ledger, wiped, faults, overlapped, moved>>
        /\ Leave(r)
    BY DEF PostIndex
  <1>. DEFINE E == [key : Commits, package : Fitting]
  <1>3. indexes' \in Seq(E)
    <2>1. CASE indexes' = indexes
      BY <1>1, <2>1 DEF TypeInv
    <2>2. CASE disk[r] # None /\ indexes' = Append(indexes, [key |-> sha[r], package |-> disk[r]])
      <3>1. [key |-> sha[r], package |-> disk[r]] \in E /\ indexes \in Seq(E)
        BY <1>1, <2>2 DEF TypeInv
      <3>. HIDE DEF E
      <3>. QED BY <2>2, <3>1
    <2>. QED BY <2>1, <2>2 DEF PostIndex
  <1>4. TypeInv'
    BY <1>1, <1>2, <1>3, LeaveFacts DEF TypeInv
  <1>. QED BY <1>1, <1>2, <1>4, LeaveFacts

LEMMA StopsStep ==
  ASSUME Inv, NEW r \in Runs, Stops(r) PROVE TypeInv' /\ CanBe(r)' /\ Only(r)
  <1> USE DEF github
  <1>1. TypeInv
    BY DEF Inv
  <1>2. /\ UNCHANGED <<plan, tip, newest, indexes, clock, wiped, overlapped, moved>>
        /\ Leave(r) /\ faults' \in 0..MaxFaults
    BY <1>1, Constants DEF Stops, Fault, TypeInv
  <1>3. DirInv(saved', clock') /\ ledger' \in SUBSET States
    BY <1>2, SaveDirFacts DEF Stops
  <1>4. TypeInv'
    BY <1>1, <1>2, <1>3, LeaveFacts DEF TypeInv
  <1>. QED BY <1>1, <1>2, <1>4, LeaveFacts

LEMMA TornStep ==
  ASSUME Inv, NEW r \in Runs, Torn(r) PROVE TypeInv' /\ CanBe(r)' /\ Only(r)
  <1> USE DEF github
  <1>1. TypeInv
    BY DEF Inv
  <1>2. /\ UNCHANGED <<plan, tip, newest, indexes, clock, overlapped, moved>>
        /\ Leave(r) /\ faults' \in 0..MaxFaults
    BY <1>1, Constants DEF Torn, Fault, TypeInv
  <1>3. /\ \/ saved' = [dir[r] EXCEPT !.exists = TRUE, !.states = {}]
           \/ saved' = [dir[r] EXCEPT !.exists = TRUE, !.snaps = {}]
        /\ UNCHANGED ledger \/ Remembers(r)
        /\ wiped' = wiped \cup dir[r].states \/ UNCHANGED wiped
    BY DEF Torn
  <1>4. ledger' \in SUBSET States /\ wiped' \subseteq States /\ \A x \in wiped' : x.at <= clock'
    <2>1. ledger' \in SUBSET States
      BY <1>1, <1>3, RemembersFacts DEF TypeInv
    <2>2. DirInv(dir[r], clock)
      BY <1>1 DEF TypeInv
    <2>3. dir[r].states \subseteq States /\ \A x \in dir[r].states : x.at <= clock
      BY <2>2 DEF DirInv, Dirs, Stamped
    <2>. QED BY <1>1, <1>2, <1>3, <2>1, <2>3 DEF TypeInv
  <1>5. DirInv(saved', clock')
    <2>1. DirInv(dir[r], clock)
      BY <1>1 DEF TypeInv
    <2>2. Stamped({}, clock) /\ Cardinality({}) = 0 /\ MaxStates >= 0 /\ MaxEntries >= 0
      BY FS_EmptySet, Constants DEF Stamped
    <2>3. saved' \in Dirs
      BY <1>3, <2>1 DEF DirInv, Dirs
    <2>4. CASE saved'.snaps = dir[r].snaps /\ saved'.states = {}
      BY <1>2, <2>1, <2>2, <2>3, <2>4 DEF DirInv
    <2>5. CASE saved'.states = dir[r].states /\ saved'.snaps = {}
      BY <1>2, <2>1, <2>2, <2>3, <2>5 DEF DirInv
    <2>. QED BY <1>3, <2>1, <2>4, <2>5 DEF DirInv, Dirs
  <1>6. TypeInv'
    BY <1>1, <1>2, <1>4, <1>5, LeaveFacts DEF TypeInv
  <1>. QED BY <1>1, <1>2, <1>6, LeaveFacts

LEMMA LostStep ==
  ASSUME Inv, NEW r \in Runs, Lost(r) PROVE TypeInv' /\ CanBe(r)' /\ Only(r)
  <1> USE DEF github, caches
  <1>1. TypeInv
    BY DEF Inv
  <1>2. /\ UNCHANGED <<plan, tip, newest, indexes, saved, ledger, wiped, clock, overlapped, moved>>
        /\ Leave(r) /\ faults' \in 0..MaxFaults
    BY <1>1, Constants DEF Lost, Fault, TypeInv
  <1>3. TypeInv'
    BY <1>1, <1>2, LeaveFacts DEF TypeInv
  <1>. QED BY <1>1, <1>2, <1>3, LeaveFacts

LEMMA StepInv ==
  ASSUME Inv, NEW r \in Runs, Step(r) PROVE Inv' /\ Only(r)
  <1>1. TypeInv' /\ CanBe(r)' /\ Only(r)
    BY StartStep, LoadStep, BuildStep, ReadHeadStep, ReadDiffStep, CompareStep, RetrieveStep,
       SaveStep, PostStep, StopsStep, TornStep, LostStep DEF Step
  <1>. QED BY <1>1, InvFrom

\* The author and the cache service touch no run.
LEMMA Elsewhere ==
  ASSUME Inv, UNCHANGED <<plan, pc, dir, disk, head, diff, hit, told>>, TypeInv' PROVE Inv'
  BY SameTask DEF Inv, Where, CanBe

LEMMA PushStep ==
  ASSUME Inv, NEW b \in Branches, Push(b)
  PROVE  /\ Inv' /\ tip' = [tip EXCEPT ![b] = newest + 1]
         /\ \A x \in Branches : tip[x] <= tip'[x]
  <1> USE DEF caches, copy, start, read, outcome, history
  <1>1. TypeInv
    BY DEF Inv
  <1>2. /\ UNCHANGED <<plan, indexes, saved, pc, dir, disk, sha, tree, exact, head, diff, hit, told, clock,
                       due, ledger, wiped, faults, overlapped, moved>>
        /\ newest < MaxCommit /\ newest' = newest + 1 /\ tip' = [tip EXCEPT ![b] = newest + 1]
    BY DEF Push
  <1>3. newest \in Nat /\ newest' \in Commits
    BY <1>1, <1>2, Constants DEF TypeInv, Commits
  <1>4. /\ tip' \in [Branches -> Commits]
        /\ \A x \in Branches : tip[x] <= tip'[x] /\ tip'[x] <= newest'
    <2>1. \A x \in Branches : tip[x] \in Nat /\ tip[x] <= newest
      BY <1>1, Constants DEF TypeInv
    <2>. QED BY <1>1, <1>2, <1>3, <2>1 DEF TypeInv
  <1>5. TypeInv'
    BY <1>1, <1>2, <1>3, <1>4 DEF TypeInv
  <1>. QED BY <1>2, <1>4, <1>5, Elsewhere

LEMMA MoveBackStep == ASSUME Inv, NEW p \in PRs, MoveBack(p) PROVE Inv' /\ moved'
  <1> USE DEF caches, copy, start, read, outcome
  <1>1. TypeInv
    BY DEF Inv
  <1>2. /\ UNCHANGED <<plan, newest, indexes, saved, pc, dir, disk, sha, tree, exact, head, diff, hit, told,
                       clock, due, ledger, wiped, overlapped>>
        /\ moved' = TRUE
    BY DEF MoveBack
  <1>3. faults' \in 0..MaxFaults
    BY <1>1, Constants DEF MoveBack, Fault, TypeInv
  <1>4. PICK c \in Commits : c < tip[p] /\ tip' = [tip EXCEPT ![p] = c]
    BY DEF MoveBack
  <1>5. tip' \in [Branches -> Commits] /\ \A x \in Branches : tip'[x] <= newest'
    <2>1. p \in Branches /\ newest \in Nat /\ c \in Nat /\ \A x \in Branches : tip[x] \in Nat /\ tip[x] <= newest
      BY <1>1, Constants DEF TypeInv, Branches
    <2>. QED BY <1>1, <1>2, <1>4, <2>1 DEF TypeInv
  <1>6. TypeInv'
    BY <1>1, <1>2, <1>3, <1>5 DEF TypeInv
  <1>. QED BY <1>2, <1>6, Elsewhere

LEMMA ExpireStep == ASSUME Inv, Expire PROVE Inv'
  <1> USE DEF github, copy, start, read, outcome
  <1>1. TypeInv
    BY DEF Inv
  <1>2. /\ UNCHANGED <<plan, tip, newest, pc, dir, disk, sha, tree, exact, head, diff, hit, told,
                       clock, due, ledger, overlapped, moved>>
        /\ saved' = NoDir /\ indexes' = <<>> /\ wiped' = wiped \cup saved.states
    BY DEF Expire
  <1>3. faults' \in 0..MaxFaults
    BY <1>1, Constants DEF Expire, Fault, TypeInv
  <1>4. DirInv(saved', clock')
    BY <1>2, NoDirInv
  <1>5. indexes' \in Seq([key : Commits, package : Fitting])
    BY <1>2
  <1>6. wiped' \subseteq States /\ \A x \in wiped' : x.at <= clock'
    <2>1. saved.states \subseteq States /\ \A x \in saved.states : x.at <= clock
      BY <1>1 DEF TypeInv, DirInv, Dirs, Stamped
    <2>. QED BY <1>1, <1>2, <2>1 DEF TypeInv
  <1>7. TypeInv'
    BY <1>1, <1>2, <1>3, <1>4, <1>5, <1>6 DEF TypeInv
  <1>. QED BY <1>2, <1>7, Elsewhere

-----------------------------------------------------------------------------
(* Type correctness, and the vectors                                       *)

LEMMA InitInv == ASSUME Init PROVE Inv
  <1>1. plan \in Plans /\ Commits \subseteq Nat /\ 1 \in Commits
    BY Constants DEF Init
  <1>2. DirInv(NoDir, clock) /\ NoDir \in Dirs
    BY NoDirInv
  <1>3. TypeInv
    <2>1. /\ tip \in [Branches -> Commits] /\ newest \in Commits /\ \A b \in Branches : tip[b] <= newest
          /\ sha \in [Runs -> Commits] /\ tree \in [Runs -> Commits]
          /\ clock \in Nat /\ faults \in 0..MaxFaults
      BY <1>1, Constants DEF Init
    <2>2. indexes \in Seq([key : Commits, package : Fitting])
      BY DEF Init
    <2>3. DirInv(saved, clock) /\ dir \in [Runs -> Dirs] /\ \A r \in Runs : DirInv(dir[r], clock)
      BY <1>2 DEF Init
    <2>. QED BY <1>1, <2>1, <2>2, <2>3 DEF Init, TypeInv, Places
  <1>4. Where
    BY DEF Init, Where, CanBe
  <1>. QED BY <1>3, <1>4 DEF Inv

LEMMA InvNext == ASSUME Inv, [Next]_vars PROVE Inv'
  <1>1. CASE Next
    BY <1>1, StepInv, PushStep, MoveBackStep, ExpireStep DEF Next
  <1>2. CASE UNCHANGED vars
    <2>1. TypeInv' /\ UNCHANGED <<plan, pc, dir, disk, head, diff, hit, told>>
      BY <1>2 DEF vars, github, caches, copy, start, read, outcome, history, Inv, TypeInv
    <2>. QED BY <2>1, Elsewhere
  <1>. QED BY <1>1, <1>2

LEMMA Invariance == Spec => []Inv
  <1>1. Init => Inv
    BY InitInv
  <1>2. Inv /\ [Next]_vars => Inv'
    BY InvNext
  <1>. QED BY <1>1, <1>2, PTL DEF Spec

\* THEOREM TypeCorrect: whatever the runs, plans and faults, every variable has
\* its type, and neither the snapshots nor the reviews outgrow their files: the
\* trimming after each store in snapshot_cache.py and review_delta_memory.py.
THEOREM TypeCorrect == Spec => []TypeOK
  <1>1. ASSUME Inv PROVE TypeOK
    <2>1. TypeInv
      BY <1>1 DEF Inv
    <2>2. ASSUME NEW d, NEW c, DirInv(d, c) PROVE DirType(d)
      <3>1. d \in Dirs /\ Cardinality(d.snaps) <= MaxEntries /\ Cardinality(d.states) <= MaxStates
        BY <2>2 DEF DirInv
      <3>2. \A s \in d.snaps : s.key \in Keys /\ s.found \in Found /\ s.at \in Nat
        BY <3>1 DEF Dirs, Snaps
      <3>3. \A v \in d.vectors : v.text \in Texts
        BY <3>1 DEF Dirs, Vecs
      <3>4. d.exists \in BOOLEAN /\ d.states \subseteq States
        BY <3>1 DEF Dirs
      <3>. QED BY <3>1, <3>2, <3>3, <3>4 DEF DirType
    <2>3. DirType(saved) /\ \A r \in Runs : DirType(dir[r])
      BY <2>1, <2>2 DEF TypeInv
    <2>4. \A i \in DOMAIN indexes : indexes[i].key \in Commits /\ indexes[i].package \in Packages
      <3>. DEFINE E == [key : Commits, package : Fitting]
      <3>1. indexes \in Seq(E)
        BY <2>1 DEF TypeInv
      <3>2. \A x \in E : x.key \in Commits /\ x.package \in Packages
        BY DEF Fitting
      <3>. HIDE DEF E
      <3>. QED BY <3>1, <3>2
    <2>5. disk \in [Runs -> Packages \cup {None}]
      BY <2>1 DEF TypeInv, Fitting
    <2>6. \A r \in Runs : told[r] = None \/ told[r].known \in BOOLEAN
      BY <2>1 DEF TypeInv, Deltas
    <2>. QED BY <2>1, <2>3, <2>4, <2>5, <2>6 DEF TypeInv, TypeOK, Places
  <1>. QED BY <1>1, Invariance, PTL

\* THEOREM VectorsAlwaysFit: every vector of every package, on a disk or in the
\* cache of GitHub, was computed from a text with the words and lines that the
\* package holds for its file, whichever commits, budgets and earlier builds the
\* vectors were cached from (build_index with EmbeddingsCache, keyed by a hash
\* of the place and the words of the text, without its white space).
THEOREM VectorsAlwaysFit == Spec => []VectorsFitTheIndex
  <1>1. ASSUME Inv PROVE VectorsFitTheIndex
    <2>1. \A i \in DOMAIN indexes : VectorsFit(indexes[i].package)
      <3>. DEFINE E == [key : Commits, package : Fitting]
      <3>1. indexes \in Seq(E)
        BY <1>1 DEF Inv, TypeInv
      <3>2. \A x \in E : VectorsFit(x.package)
        BY DEF Fitting
      <3>. HIDE DEF E
      <3>. QED BY <3>1, <3>2
    <2>2. \A r \in Runs : disk[r] # None => VectorsFit(disk[r])
      BY <1>1 DEF Inv, TypeInv, Fitting
    <2>. QED BY <2>1, <2>2 DEF VectorsFitTheIndex
  <1>. QED BY <1>1, Invariance, PTL

-----------------------------------------------------------------------------
(* Snapshots belong to their heads                                         *)

LEMMA HeadFrom ==
  ASSUME HeadInv, NEW r \in Runs, Only(r), UNCHANGED <<tip, moved>>,
         ~moved => /\ \A s \in saved'.snaps : Ordered(s)
                   /\ \A s \in dir'[r].snaps : Ordered(s)
                   /\ Cmd(r) # "ask" => ReadsLater(r)'
  PROVE  HeadInv'
  <1>1. ASSUME ~moved PROVE \A x \in Runs : \A s \in dir'[x].snaps : Ordered(s)'
    <2>1. \A x \in Runs : x # r => dir'[x] = dir[x]
      BY DEF Only
    <2>2. \A x \in Runs : \A s \in dir[x].snaps : Ordered(s)
      BY <1>1 DEF HeadInv
    <2>. QED BY <1>1, <2>1, <2>2 DEF Ordered
  <1>2. ASSUME ~moved PROVE \A s \in saved'.snaps : Ordered(s)'
    BY <1>2 DEF Ordered
  <1>3. ASSUME ~moved, NEW x \in Runs, Cmd(x)' # "ask" PROVE ReadsLater(x)'
    <2>1. Cmd(x)' = Cmd(x) /\ PR(x)' = PR(x)
      BY SameTask DEF Only
    <2>2. CASE x = r
      BY <1>3, <2>1, <2>2
    <2>3. CASE x # r
      <3>1. ReadsLater(x)
        BY <1>3, <2>1 DEF HeadInv
      <3>2. pc'[x] = pc[x] /\ dir'[x] = dir[x] /\ head'[x] = head[x] /\ diff'[x] = diff[x] /\ hit'[x] = hit[x]
        BY <2>3 DEF Only
      <3>. QED BY <2>1, <3>1, <3>2 DEF ReadsLater
    <2>. QED BY <2>2, <2>3
  <1>. QED BY <1>1, <1>2, <1>3 DEF HeadInv

LEMMA HeadEnds ==
  ASSUME Inv, HeadInv, NEW r \in Runs, Leave(r), UNCHANGED <<plan, tip, moved>>,
         saved'.snaps \in {saved.snaps, dir[r].snaps, {}}
  PROVE  HeadInv'
  <1>1. Only(r) /\ pc'[r] = "over" /\ dir'[r] = NoDir /\ hit'[r] = None
    BY LeaveFacts DEF Inv
  <1>2. ReadsLater(r)'
    BY <1>1 DEF ReadsLater
  <1>3. dir'[r].snaps = {}
    BY <1>1 DEF NoDir
  <1>4. ~moved => \A s \in saved'.snaps : Ordered(s)
    BY DEF HeadInv
  <1>. QED BY <1>1, <1>2, <1>3, <1>4, HeadFrom

LEMMA HeadStart == ASSUME Inv, HeadInv, NEW r \in Runs, Start(r) PROVE HeadInv'
  <1> USE DEF github, caches, copy, start, read, outcome, history
  <1>1. Only(r) /\ TypeInv /\ CanBe(r) /\ TypeInv' /\ CanBe(r)'
    BY StartStep DEF Inv, Where
  <1>2. UNCHANGED <<plan, tip, saved, head, diff, hit, moved>> /\ pc[r] = "idle" /\ hit[r] = None
    BY <1>1 DEF Start, CanBe
  <1>3. dir'[r] = dir[r] \/ dir'[r] = saved
    BY <1>1 DEF Start, TypeInv
  <1>4. pc'[r] \in {"load", "head", "delta", "save"}
    BY <1>1 DEF Start, Goto, TypeInv
  <1>5. ASSUME ~moved, Cmd(r) # "ask" PROVE ReadsLater(r)'
    <2>1. head[r] = NoRead
      BY <1>2, <1>5 DEF HeadInv, ReadsLater
    <2>. QED BY <1>2, <1>4, <2>1 DEF ReadsLater
  <1>6. ~moved => (\A s \in saved'.snaps : Ordered(s)) /\ (\A s \in dir'[r].snaps : Ordered(s))
    BY <1>2, <1>3 DEF HeadInv
  <1>. QED BY <1>1, <1>2, <1>5, <1>6, HeadFrom

LEMMA HeadIndex ==
  ASSUME Inv, HeadInv, NEW r \in Runs, LoadIndex(r) \/ BuildIndex(r) PROVE HeadInv'
  <1> USE DEF github, caches, copy, start, read, outcome, history
  <1>1. Only(r) /\ TypeInv /\ CanBe(r)
    BY LoadStep, BuildStep DEF Inv, Where
  <1>2. UNCHANGED <<plan, tip, saved, hit, moved>> /\ pc[r] = "load" /\ hit[r] = None
    BY <1>1 DEF LoadIndex, BuildIndex, CanBe
  <1>3. dir'[r].snaps = dir[r].snaps
    <2>1. tree[r] \in Commits
      BY <1>1 DEF TypeInv
    <2>2. Build(r, tree[r]) \/ UNCHANGED dir
      BY DEF LoadIndex, BuildIndex
    <2>. QED BY <1>1, <2>1, <2>2, BuildFacts
  <1>4. Cmd(r) = "ask" \/ pc'[r] = "post"
    BY <1>1 DEF LoadIndex, BuildIndex, Goto, Cmd, TypeInv
  <1>5. Cmd(r) # "ask" => ReadsLater(r)'
    BY <1>2, <1>4 DEF ReadsLater
  <1>6. ~moved => (\A s \in saved'.snaps : Ordered(s)) /\ (\A s \in dir'[r].snaps : Ordered(s))
    BY <1>2, <1>3 DEF HeadInv
  <1>. QED BY <1>1, <1>2, <1>5, <1>6, HeadFrom

\* What a run has restored was found before the head it reads now.
LEMMA HeadRead == ASSUME Inv, HeadInv, NEW r \in Runs, ReadHead(r) PROVE HeadInv'
  <1> USE DEF github, caches, copy, start, outcome, history
  <1>1. Only(r) /\ TypeInv /\ CanBe(r)
    BY ReadHeadStep DEF Inv, Where
  <1>2. UNCHANGED <<plan, tip, saved, dir, diff, hit, moved>> /\ pc[r] = "head" /\ hit[r] = None
    BY <1>1 DEF ReadHead, CanBe
  <1>3. ASSUME ~moved, Cmd(r) # "ask" PROVE ReadsLater(r)'
    <2>1. PR(r)' = PR(r)
      BY <1>2, SameTask
    <2>2. PR(r) \in Branches /\ tip[PR(r)] \in Nat
      BY <1>1, <1>2, TaskFacts, Constants DEF CanBe, TypeInv
    <2>3. pc'[r] = "save" \/ (pc'[r] = "diff" /\ head'[r] = tip[PR(r)])
      BY <1>1, <1>3 DEF ReadHead, Goto, Cmd, TypeInv
    <2>4. \A s \in dir[r].snaps : s.key.cmd # "ask" /\ s.key.pr = PR(r) => s.found.diff <= tip[PR(r)]
      BY <1>3 DEF HeadInv, Ordered
    <2>. QED BY <1>2, <2>1, <2>2, <2>3, <2>4 DEF ReadsLater
  <1>4. ~moved => (\A s \in saved'.snaps : Ordered(s)) /\ (\A s \in dir'[r].snaps : Ordered(s))
    BY <1>2 DEF HeadInv
  <1>. QED BY <1>1, <1>2, <1>3, <1>4, HeadFrom

LEMMA HeadDiff == ASSUME Inv, HeadInv, NEW r \in Runs, ReadDiff(r) PROVE HeadInv'
  <1> USE DEF github, caches, copy, start, outcome, history
  <1>1. Only(r) /\ TypeInv /\ CanBe(r)
    BY ReadDiffStep DEF Inv, Where
  <1>2. UNCHANGED <<plan, tip, saved, dir, head, hit, moved>> /\ pc[r] = "diff" /\ hit[r] = None
    BY <1>1 DEF ReadDiff, CanBe
  <1>3. ASSUME ~moved, Cmd(r) # "ask" PROVE ReadsLater(r)'
    <2>1. PR(r)' = PR(r)
      BY <1>2, SameTask
    <2>2. tip[PR(r)] \in Nat /\ diff'[r] = tip[PR(r)]
      BY <1>1, <1>2, TaskFacts, Constants DEF CanBe, TypeInv, ReadDiff
    <2>3. pc'[r] \in {"fast", "delta"}
      BY <1>1, <1>3 DEF ReadDiff, Goto, Cmd, TypeInv
    <2>4. ReadsLater(r)
      BY <1>3 DEF HeadInv
    <2>. QED BY <1>2, <2>1, <2>2, <2>3, <2>4 DEF ReadsLater
  <1>4. ~moved => (\A s \in saved'.snaps : Ordered(s)) /\ (\A s \in dir'[r].snaps : Ordered(s))
    BY <1>2 DEF HeadInv
  <1>. QED BY <1>1, <1>2, <1>3, <1>4, HeadFrom

LEMMA HeadCompare == ASSUME Inv, HeadInv, NEW r \in Runs, Compare(r) PROVE HeadInv'
  <1> USE DEF github, caches, copy, start, read, history
  <1>1. /\ Only(r) /\ TypeInv /\ CanBe(r) /\ pc'[r] \in {"save", "fast"}
        /\ dir'[r].snaps = dir[r].snaps
    BY CompareStep DEF Inv, Where
  <1>2. UNCHANGED <<plan, tip, saved, head, diff, hit, moved>> /\ pc[r] = "delta" /\ hit[r] = None
    BY <1>1 DEF Compare, CanBe
  <1>3. ASSUME ~moved, Cmd(r) # "ask" PROVE ReadsLater(r)'
    <2>1. PR(r)' = PR(r) /\ ReadsLater(r)
      BY <1>2, <1>3, SameTask DEF HeadInv
    <2>. QED BY <1>1, <1>2, <2>1 DEF ReadsLater
  <1>4. ~moved => (\A s \in saved'.snaps : Ordered(s)) /\ (\A s \in dir'[r].snaps : Ordered(s))
    BY <1>1, <1>2 DEF HeadInv
  <1>. QED BY <1>1, <1>2, <1>3, <1>4, HeadFrom

\* The key says that the head was read before the files, the order of reading
\* that the files are no newer than the head.
LEMMA HeadRetrieve ==
  ASSUME Inv, HeadInv, NEW r \in Runs, NEW topk \in {"fast", "deep"}, Retrieve(r, topk) PROVE HeadInv'
  <1> USE DEF github, caches, start, read, history
  <1>1. /\ Only(r) /\ TypeInv /\ CanBe(r) /\ (Cmd(r) # "ask" => pc'[r] = "save")
        /\ hit'[r] # None => \E s \in dir[r].snaps : s.key = CacheKey(r, topk) /\ hit'[r] = s.found
        /\ \A s \in dir'[r].snaps :
             \/ s \in dir[r].snaps
             \/ PR(r) # None /\ s.key = CacheKey(r, topk) /\ s.found \in Finds(r)
    BY RetrieveStep DEF Inv, Where
  <1>2. UNCHANGED <<plan, tip, saved, head, diff, moved>> /\ pc[r] = topk
    BY DEF Retrieve
  <1>3. CacheKey(r, topk).pr = PR(r) /\ CacheKey(r, topk).head = head[r] /\ CacheKey(r, topk).cmd = Cmd(r)
    BY DEF CacheKey, Cmd
  <1>4. Cmd(r) # "ask" => topk = "fast" /\ PR(r) \in PRs /\ head[r] # NoRead
    BY <1>1, <1>2, TaskFacts, Constants DEF CanBe, Commands, TypeInv
  <1>5. ASSUME ~moved, Cmd(r) # "ask" PROVE ReadsLater(r)'
    <2>1. ReadsLater(r)
      BY <1>5 DEF HeadInv
    <2>2. ASSUME hit'[r] # None PROVE hit'[r].diff = head[r]
      <3>1. PICK s \in dir[r].snaps : s.key = CacheKey(r, topk) /\ hit'[r] = s.found
        BY <1>1, <2>2
      <3>2. s.key.cmd # "ask" /\ s.key.pr = PR(r) /\ s.key.head = head[r]
        BY <1>3, <1>5, <3>1
      <3>3. head[r] <= s.found.diff
        BY <1>5, <3>1, <3>2 DEF HeadInv, Ordered
      <3>4. s.found.diff <= head[r]
        BY <1>2, <1>4, <1>5, <2>1, <3>1, <3>2 DEF ReadsLater
      <3>5. s.found.diff \in Nat /\ head[r] \in Nat
        <4>1. dir[r] \in Dirs /\ head[r] \in Commits \cup {NoRead}
          BY <1>1 DEF TypeInv
        <4>2. s.found \in Found
          BY <3>1, <4>1 DEF Dirs, Snaps
        <4>. QED BY <4>1, <4>2, Constants DEF Found
      <3>. QED BY <3>1, <3>3, <3>4, <3>5
    <2>. QED BY <1>1, <1>2, <1>5, <2>2 DEF ReadsLater
  <1>6. ASSUME ~moved, NEW s \in dir'[r].snaps PROVE Ordered(s)
    <2>1. CASE s \in dir[r].snaps
      BY <1>6, <2>1 DEF HeadInv
    <2>2. CASE s.key = CacheKey(r, topk) /\ s.found \in Finds(r) /\ Cmd(r) = "ask"
      BY <1>3, <2>2 DEF Ordered
    <2>3. CASE s.key = CacheKey(r, topk) /\ s.found \in Finds(r) /\ Cmd(r) # "ask"
      <3>1. s.found.diff = diff[r]
        BY <2>3 DEF Finds, Cmd
      <3>2. head[r] <= diff[r] /\ diff[r] <= tip[PR(r)]
        BY <1>2, <1>4, <1>6, <2>3 DEF HeadInv, ReadsLater
      <3>. QED BY <1>3, <1>4, <2>3, <3>1, <3>2 DEF Ordered
    <2>. QED BY <1>1, <2>1, <2>2, <2>3
  <1>7. ~moved => \A s \in saved'.snaps : Ordered(s)
    BY <1>2 DEF HeadInv
  <1>. QED BY <1>1, <1>2, <1>5, <1>6, <1>7, HeadFrom

LEMMA HeadSave == ASSUME Inv, HeadInv, NEW r \in Runs, Save(r) PROVE HeadInv'
  <1> USE DEF github, copy, start, read, outcome
  <1>1. Only(r) /\ TypeInv
    BY SaveStep DEF Inv
  <1>2. UNCHANGED <<plan, tip, dir, head, diff, hit, moved>> /\ saved' \in {saved, dir[r]} /\ pc'[r] = "post"
    BY <1>1 DEF Save, SaveDir, Goto, TypeInv
  <1>3. ~moved /\ Cmd(r) # "ask" => ReadsLater(r)'
    BY <1>2 DEF HeadInv, ReadsLater
  <1>4. ~moved => (\A s \in saved'.snaps : Ordered(s)) /\ (\A s \in dir'[r].snaps : Ordered(s))
    BY <1>2 DEF HeadInv
  <1>. QED BY <1>1, <1>2, <1>3, <1>4, HeadFrom

\* Branches only grow, so what was ordered stays ordered.
LEMMA HeadPush == ASSUME Inv, HeadInv, NEW b \in Branches, Push(b) PROVE HeadInv'
  <1> USE DEF caches, copy, start, read, outcome, history
  <1>1. /\ TypeInv /\ TypeInv' /\ Where /\ \A x \in Branches : tip[x] <= tip'[x]
        /\ UNCHANGED <<plan, saved, pc, dir, head, diff, hit, moved>>
    BY PushStep DEF Inv, Push
  <1>2. \A x \in Branches : tip[x] \in Nat /\ tip'[x] \in Nat
    BY <1>1, Constants DEF TypeInv
  <1>3. ASSUME NEW s \in Snaps, Ordered(s) PROVE Ordered(s)'
    <2>1. s.found.diff \in Nat
      BY Constants DEF Snaps, Found
    <2>2. \A p \in PRs : p \in Branches
      BY DEF Branches
    <2>. QED BY <1>1, <1>2, <1>3, <2>1, <2>2 DEF Ordered
  <1>4. ASSUME NEW r \in Runs, Cmd(r) # "ask", ReadsLater(r) PROVE ReadsLater(r)'
    <2>1. PR(r)' = PR(r)
      BY <1>1, SameTask
    <2>2. CASE pc[r] \in {"diff", "delta", "fast"}
      <3>1. PR(r) \in Branches
        BY <1>1, <1>4, <2>2, TaskFacts, Constants DEF Where, CanBe, Commands, TypeInv
      <3>2. tip[PR(r)] \in Nat /\ tip'[PR(r)] \in Nat /\ tip[PR(r)] <= tip'[PR(r)]
        BY <1>1, <1>2, <3>1
      <3>3. head[r] \in Nat /\ diff[r] \in Nat
        BY <1>1, Constants DEF TypeInv
      <3>. QED BY <1>1, <1>4, <2>1, <3>2, <3>3 DEF ReadsLater
    <2>3. CASE pc[r] \notin {"diff", "delta", "fast"}
      BY <1>1, <1>4, <2>1, <2>3 DEF ReadsLater
    <2>. QED BY <2>2, <2>3
  <1>5. saved.snaps \subseteq Snaps /\ \A r \in Runs : dir[r].snaps \subseteq Snaps
    BY <1>1 DEF TypeInv, DirInv, Dirs
  <1>6. \A r \in Runs : Cmd(r)' = Cmd(r)
    BY <1>1, SameTask
  <1>. QED BY <1>1, <1>3, <1>4, <1>5, <1>6 DEF HeadInv

LEMMA HeadNext == ASSUME Inv, HeadInv, [Next]_vars PROVE HeadInv'
  <1>1. ASSUME NEW r \in Runs, Step(r) PROVE HeadInv'
    <2>1. CASE PostIndex(r) \/ Stops(r) \/ Torn(r) \/ Lost(r)
      <3>1. Leave(r) /\ UNCHANGED <<plan, tip, moved>>
        BY <2>1 DEF PostIndex, Stops, Torn, Lost, github
      <3>2. dir[r] \in Dirs
        BY DEF Inv, TypeInv
      <3>3. saved'.snaps \in {saved.snaps, dir[r].snaps, {}}
        BY <2>1, <3>2 DEF PostIndex, Stops, Torn, Lost, SaveDir, caches, Dirs
      <3>. QED BY <3>1, <3>3, HeadEnds
    <2>. QED BY <1>1, <2>1, HeadStart, HeadIndex, HeadRead, HeadDiff, HeadCompare, HeadRetrieve, HeadSave
             DEF Step
  <1>2. ASSUME NEW p \in PRs, MoveBack(p) PROVE HeadInv'
    BY <1>2, MoveBackStep DEF HeadInv
  <1>3. CASE Expire \/ UNCHANGED vars
    <2>1. /\ UNCHANGED <<plan, tip, pc, dir, head, diff, hit, moved>>
          /\ saved' = saved \/ saved' = NoDir
      BY <1>3 DEF Expire, vars, github, caches, copy, start, read, outcome, history
    <2>2. \A s \in NoDir.snaps : Ordered(s)'
      BY DEF NoDir
    <2>3. \A s : Ordered(s)' = Ordered(s)
      BY <2>1 DEF Ordered
    <2>4. \A r \in Runs : Cmd(r)' = Cmd(r) /\ ReadsLater(r)' = ReadsLater(r)
      BY <2>1, SameTask DEF ReadsLater
    <2>. QED BY <2>1, <2>2, <2>3, <2>4 DEF HeadInv
  <1>. QED BY <1>1, <1>2, <1>3, HeadPush DEF Next

\* THEOREM HitsAreOfTheirHead: as long as no pull request is moved back to an
\* older commit, what review or fix takes from a snapshot was found in the diff
\* of the head it is about, for any number of runs that store and restore in
\* between (_build_cache_key with the order of reads in github_flow.py).
THEOREM HitsAreOfTheirHead == Spec => []HitIsOfItsHead
  <1>1. Init => HeadInv
    BY DEF Init, HeadInv, ReadsLater, NoDir
  <1>2. Inv /\ HeadInv /\ [Next]_vars => HeadInv'
    BY HeadNext
  <1>3. HeadInv => HitIsOfItsHead
    BY DEF HeadInv, ReadsLater, HitIsOfItsHead, Cmd
  <1>. QED BY <1>1, <1>2, <1>3, Invariance, PTL DEF Spec

-----------------------------------------------------------------------------
(* A review is compared with the last one                                  *)

LEMMA LastFrom ==
  ASSUME Inv, LastInv, NEW r \in Runs, Only(r), ~overlapped' => ~overlapped, wiped \subseteq wiped',
         ~overlapped' => /\ \A x \in Runs : x # r => ~Active(x)
                         /\ saved'.states = ledger' \ wiped' /\ AfterLoss(saved.states)'
                         /\ OnePerPR(ledger') /\ ToldRight(r)' /\ Carries(r)'
  PROVE  LastInv'
  <1>1. ASSUME ~overlapped', NEW x \in Runs, x # r PROVE ~Active(x)' /\ ToldRight(x)' /\ Carries(x)'
    <2>1. /\ pc'[x] = pc[x] /\ told'[x] = told[x] /\ due'[x] = due[x] /\ diff'[x] = diff[x]
          /\ UNCHANGED plan
      BY <1>1 DEF Only
    <2>2. ~Active(x)'
      BY <1>1, <2>1 DEF Active
    <2>3. Carries(x)'
      BY <2>2 DEF Carries
    <2>4. Findings(x)' = Findings(x)
      BY <2>1 DEF Findings, task
    <2>5. ToldRight(x)'
      BY <1>1, <2>1, <2>4 DEF LastInv, ToldRight
    <2>. QED BY <2>2, <2>3, <2>5
  <1>. QED BY <1>1 DEF LastInv

\* An active run is the only one.
LEMMA AloneFacts ==
  ASSUME LastInv, ~overlapped, NEW r \in Runs, Active(r)
  PROVE  /\ \A x \in Runs : x # r => ~Active(x)
         /\ saved.states = ledger \ wiped /\ AfterLoss(saved.states) /\ OnePerPR(ledger)
         /\ ToldRight(r) /\ Carries(r)
  BY DEF LastInv

\* A run that has told nothing is right.
LEMMA LastEnds ==
  ASSUME Inv, LastInv, NEW r \in Runs, Leave(r), Active(r), UNCHANGED <<plan, overlapped>>,
         wiped \subseteq wiped',
         ~overlapped => saved'.states = ledger' \ wiped' /\ AfterLoss(saved.states)' /\ OnePerPR(ledger')
  PROVE  LastInv'
  <1>1. Only(r) /\ pc'[r] = "over" /\ told'[r] = None /\ due'[r] = None
    BY LeaveFacts DEF Inv
  <1>2. Carries(r)' /\ ToldRight(r)'
    BY <1>1 DEF Carries, Active, ToldRight
  <1>. QED BY <1>1, <1>2, AloneFacts, LastFrom

LEMMA OneReplaced ==
  ASSUME NEW S, OnePerPR(S), NEW s PROVE OnePerPR(Replacing(S, s))
  BY DEF OnePerPR, Replacing, Newest

\* Replacing a review and leaving out those that were lost before come to the
\* same in either order: what was lost is older than all that remains, and
\* pushes nothing out.
LEMMA ReplacingAfterLoss ==
  ASSUME NEW S, NEW W, NEW s, s.at \in Nat, \A x \in S : x.at \in Nat, \A x \in W : x.at \in Nat,
         \A x \in W, y \in S \ W : x.at < y.at, \A x \in W : x.at < s.at
  PROVE  Replacing(S, s) \ W = Replacing(S \ W, s)
  <1>. DEFINE A == {t \in S : t.pr # s.pr} \cup {s}
              B == {t \in S \ W : t.pr # s.pr} \cup {s}
  <1>1. s \notin W /\ B = A \ W
    OBVIOUS
  <1>2. ASSUME NEW x \in B PROVE {y \in A : y.at > x.at} = {y \in B : y.at > x.at}
    <2>1. x.at \in Nat /\ \A w \in W : w.at < x.at
      BY <1>2
    <2>2. ASSUME NEW y \in A, y.at > x.at PROVE y \notin W
      BY <2>1, <2>2
    <2>. HIDE DEF A, B
    <2>. QED BY <1>1, <2>2
  <1>. HIDE DEF A, B
  <1>3. Newest(A, MaxStates) \ W = Newest(B, MaxStates)
    BY <1>1, <1>2 DEF Newest
  <1>. QED BY <1>3 DEF Replacing, A, B

\* Saving makes what a run has and what is remembered the same again.
LEMMA LastSaved ==
  ASSUME Inv, LastInv, ~overlapped, NEW r \in Runs, Active(r), pc[r] # "post", SaveDir(r), UNCHANGED wiped
  PROVE  saved'.states = ledger' \ wiped' /\ AfterLoss(saved.states)' /\ OnePerPR(ledger')
  <1>1. /\ saved.states = ledger \ wiped /\ AfterLoss(saved.states) /\ OnePerPR(ledger)
        /\ Carries(r) /\ CanBe(r)
    BY AloneFacts DEF Inv, Where
  <1>2. ledger' = Remembered(r)
    BY DEF SaveDir, Remembers, Remembered, Dry
  <1>3. OnePerPR(ledger')
    BY <1>1, <1>2, OneReplaced DEF Remembered
  <1>4. CASE Cmd(r) # "index" /\ dir[r].exists
    <2>1. saved' = dir[r]
      BY <1>4 DEF SaveDir, Cmd
    <2>2. dir[r].states = Remembered(r) \ wiped /\ AfterLoss(dir[r].states)
      BY <1>1, <1>4 DEF Carries
    <2>. QED BY <1>2, <1>3, <2>1, <2>2 DEF AfterLoss
  <1>5. CASE ~(Cmd(r) # "index" /\ dir[r].exists)
    <2>1. saved' = saved
      BY <1>5 DEF SaveDir, Cmd
    <2>2. told[r] = None \/ Dry(r)
      BY <1>1, <1>5 DEF CanBe
    <2>. QED BY <1>1, <1>2, <1>3, <2>1, <2>2 DEF Remembered, AfterLoss
  <1>. QED BY <1>4, <1>5

\* A run keeps the reviews it has while it compares nothing.
LEMMA LastKeeps ==
  ASSUME Inv, LastInv, NEW r \in Runs, Active(r), pc[r] # "post", Only(r),
         UNCHANGED <<saved, told, due, ledger, wiped, overlapped>>, dir'[r].states = dir[r].states,
         told[r] # None => diff'[r] = diff[r]
  PROVE  LastInv'
  <1>1. Cmd(r)' = Cmd(r) /\ Dry(r)' = Dry(r) /\ PR(r)' = PR(r)
    BY SameTask DEF Only
  <1>2. ASSUME ~overlapped PROVE Carries(r)' /\ ToldRight(r)'
    <2>1. Carries(r) /\ ToldRight(r)
      BY <1>2, AloneFacts
    <2>2. Remembered(r)' = Remembered(r)
      BY <1>1 DEF Remembered
    <2>3. Carries(r)'
      BY <1>1, <2>1, <2>2 DEF Carries, Active, AfterLoss
    <2>4. told[r] # None => Findings(r)' = Findings(r)
      BY DEF Findings, task, Only
    <2>5. ToldRight(r)'
      BY <2>1, <2>4 DEF ToldRight
    <2>. QED BY <2>3, <2>5
  <1>3. AfterLoss(saved.states)' = AfterLoss(saved.states)
    BY DEF AfterLoss
  <1>. QED BY <1>2, <1>3, AloneFacts, LastFrom

LEMMA LastStart == ASSUME Inv, LastInv, NEW r \in Runs, Start(r) PROVE LastInv'
  <1> USE DEF github, caches, copy, start, read, outcome, history
  <1>1. Only(r) /\ TypeInv /\ CanBe(r)
    BY StartStep DEF Inv, Where
  <1>2. /\ UNCHANGED <<plan, saved, told, due, ledger, wiped>> /\ pc[r] = "idle" /\ told[r] = None
        /\ overlapped' = (overlapped \/ \E q \in Runs : Active(q))
    BY <1>1 DEF Start, CanBe
  <1>3. Cmd(r) # "index" => dir'[r] = saved
    BY <1>1 DEF Start, Cmd, TypeInv
  <1>4. ~overlapped' => ~overlapped /\ \A x \in Runs : ~Active(x)
    BY <1>1, <1>2 DEF TypeInv
  <1>5. ASSUME ~overlapped'
        PROVE  /\ saved'.states = ledger' \ wiped' /\ AfterLoss(saved.states)' /\ OnePerPR(ledger')
               /\ ToldRight(r)' /\ Carries(r)'
    <2>1. /\ saved.states = ledger \ wiped /\ AfterLoss(saved.states) /\ OnePerPR(ledger)
          /\ Cmd(r)' = Cmd(r)
      BY <1>2, <1>4, <1>5, SameTask DEF LastInv
    <2>2. ToldRight(r)'
      BY <1>2 DEF ToldRight
    <2>3. Carries(r)'
      BY <1>2, <1>3, <2>1 DEF Carries, Remembered, AfterLoss
    <2>. QED BY <1>2, <2>1, <2>2, <2>3 DEF AfterLoss
  <1>. QED BY <1>1, <1>2, <1>4, <1>5, LastFrom

\* The review of a pull request that is owed is the one in the directory, or it
\* is lost and the directory has none.
LEMMA PriorAfterLoss ==
  ASSUME NEW S, OnePerPR(S), NEW W, NEW p
  PROVE  \/ Prior(S \ W, p) = Prior(S, p)
         \/ Prior(S, p) \in W /\ Prior(S \ W, p) = None
  <1>1. CASE \E s \in S \ W : s.pr = p
    <2>1. Prior(S, p) \in S /\ Prior(S, p).pr = p /\ Prior(S \ W, p) \in S \ W /\ Prior(S \ W, p).pr = p
      BY <1>1, PriorFacts
    <2>. QED BY <2>1 DEF OnePerPR
  <1>2. CASE ~\E s \in S \ W : s.pr = p
    <2>1. Prior(S \ W, p) = None
      BY <1>2, PriorFacts
    <2>2. CASE \E s \in S : s.pr = p
      BY <1>2, <2>1, <2>2, PriorFacts
    <2>3. CASE ~\E s \in S : s.pr = p
      BY <2>1, <2>3, PriorFacts
    <2>. QED BY <2>2, <2>3
  <1>. QED BY <1>1, <1>2

\* What a run compares with is what was saved last: it has compared nothing yet.
LEMMA LastCompare == ASSUME Inv, LastInv, NEW r \in Runs, Compare(r) PROVE LastInv'
  <1> USE DEF github, caches, copy, start, read, history
  <1>1. /\ Only(r) /\ TypeInv /\ TypeInv' /\ CanBe(r)
        /\ told'[r] = Delta(Prior(dir[r].states, PR(r)), Findings(r)) /\ due'[r] = Prior(ledger, PR(r))
        /\ Dry(r) => UNCHANGED dir
        /\ ~Dry(r) => /\ dir'[r].states = Replacing(dir[r].states, Prior(dir'[r].states, PR(r)))
                      /\ Prior(dir'[r].states, PR(r)).at = clock + 1
    BY CompareStep DEF Inv, Where
  <1>2. UNCHANGED <<plan, saved, ledger, wiped, overlapped, diff>> /\ pc[r] = "delta"
    BY DEF Compare
  <1>3. told[r] = None /\ Cmd(r) = "review" /\ Active(r)
    BY <1>1, <1>2 DEF CanBe, Active
  <1>4. Cmd(r)' = Cmd(r) /\ Dry(r)' = Dry(r) /\ PR(r)' = PR(r) /\ Findings(r)' = Findings(r)
    BY <1>2, SameTask DEF Findings, task
  <1>5. ASSUME ~overlapped PROVE ToldRight(r)' /\ Carries(r)'
    <2>1. dir[r].states = ledger \ wiped /\ AfterLoss(dir[r].states) /\ OnePerPR(ledger)
      BY <1>2, <1>3, <1>5, AloneFacts DEF Carries, Remembered
    <2>2. ToldRight(r)'
      <3>1. \/ Prior(dir[r].states, PR(r)) = Prior(ledger, PR(r))
            \/ Prior(ledger, PR(r)) \in wiped /\ Prior(dir[r].states, PR(r)) = None
        BY <2>1, PriorAfterLoss
      <3>. QED BY <1>1, <1>2, <1>4, <3>1 DEF ToldRight
    <2>3. CASE Dry(r)
      <3>1. dir'[r].states = ledger \ wiped /\ Remembered(r)' = ledger
        BY <1>1, <1>2, <1>4, <2>1, <2>3 DEF Remembered
      <3>. QED BY <1>1, <1>2, <2>1, <2>2, <2>3, <3>1 DEF Carries, AfterLoss
    <2>4. CASE ~Dry(r)
      <3>. DEFINE s == Prior(dir'[r].states, PR(r))
      <3>1. /\ clock \in Nat /\ \A x \in wiped : x.at \in Nat /\ x.at <= clock
            /\ \A x \in ledger : x.at \in Nat
        BY <1>1 DEF TypeInv, States
      <3>2. s.at = clock + 1 /\ dir'[r].states = Replacing(ledger \ wiped, s)
        BY <1>1, <2>1, <2>4
      <3>. HIDE DEF s
      <3>3. s.at \in Nat /\ \A x \in wiped : x.at < s.at
        BY <3>1, <3>2
      <3>4. \A x \in wiped, y \in ledger \ wiped : x.at < y.at
        BY <2>1 DEF AfterLoss
      <3>5. dir'[r].states = Replacing(ledger, s) \ wiped
        BY <3>1, <3>2, <3>3, <3>4, ReplacingAfterLoss
      <3>6. told'[r] # None
        <4>1. Findings(r) \in RowSets
          BY <1>1, <1>2, Constants DEF CanBe, TypeInv, Findings, Dry
        <4>2. dir[r].states \in SUBSET States
          BY <1>1 DEF TypeInv, Dirs
        <4>. QED BY <1>1, <4>1, <4>2, DeltaType, NoneIsNothing
      <3>7. Remembered(r)' = Replacing(ledger, s)
        BY <1>2, <1>4, <2>4, <3>6 DEF Remembered, s
      <3>8. AfterLoss(dir[r].states)'
        BY <1>2, <3>2, <3>3, <3>4, ReplacingFacts DEF AfterLoss
      <3>. QED BY <1>2, <2>2, <3>5, <3>7, <3>8 DEF Carries
    <2>. QED BY <2>3, <2>4
  <1>6. AfterLoss(saved.states)' = AfterLoss(saved.states)
    BY <1>2 DEF AfterLoss
  <1>. QED BY <1>1, <1>2, <1>3, <1>5, <1>6, AloneFacts, LastFrom

LEMMA LastNext == ASSUME Inv, LastInv, [Next]_vars PROVE LastInv'
  <1>. USE DEF github, caches, start, read, outcome, history
  <1>1. ASSUME NEW r \in Runs, Step(r) PROVE LastInv'
    <2>1. Only(r) /\ TypeInv /\ CanBe(r) /\ dir[r] \in Dirs
      BY <1>1, StepInv DEF Inv, Where, TypeInv
    <2>2. CASE LoadIndex(r) \/ BuildIndex(r) \/ ReadHead(r) \/ ReadDiff(r)
      <3>1. /\ Active(r) /\ pc[r] # "post" /\ UNCHANGED <<saved, told, due, ledger, wiped, overlapped>>
            /\ pc[r] \in {"load", "head", "diff"}
        BY <2>2 DEF LoadIndex, BuildIndex, ReadHead, ReadDiff, Active
      <3>2. UNCHANGED dir \/ Build(r, tree[r])
        BY <2>2 DEF LoadIndex, BuildIndex, ReadHead, ReadDiff, copy
      <3>3. tree[r] \in Commits
        BY <2>1 DEF TypeInv
      <3>4. dir'[r].states = dir[r].states
        BY <2>1, <3>2, <3>3, BuildFacts
      <3>5. told[r] = None
        BY <2>1, <3>1 DEF CanBe
      <3>. QED BY <2>1, <3>1, <3>4, <3>5, LastKeeps
    <2>3. ASSUME NEW topk \in {"fast", "deep"}, Retrieve(r, topk) PROVE LastInv'
      <3>1. Active(r) /\ pc[r] # "post" /\ UNCHANGED <<saved, told, due, ledger, wiped, overlapped, diff>>
        BY <2>3 DEF Retrieve, Active
      <3>2. dir'[r].states = dir[r].states
        BY <2>3, RetrieveStep
      <3>. QED BY <2>1, <3>1, <3>2, LastKeeps
    <2>4. CASE Save(r)
      <3>1. /\ Active(r) /\ pc[r] # "post" /\ SaveDir(r)
            /\ UNCHANGED <<plan, told, due, wiped, overlapped, diff>>
        BY <2>4 DEF Save, Active
      <3>2. pc'[r] = "post"
        BY <2>1, <2>4 DEF Save, Goto, TypeInv
      <3>3. Carries(r)'
        BY <3>2 DEF Carries
      <3>4. ToldRight(r) => ToldRight(r)'
        BY <3>1 DEF ToldRight, Findings, task
      <3>. QED BY <2>1, <3>1, <3>3, <3>4, AloneFacts, LastSaved, LastFrom
    <2>5. CASE PostIndex(r) \/ Lost(r)
      <3>1. Leave(r) /\ Active(r) /\ UNCHANGED <<plan, overlapped, saved, ledger, wiped>>
        BY <2>5 DEF PostIndex, Lost, Active
      <3>2. AfterLoss(saved.states)' = AfterLoss(saved.states)
        BY <3>1 DEF AfterLoss
      <3>. QED BY <3>1, <3>2, AloneFacts, LastEnds
    <2>6. CASE Stops(r)
      <3>1. Leave(r) /\ Active(r) /\ pc[r] # "post" /\ SaveDir(r) /\ UNCHANGED <<plan, overlapped, wiped>>
        BY <2>6 DEF Stops
      <3>. QED BY <3>1, LastSaved, LastEnds
    <2>7. CASE Torn(r)
      <3>1. Leave(r) /\ Active(r) /\ UNCHANGED <<plan, overlapped>> /\ wiped \subseteq wiped'
        BY <2>7 DEF Torn, Active
      <3>2. ASSUME ~overlapped
            PROVE  saved'.states = ledger' \ wiped' /\ AfterLoss(saved.states)' /\ OnePerPR(ledger')
        <4>1. Carries(r) /\ OnePerPR(ledger)
          BY <3>1, <3>2, AloneFacts
        <4>2. CASE /\ pc[r] = "delta" /\ saved' = [dir[r] EXCEPT !.exists = TRUE, !.states = {}]
                   /\ wiped' = wiped \cup dir[r].states /\ UNCHANGED ledger
          <5>1. saved'.states = {}
            BY <2>1, <4>2 DEF Dirs
          <5>2. told[r] = None /\ Cmd(r) # "index"
            BY <2>1, <4>2 DEF CanBe
          <5>3. dir[r].states = ledger \ wiped
            BY <3>1, <4>1, <4>2, <5>2 DEF Carries, Remembered
          <5>. QED BY <4>1, <4>2, <5>1, <5>3 DEF AfterLoss
        <4>3. CASE /\ pc[r] \in {"fast", "deep"} /\ Remembers(r) /\ UNCHANGED wiped
                   /\ saved' = [dir[r] EXCEPT !.exists = TRUE, !.snaps = {}]
          <5>1. saved'.states = dir[r].states
            BY <2>1, <4>3 DEF Dirs
          <5>2. Cmd(r) # "index" /\ pc[r] # "post"
            BY <2>1, <4>3 DEF CanBe
          <5>3. dir[r].states = Remembered(r) \ wiped /\ AfterLoss(dir[r].states)
            BY <3>1, <4>1, <5>2 DEF Carries
          <5>4. ledger' = Remembered(r)
            BY <4>3 DEF Remembers, Remembered, Dry
          <5>5. OnePerPR(ledger')
            BY <4>1, <5>4, OneReplaced DEF Remembered
          <5>. QED BY <4>3, <5>1, <5>3, <5>4, <5>5 DEF AfterLoss
        <4>. QED BY <2>7, <4>2, <4>3 DEF Torn
      <3>. QED BY <3>1, <3>2, LastEnds
    <2>. QED BY <1>1, <2>2, <2>3, <2>4, <2>5, <2>6, <2>7, LastStart, LastCompare DEF Step
  <1>2. CASE UNCHANGED vars \/ (\E b \in Branches : Push(b)) \/ \E p \in PRs : MoveBack(p)
    <2>1. UNCHANGED <<plan, saved, pc, dir, diff, told, due, ledger, wiped, overlapped>>
      BY <1>2 DEF vars, Push, MoveBack, copy
    <2>2. \A r \in Runs : Active(r)' = Active(r) /\ Carries(r)' = Carries(r) /\ ToldRight(r)' = ToldRight(r)
      BY <2>1, SameTask DEF Active, Carries, Remembered, AfterLoss, ToldRight, Findings, task
    <2>3. AfterLoss(saved.states)' = AfterLoss(saved.states)
      BY <2>1 DEF AfterLoss
    <2>. QED BY <2>1, <2>2, <2>3 DEF LastInv
  <1>3. CASE Expire
    <2>1. /\ UNCHANGED <<plan, pc, diff, told, due, ledger, overlapped>> /\ \A r \in Runs : ~Active(r)
          /\ saved'.states = {} /\ wiped' = wiped \cup saved.states
      BY <1>3 DEF Expire, NoDir
    <2>2. \A r \in Runs : ~Active(r)' /\ Carries(r)' /\ (ToldRight(r) => ToldRight(r)')
      BY <2>1 DEF Active, Carries, ToldRight, Findings, task
    <2>3. AfterLoss(saved.states)'
      BY <2>1 DEF AfterLoss
    <2>. QED BY <2>1, <2>2, <2>3 DEF LastInv
  <1>. QED BY <1>1, <1>2, <1>3 DEF Next

\* THEOREM ComparedWithTheLastOne: as long as runs do not overlap, a review is
\* compared with the last review of its pull request that was saved, or told as
\* the first one if that review was in a file cut short or in an expired cache,
\* whatever other commands, dry runs and cancellations came between
\* (compute_review_delta_and_store and the restore and save steps of the
\* workflow).
THEOREM ComparedWithTheLastOne == Spec => []ComparedWithTheLast
  <1>1. Init => LastInv
    BY DEF Init, LastInv, Active, Carries, NoDir, AfterLoss, OnePerPR, ToldRight
  <1>2. Inv /\ LastInv /\ [Next]_vars => LastInv'
    BY LastNext
  <1>3. LastInv => ComparedWithTheLast
    BY DEF LastInv, ComparedWithTheLast, ToldRight
  <1>. QED BY <1>1, <1>2, <1>3, Invariance, PTL DEF Spec

=============================================================================
