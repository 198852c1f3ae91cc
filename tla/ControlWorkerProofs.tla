------------------------ MODULE ControlWorkerProofs ------------------------
(***************************************************************************)
(* Proofs about ControlWorker, for every set of requests, repositories and *)
(* runs, every listing limit and every bound on the environment.           *)
(*                                                                         *)
(* The argument: comments are only appended, so whatever a run has read    *)
(* stays true (Grows).  The inductive invariant then says where the        *)
(* comments in a run's hands come from (FromTheThread), that the run's     *)
(* index is sound (SkippedOnlyWhenAnswered), that it remembers what the    *)
(* run itself answered (Remembers), and, when runs do not overlap and the  *)
(* whole thread was listed, that it is complete (IndexComplete).           *)
(*                                                                         *)
(* The ledger follows: a marker that stands in a thread was counted        *)
(* (Counted), so a request in hand was asked; a complete index that misses *)
(* it has seen no result for it, so the result that is posted is the       *)
(* first.  Every other step leaves the ledger alone.                       *)
(***************************************************************************)
EXTENDS ControlWorker, FiniteSetTheorems, TLAPS

Visiting(w) == pc[w] \in {"scan", "context", "invoke", "post"}

\* Markers and results stand in the repository of their request.
InPlace ==
  \A p \in Repos : \A i \in 1..Len(thread[p]) :
    thread[p][i].kind \in Verdicts \cup {"queue"} =>
      /\ thread[p][i].req \in Requests
      /\ RepoOf[thread[p][i].req] = p

Asked(r) == \E i \in 1..Len(thread[RepoOf[r]]) :
              thread[RepoOf[r]][i] = [kind |-> "queue", req |-> r]

\* What a run holds was asked in the repository it visits.
Sound(w) ==
  /\ Visiting(w) =>
       /\ repoIx[w] \in 1..Len(RepoOrder)
       /\ \A i \in 1..Len(snap[w]) :
            snap[w][i].kind = "queue" =>
              /\ snap[w][i].req \in Requests
              /\ RepoOf[snap[w][i].req] = CurrentRepo(w)
              /\ Asked(snap[w][i].req)
  /\ InHand(w) =>
       /\ work[w].req \in Requests
       /\ RepoOf[work[w].req] = CurrentRepo(w)
       /\ Asked(work[w].req)
       /\ work[w].req \notin done[w]
  /\ pc[w] = "post" => work[w].kind \in Verdicts

FromTheThread == \A w \in Workers : Sound(w)

\* What a run has answered is in its index while it stays in the repository,
\* and lies in a repository it has already visited.
Remembers ==
  \A w \in Workers :
    pc[w] # "idle" =>
      \A r \in acked[w] :
        \E k \in 1..Len(RepoOrder) :
          /\ RepoOf[r] = RepoOrder[k]
          /\ k <= repoIx[w]
          /\ pc[w] = "list" => k < repoIx[w]
          /\ k = repoIx[w] => r \in done[w]

\* While a lone run visits a repository it listed in full, its index has every
\* request that has an answer there, the ones with a lost confirmation aside.
IndexComplete ==
  OneRunAtATime =>
    \A w \in Workers :
      Visiting(w) /\ WholeThreadListed(CurrentRepo(w)) =>
        \A r \in Requests :
          RepoOf[r] = CurrentRepo(w) /\ Answered(r) => r \in done[w] \cup lost

Inv ==
  /\ TypeOK
  /\ InPlace
  /\ NoAnswerWithoutQuestion
  /\ SkippedOnlyWhenAnswered
  /\ FromTheThread
  /\ Remembers
  /\ IndexComplete
  /\ AnsweredAtMostOnce

-----------------------------------------------------------------------------
(* Type correctness                                                        *)

\* The listing is a sequence of the thread's comments, all of them when the
\* thread is short enough (list_recent_issue_comments).
LEMMA RecentFacts ==
  ASSUME NEW s \in Seq(Comment)
  PROVE  /\ Recent(s) \in Seq(Comment)
         /\ \A i \in 1..Len(Recent(s)) : \E j \in 1..Len(s) : Recent(s)[i] = s[j]
         /\ Len(s) <= Limit =>
              \A j \in 1..Len(s) : \E i \in 1..Len(Recent(s)) : Recent(s)[i] = s[j]
<1>1. Limit \in Nat \ {0}
  BY ControlWorkerAssumption DEF ControlWorkerAssumption
<1> DEFINE n == IF Len(s) < Limit THEN Len(s) ELSE Limit
<1>2. n \in Nat /\ n <= Len(s) /\ (Len(s) <= Limit => n = Len(s))
  BY <1>1
<1>3. Recent(s) = [i \in 1..n |-> s[Len(s) + 1 - i]]
  BY DEF Recent
<1> HIDE DEF n
<1>4. \A i \in 1..n : Len(s) + 1 - i \in 1..Len(s)
  BY <1>2
<1>5. Recent(s) \in Seq(Comment) /\ Len(Recent(s)) = n
  BY <1>2, <1>3, <1>4
<1>6. \A i \in 1..n : \E j \in 1..Len(s) : Recent(s)[i] = s[j]
  BY <1>3, <1>4
<1>7. ASSUME Len(s) <= Limit, NEW j \in 1..Len(s)
      PROVE  \E i \in 1..n : Recent(s)[i] = s[j]
  <2>1. Len(s) + 1 - j \in 1..n /\ Len(s) + 1 - (Len(s) + 1 - j) = j
    BY <1>2, <1>7
  <2>2. Recent(s)[Len(s) + 1 - j] = s[j]
    BY <2>1, <1>3
  <2> QED BY <2>1, <2>2
<1> QED BY <1>5, <1>6, <1>7

\* A posted comment becomes the last one of its thread; nothing else moves.
LEMMA SayFacts ==
  ASSUME thread \in [Repos -> Seq(Comment)], NEW p \in Repos, NEW c \in Comment, Say(p, c)
  PROVE  /\ thread' \in [Repos -> Seq(Comment)]
         /\ \A q \in Repos : q # p => thread'[q] = thread[q]
         /\ Len(thread'[p]) = Len(thread[p]) + 1
         /\ \A i \in 1..Len(thread[p]) : thread'[p][i] = thread[p][i]
         /\ thread'[p][Len(thread[p]) + 1] = c
<1>1. thread[p] \in Seq(Comment)
  OBVIOUS
<1>2. Append(thread[p], c) \in Seq(Comment)
  BY <1>1
<1>3. thread'[p] = Append(thread[p], c) /\ \A q \in Repos : q # p => thread'[q] = thread[q]
  BY DEF Say
<1>4. thread' \in [Repos -> Seq(Comment)]
  BY <1>2 DEF Say
<1> QED BY <1>1, <1>3, <1>4

LEMMA TypeInit == Init => TypeOK
<1> SUFFICES ASSUME Init PROVE TypeOK
  OBVIOUS
<1>1. Idle \in Comment
  BY DEF Idle, Comment, Kinds, Verdicts
<1> QED BY <1>1 DEF Init, TypeOK, Stages

\* Every action keeps the type of every variable.
LEMMA TypeStep == TypeOK /\ FromTheThread /\ [Next]_vars => TypeOK'
<1> SUFFICES ASSUME TypeOK, FromTheThread, [Next]_vars PROVE TypeOK'
  OBVIOUS
<1> USE DEF TypeOK, queueVars, runVars, Goto
<1>q. \A k \in Kinds, r \in Requests \cup {NoRequest} : [kind |-> k, req |-> r] \in Comment
  BY DEF Comment
<1>1. ASSUME NEW r \in Requests, Enqueue(r) PROVE TypeOK'
  <2>1. RepoOf[r] \in Repos
    BY ControlWorkerAssumption DEF ControlWorkerAssumption
  <2>2. thread' \in [Repos -> Seq(Comment)]
    BY <1>1, <1>q, <2>1, SayFacts DEF Enqueue, Kinds
  <2>3. enqueued' \in [Requests -> Nat]
    BY <1>1 DEF Enqueue
  <2> QED BY <1>1, <2>2, <2>3 DEF Enqueue
<1>2. ASSUME NEW p \in Repos, Chatter(p) PROVE TypeOK'
  <2>1. \A k \in {"other", "inert"} : [kind |-> k, req |-> NoRequest] \in Comment
    BY <1>q DEF Kinds
  <2> QED BY <1>2, <2>1, SayFacts DEF Chatter
<1>3. ASSUME NEW w \in Workers, StartRun(w) PROVE TypeOK'
  BY <1>3, ControlWorkerAssumption DEF StartRun, Stages
<1>4. ASSUME NEW w \in Workers, ListComments(w) PROVE TypeOK'
  <2>1. CurrentRepo(w) \in Repos
    BY <1>4, ControlWorkerAssumption DEF ListComments, CurrentRepo
  <2>2. Recent(thread[CurrentRepo(w)]) \in Seq(Comment)
    BY <2>1, RecentFacts
  <2> QED BY <1>4, <2>2 DEF ListComments, Stages
<1>5. ASSUME NEW w \in Workers, Scan(w) PROVE TypeOK'
  <2>1. Head(snap[w]) \in Comment /\ Tail(snap[w]) \in Seq(Comment)
    BY <1>5 DEF Scan
  <2>2. snap' \in [Workers -> Seq(Comment)]
    BY <1>5, <2>1 DEF Scan
  <2>3. seen' \in [Workers -> Nat]
    BY <1>5 DEF Scan
  <2>4. pc' \in [Workers -> Stages] /\ work' \in [Workers -> Comment]
    BY <1>5, <2>1 DEF Scan, Stages
  <2> QED BY <1>5, <2>2, <2>3, <2>4 DEF Scan
<1>6. ASSUME NEW w \in Workers, LeaveRepo(w) \/ EndRun(w) PROVE TypeOK'
  <2>1. repoIx' \in [Workers -> Nat \ {0}]
    BY <1>6 DEF LeaveRepo, EndRun
  <2>2. pc' \in [Workers -> Stages]
    BY <1>6 DEF LeaveRepo, EndRun, Stages
  <2> QED BY <1>6, <2>1, <2>2 DEF LeaveRepo, EndRun
<1>7. ASSUME NEW w \in Workers, FetchContext(w) \/ ContextDenied(w) PROVE TypeOK'
  BY <1>7 DEF FetchContext, ContextDenied, Stages
<1>8. ASSUME NEW w \in Workers, InvokeSucceeds(w) \/ InvokeFails(w) PROVE TypeOK'
  <2>1. work' \in [Workers -> Comment]
    <3>1. \A k \in Verdicts : [work[w] EXCEPT !.kind = k] \in Comment
      BY DEF Comment, Kinds
    <3>2. \E k \in Verdicts : work' = [work EXCEPT ![w] = [work[w] EXCEPT !.kind = k]]
      BY <1>8 DEF InvokeSucceeds, InvokeFails, Verdicts
    <3> QED BY <3>1, <3>2
  <2>2. pc' \in [Workers -> Stages]
    BY <1>8 DEF InvokeSucceeds, InvokeFails, Stages
  <2> QED BY <1>8, <2>1, <2>2 DEF InvokeSucceeds, InvokeFails
<1>9. ASSUME NEW w \in Workers, Post(w) PROVE TypeOK'
  <2>1. work[w].req \in Requests /\ work[w] \in Comment
    BY <1>9 DEF Post, PostAcknowledged, PostAnswerLost, PostRefused, FromTheThread, Sound, InHand
  <2>2. pc' \in [Workers -> Stages]
    BY <1>9 DEF Post, PostAcknowledged, PostAnswerLost, PostRefused, Stages
  <2>3. thread' \in [Repos -> Seq(Comment)]
    <3>1. CurrentRepo(w) \in Repos
      BY <1>9, ControlWorkerAssumption
         DEF Post, PostAcknowledged, PostAnswerLost, PostRefused, FromTheThread, Sound, Visiting,
             CurrentRepo, ControlWorkerAssumption
    <3>2. Say(CurrentRepo(w), work[w]) \/ thread' = thread
      BY <1>9 DEF Post, PostAcknowledged, PostAnswerLost, PostRefused
    <3> QED BY <2>1, <3>1, <3>2, SayFacts
  <2>4. faults' \in Nat /\ lost' \in SUBSET Requests
    BY <1>9, <2>1 DEF Post, PostAcknowledged, PostAnswerLost, PostRefused, Fault
  <2>5. done' \in [Workers -> SUBSET Requests]
    <3>1. done[w] \cup {work[w].req} \in SUBSET Requests
      BY <2>1
    <3> QED BY <1>9, <3>1 DEF Post, PostAcknowledged, PostAnswerLost, PostRefused
  <2>7. acked' \in [Workers -> SUBSET Requests]
    <3>1. acked[w] \cup {work[w].req} \in SUBSET Requests
      BY <2>1
    <3> QED BY <1>9, <3>1 DEF Post, PostAcknowledged, PostAnswerLost, PostRefused
  <2>6. UNCHANGED <<enqueued, noise, dry, repoIx, snap, seen, work>>
    BY <1>9 DEF Post, PostAcknowledged, PostAnswerLost, PostRefused
  <2> QED BY <2>2, <2>3, <2>4, <2>5, <2>6, <2>7
<1>10. ASSUME NEW w \in Workers, Abort(w) PROVE TypeOK'
  BY <1>10 DEF Abort, Fault, Stages
<1>11. CASE UNCHANGED vars
  BY <1>11 DEF vars
<1> QED
  BY <1>1, <1>2, <1>3, <1>4, <1>5, <1>6, <1>7, <1>8, <1>9, <1>10, <1>11 DEF Next, RunStep

-----------------------------------------------------------------------------
(* What a step does to the comments                                        *)

Grows ==
  \A p \in Repos :
    /\ Len(thread[p]) <= Len(thread'[p])
    /\ \A i \in 1..Len(thread[p]) : thread'[p][i] = thread[p][i]

\* A comment posted by a user or by the Action: never a result.
UserComment(p, c) ==
  /\ c \in Comment
  /\ c.kind \notin Verdicts
  /\ c.kind = "queue" => c.req \in Requests /\ RepoOf[c.req] = p
  /\ Say(p, c)

\* A step posts nothing, a comment of a user, or the result a run has in hand.
LEMMA PostedFacts ==
  ASSUME TypeOK, FromTheThread, [Next]_vars
  PROVE  \/ thread' = thread
         \/ UNCHANGED <<runVars, lost>> /\ \E p \in Repos : \E c : UserComment(p, c)
         \/ \E w \in Workers : PostAcknowledged(w) \/ PostAnswerLost(w)
<1>1. ASSUME NEW r \in Requests, Enqueue(r)
      PROVE  UNCHANGED <<runVars, lost>> /\ \E p \in Repos : \E c : UserComment(p, c)
  <2>1. RepoOf[r] \in Repos
    BY ControlWorkerAssumption DEF ControlWorkerAssumption
  <2>2. UserComment(RepoOf[r], [kind |-> "queue", req |-> r])
    BY <1>1 DEF UserComment, Enqueue, Comment, Kinds, Verdicts
  <2> QED BY <1>1, <2>1, <2>2 DEF Enqueue
<1>2. ASSUME NEW p \in Repos, Chatter(p)
      PROVE  UNCHANGED <<runVars, lost>> /\ \E q \in Repos : \E c : UserComment(q, c)
  <2>1. PICK k \in {"other", "inert"} : Say(p, [kind |-> k, req |-> NoRequest])
    BY <1>2 DEF Chatter
  <2>2. UserComment(p, [kind |-> k, req |-> NoRequest])
    BY <2>1 DEF UserComment, Comment, Kinds, Verdicts
  <2> QED BY <1>2, <2>2 DEF Chatter
<1>3. ASSUME NEW w \in Workers, RunStep(w), ~PostAcknowledged(w), ~PostAnswerLost(w)
      PROVE  thread' = thread
  BY <1>3 DEF RunStep, StartRun, ListComments, Scan, LeaveRepo, EndRun, FetchContext,
              ContextDenied, InvokeSucceeds, InvokeFails, Post, PostRefused, Abort, queueVars
<1>4. CASE UNCHANGED vars
  BY <1>4 DEF vars, queueVars
<1> QED BY <1>1, <1>2, <1>3, <1>4 DEF Next

\* The post of a run goes to the repository that asked.
LEMMA ResultFacts ==
  ASSUME TypeOK, FromTheThread, NEW w \in Workers, PostAcknowledged(w) \/ PostAnswerLost(w)
  PROVE  /\ work[w] \in Comment /\ work[w].kind \in Verdicts /\ work[w].req \in Requests
         /\ CurrentRepo(w) \in Repos /\ RepoOf[work[w].req] = CurrentRepo(w)
         /\ Asked(work[w].req) /\ work[w].req \notin done[w]
         /\ Visiting(w)
         /\ Say(CurrentRepo(w), work[w])
<1>1. pc[w] = "post" /\ Say(CurrentRepo(w), work[w])
  BY DEF PostAcknowledged, PostAnswerLost
<1>2. Visiting(w) /\ InHand(w)
  BY <1>1 DEF Visiting, InHand
<1>3. work[w] \in Comment
  BY DEF TypeOK
<1>4. RepoOf \in [Requests -> Repos]
  BY ControlWorkerAssumption DEF ControlWorkerAssumption
<1> QED BY <1>1, <1>2, <1>3, <1>4 DEF FromTheThread, Sound

LEMMA ThreadsGrow ==
  ASSUME TypeOK, FromTheThread, [Next]_vars
  PROVE  Grows
<1>1. thread \in [Repos -> Seq(Comment)]
  BY DEF TypeOK
<1>2. ASSUME NEW p \in Repos, NEW c \in Comment, Say(p, c) PROVE Grows
  <2>1. ASSUME NEW q \in Repos, q # p PROVE thread'[q] = thread[q]
    BY <1>1, <1>2, <2>1, SayFacts
  <2>2. /\ Len(thread'[p]) = Len(thread[p]) + 1
        /\ \A i \in 1..Len(thread[p]) : thread'[p][i] = thread[p][i]
    BY <1>1, <1>2, SayFacts
  <2>3. \A q \in Repos : Len(thread[q]) \in Nat
    BY <1>1
  <2> QED BY <2>1, <2>2, <2>3 DEF Grows
<1>3. CASE thread' = thread
  BY <1>1, <1>3 DEF Grows
<1>4. CASE \E p \in Repos : \E c : UserComment(p, c)
  BY <1>4, <1>2 DEF UserComment
<1>5. ASSUME NEW w \in Workers, PostAcknowledged(w) \/ PostAnswerLost(w) PROVE Grows
  BY <1>5, <1>2, ResultFacts
<1> QED BY <1>3, <1>4, <1>5, PostedFacts

\* What a run has read stays true.
LEMMA Stable ==
  ASSUME TypeOK, TypeOK', Grows, NEW r \in Requests
  PROVE  /\ Answered(r) => Answered(r)'
         /\ Asked(r) => Asked(r)'
<1>1. RepoOf[r] \in Repos
  BY ControlWorkerAssumption DEF ControlWorkerAssumption
<1>2. /\ Len(thread[RepoOf[r]]) \in Nat /\ Len(thread'[RepoOf[r]]) \in Nat
      /\ Len(thread[RepoOf[r]]) <= Len(thread'[RepoOf[r]])
      /\ \A i \in 1..Len(thread[RepoOf[r]]) : thread'[RepoOf[r]][i] = thread[RepoOf[r]][i]
  BY <1>1 DEF TypeOK, Grows
<1>3. \A i \in 1..Len(thread[RepoOf[r]]) : i \in 1..Len(thread'[RepoOf[r]])
  BY <1>2
<1>4. Asked(r) => Asked(r)'
  BY <1>2, <1>3 DEF Asked
<1>5. ResultsFor(thread[RepoOf[r]], r) \subseteq ResultsFor(thread'[RepoOf[r]], r)
  BY <1>2, <1>3 DEF ResultsFor, IsResult
<1> QED BY <1>4, <1>5 DEF Answered

\* Only the result in hand adds an answer, and it adds one to its own request.
LEMMA NewAnswer ==
  ASSUME TypeOK, TypeOK', FromTheThread, [Next]_vars, NEW r \in Requests,
         ~ \E w \in Workers : (PostAcknowledged(w) \/ PostAnswerLost(w)) /\ work[w].req = r
  PROVE  ResultsFor(thread'[RepoOf[r]], r) = ResultsFor(thread[RepoOf[r]], r)
<1>1. RepoOf[r] \in Repos /\ thread \in [Repos -> Seq(Comment)]
  BY ControlWorkerAssumption DEF ControlWorkerAssumption, TypeOK
<1>2. ASSUME NEW p \in Repos, NEW c \in Comment, Say(p, c), ~IsResult(c, r)
      PROVE  ResultsFor(thread'[RepoOf[r]], r) = ResultsFor(thread[RepoOf[r]], r)
  <2>1. CASE p # RepoOf[r]
    BY <1>1, <1>2, <2>1, SayFacts
  <2>2. CASE p = RepoOf[r]
    <3> DEFINE t == thread[RepoOf[r]]
               u == thread'[RepoOf[r]]
    <3>1. /\ Len(t) \in Nat /\ Len(u) = Len(t) + 1
          /\ \A i \in 1..Len(t) : u[i] = t[i]
          /\ u[Len(t) + 1] = c
      BY <1>1, <1>2, <2>2, SayFacts
    <3>2. \A i \in 1..Len(u) : i \in 1..Len(t) \/ i = Len(t) + 1
      BY <3>1
    <3>3. 1..Len(t) \subseteq 1..Len(u)
      BY <3>1
    <3> HIDE DEF t, u
    <3>4. ResultsFor(u, r) = ResultsFor(t, r)
      BY <1>2, <3>1, <3>2, <3>3 DEF ResultsFor, IsResult
    <3> QED BY <3>4 DEF t, u
  <2> QED BY <2>1, <2>2
<1>3. CASE thread' = thread
  BY <1>3
<1>4. CASE \E p \in Repos : \E c : UserComment(p, c)
  BY <1>4, <1>2 DEF UserComment, IsResult
<1>5. ASSUME NEW w \in Workers, PostAcknowledged(w) \/ PostAnswerLost(w)
      PROVE  ResultsFor(thread'[RepoOf[r]], r) = ResultsFor(thread[RepoOf[r]], r)
  <2>1. work[w].req # r
    BY <1>5
  <2> QED BY <1>5, <1>2, <2>1, ResultFacts DEF IsResult
<1> QED BY <1>3, <1>4, <1>5, PostedFacts

-----------------------------------------------------------------------------
(* The conjuncts of the invariant, one lemma each                          *)

LEMMA InPlaceStep ==
  ASSUME TypeOK, InPlace, FromTheThread, [Next]_vars
  PROVE  InPlace'
<1>1. thread \in [Repos -> Seq(Comment)]
  BY DEF TypeOK
<1>2. ASSUME NEW p \in Repos, NEW c \in Comment, Say(p, c),
             c.kind \in Verdicts \cup {"queue"} => c.req \in Requests /\ RepoOf[c.req] = p
      PROVE  InPlace'
  <2>1. ASSUME NEW q \in Repos, NEW i \in 1..Len(thread'[q]),
               thread'[q][i].kind \in Verdicts \cup {"queue"}
        PROVE  thread'[q][i].req \in Requests /\ RepoOf[thread'[q][i].req] = q
    <3>1. CASE q # p
      BY <1>1, <1>2, <2>1, <3>1, SayFacts DEF InPlace
    <3>2. CASE q = p
      <4>1. /\ Len(thread[p]) \in Nat /\ Len(thread'[p]) = Len(thread[p]) + 1
            /\ \A k \in 1..Len(thread[p]) : thread'[p][k] = thread[p][k]
            /\ thread'[p][Len(thread[p]) + 1] = c
        BY <1>1, <1>2, SayFacts
      <4>2. i \in 1..Len(thread[p]) \/ i = Len(thread[p]) + 1
        BY <3>2, <4>1
      <4> QED BY <1>2, <2>1, <3>2, <4>1, <4>2 DEF InPlace
    <3> QED BY <3>1, <3>2
  <2> QED BY <2>1 DEF InPlace
<1>3. CASE thread' = thread
  BY <1>3 DEF InPlace
<1>4. CASE \E p \in Repos : \E c : UserComment(p, c)
  <2>1. PICK p \in Repos : \E c : UserComment(p, c)
    BY <1>4
  <2>2. PICK c : UserComment(p, c)
    BY <2>1
  <2> QED BY <1>2, <2>2 DEF UserComment
<1>5. ASSUME NEW w \in Workers, PostAcknowledged(w) \/ PostAnswerLost(w) PROVE InPlace'
  BY <1>5, <1>2, ResultFacts
<1> QED BY <1>3, <1>4, <1>5, PostedFacts

LEMMA QuestionStep ==
  ASSUME TypeOK, NoAnswerWithoutQuestion, FromTheThread, [Next]_vars
  PROVE  NoAnswerWithoutQuestion'
<1>1. thread \in [Repos -> Seq(Comment)]
  BY DEF TypeOK
<1>2. ASSUME NEW p \in Repos, NEW c \in Comment, Say(p, c),
             c.kind \in Verdicts =>
               \E j \in 1..Len(thread[p]) : thread[p][j] = [kind |-> "queue", req |-> c.req]
      PROVE  NoAnswerWithoutQuestion'
  <2>1. ASSUME NEW q \in Repos, NEW i \in 1..Len(thread'[q]), thread'[q][i].kind \in Verdicts
        PROVE  \E j \in 1..(i - 1) :
                 thread'[q][j] = [kind |-> "queue", req |-> thread'[q][i].req]
    <3>1. CASE q # p
      BY <1>1, <1>2, <2>1, <3>1, SayFacts DEF NoAnswerWithoutQuestion
    <3>2. CASE q = p
      <4>1. /\ Len(thread[p]) \in Nat /\ Len(thread'[p]) = Len(thread[p]) + 1
            /\ \A k \in 1..Len(thread[p]) : thread'[p][k] = thread[p][k]
            /\ thread'[p][Len(thread[p]) + 1] = c
        BY <1>1, <1>2, SayFacts
      <4>2. CASE i \in 1..Len(thread[p])
        <5>1. thread[p][i].kind \in Verdicts
          BY <2>1, <3>2, <4>1, <4>2
        <5>2. PICK j \in 1..(i - 1) :
                thread[p][j] = [kind |-> "queue", req |-> thread[p][i].req]
          BY <5>1, <4>2 DEF NoAnswerWithoutQuestion
        <5>3. j \in 1..Len(thread[p])
          BY <4>1, <4>2
        <5> QED BY <3>2, <4>1, <4>2, <5>2, <5>3
      <4>3. CASE i = Len(thread[p]) + 1
        <5>1. c.kind \in Verdicts
          BY <2>1, <3>2, <4>1, <4>3
        <5>2. PICK j \in 1..Len(thread[p]) :
                thread[p][j] = [kind |-> "queue", req |-> c.req]
          BY <5>1, <1>2
        <5>3. j \in 1..(i - 1)
          BY <4>1, <4>3
        <5> QED BY <3>2, <4>1, <4>3, <5>2, <5>3
      <4> QED BY <3>2, <4>1, <4>2, <4>3
    <3> QED BY <3>1, <3>2
  <2> QED BY <2>1 DEF NoAnswerWithoutQuestion
<1>3. CASE thread' = thread
  BY <1>3 DEF NoAnswerWithoutQuestion
<1>4. CASE \E p \in Repos : \E c : UserComment(p, c)
  <2>1. PICK p \in Repos : \E c : UserComment(p, c)
    BY <1>4
  <2>2. PICK c : UserComment(p, c)
    BY <2>1
  <2> QED BY <1>2, <2>2 DEF UserComment
<1>5. ASSUME NEW w \in Workers, PostAcknowledged(w) \/ PostAnswerLost(w)
      PROVE  NoAnswerWithoutQuestion'
  <2>1. \E j \in 1..Len(thread[CurrentRepo(w)]) :
          thread[CurrentRepo(w)][j] = [kind |-> "queue", req |-> work[w].req]
    BY <1>5, ResultFacts DEF Asked
  <2>2. CurrentRepo(w) \in Repos /\ work[w] \in Comment /\ Say(CurrentRepo(w), work[w])
    BY <1>5, ResultFacts
  <2> QED BY <1>2, <2>1, <2>2
<1> QED BY <1>3, <1>4, <1>5, PostedFacts

\* A step that is not a step of run v leaves its local variables alone.
Unmoved(v) ==
  /\ pc'[v] = pc[v] /\ repoIx'[v] = repoIx[v] /\ snap'[v] = snap[v]
  /\ done'[v] = done[v] /\ work'[v] = work[v] /\ acked'[v] = acked[v]

LEMMA OwnStep ==
  ASSUME TypeOK, [Next]_vars, NEW v \in Workers
  PROVE  RunStep(v) \/ Unmoved(v)
<1>1. ASSUME NEW w \in Workers, RunStep(w), w # v PROVE Unmoved(v)
  <2> USE <1>1 DEF Unmoved, TypeOK, Goto
  <2>1. CASE StartRun(w) \/ ListComments(w) \/ Scan(w)
    BY <2>1 DEF StartRun, ListComments, Scan
  <2>2. CASE LeaveRepo(w) \/ EndRun(w) \/ FetchContext(w) \/ ContextDenied(w)
    BY <2>2 DEF LeaveRepo, EndRun, FetchContext, ContextDenied
  <2>3. CASE InvokeSucceeds(w) \/ InvokeFails(w) \/ Abort(w)
    BY <2>3 DEF InvokeSucceeds, InvokeFails, Abort
  <2>4. CASE Post(w)
    BY <2>4 DEF Post, PostAcknowledged, PostAnswerLost, PostRefused
  <2> QED BY <2>1, <2>2, <2>3, <2>4 DEF RunStep
<1>2. CASE \E r \in Requests : Enqueue(r)
  BY <1>2 DEF Enqueue, runVars, Unmoved
<1>3. CASE \E p \in Repos : Chatter(p)
  BY <1>3 DEF Chatter, runVars, Unmoved
<1>4. CASE UNCHANGED vars
  BY <1>4 DEF vars, runVars, Unmoved
<1> QED BY <1>1, <1>2, <1>3, <1>4 DEF Next

\* The listing holds only comments of the repository it was asked for.
LEMMA ListedFacts ==
  ASSUME TypeOK, InPlace, NEW w \in Workers, ListComments(w)
  PROVE  /\ CurrentRepo(w) \in Repos /\ thread' = thread
         /\ repoIx[w] \in 1..Len(RepoOrder) /\ repoIx'[w] = repoIx[w]
         /\ pc[w] = "list" /\ pc'[w] = "scan" /\ acked'[w] = acked[w]
         /\ snap'[w] = Recent(thread[CurrentRepo(w)])
         /\ done'[w] = {r \in Requests : ResultsFor(Recent(thread[CurrentRepo(w)]), r) # {}}
<1>1. repoIx[w] \in 1..Len(RepoOrder)
  BY ControlWorkerAssumption DEF ControlWorkerAssumption, ListComments, TypeOK
<1>2. CurrentRepo(w) \in Repos
  BY <1>1, ControlWorkerAssumption DEF ControlWorkerAssumption, CurrentRepo
<1> QED BY <1>1, <1>2 DEF ListComments, TypeOK, queueVars, Goto

LEMMA SkippedStep ==
  ASSUME TypeOK, TypeOK', InPlace, FromTheThread, SkippedOnlyWhenAnswered, [Next]_vars
  PROVE  SkippedOnlyWhenAnswered'
<1> SUFFICES ASSUME NEW v \in Workers, NEW r \in done'[v]
             PROVE  Answered(r)'
  BY DEF SkippedOnlyWhenAnswered
<1>0. r \in Requests
  BY DEF TypeOK
<1>1. CASE r \in done[v]
  BY <1>0, <1>1, ThreadsGrow, Stable DEF SkippedOnlyWhenAnswered
<1>2. CASE ListComments(v)
  <2>1. PICK i \in 1..Len(Recent(thread[CurrentRepo(v)])) :
          IsResult(Recent(thread[CurrentRepo(v)])[i], r)
    BY <1>2, ListedFacts DEF ResultsFor
  <2>2. thread[CurrentRepo(v)] \in Seq(Comment)
    BY <1>2, ListedFacts DEF TypeOK
  <2>3. PICK j \in 1..Len(thread[CurrentRepo(v)]) : IsResult(thread[CurrentRepo(v)][j], r)
    BY <2>1, <2>2, RecentFacts
  <2>4. RepoOf[r] = CurrentRepo(v)
    BY <1>2, <2>3, ListedFacts DEF InPlace, IsResult
  <2>5. thread' = thread
    BY <1>2, ListedFacts
  <2> QED BY <2>3, <2>4, <2>5 DEF Answered, ResultsFor
<1>3. CASE PostAcknowledged(v) /\ r = work[v].req
  <2>1. /\ work[v] \in Comment /\ CurrentRepo(v) \in Repos
        /\ Say(CurrentRepo(v), work[v]) /\ RepoOf[r] = CurrentRepo(v)
        /\ work[v].kind \in Verdicts
    BY <1>3, ResultFacts
  <2>2. /\ Len(thread[RepoOf[r]]) \in Nat
        /\ Len(thread'[RepoOf[r]]) = Len(thread[RepoOf[r]]) + 1
        /\ thread'[RepoOf[r]][Len(thread[RepoOf[r]]) + 1] = work[v]
    BY <2>1, SayFacts DEF TypeOK
  <2>3. Len(thread[RepoOf[r]]) + 1 \in ResultsFor(thread'[RepoOf[r]], r)
    BY <1>3, <2>1, <2>2 DEF ResultsFor, IsResult
  <2> QED BY <2>3 DEF Answered
<1>4. CASE r \notin done[v] /\ ~ListComments(v)
  <2>1. RunStep(v)
    BY <1>4, OwnStep DEF Unmoved
  <2>2. PostAcknowledged(v)
    BY <1>4, <2>1 DEF RunStep, StartRun, Scan, LeaveRepo, EndRun, FetchContext, ContextDenied,
                      InvokeSucceeds, InvokeFails, Post, PostAnswerLost, PostRefused, Abort
  <2>3. r = work[v].req
    BY <1>4, <2>2 DEF PostAcknowledged, TypeOK
  <2> QED BY <1>3, <2>2, <2>3
<1> QED BY <1>1, <1>2, <1>4

LEMMA FromTheThreadStep ==
  ASSUME TypeOK, TypeOK', InPlace, FromTheThread, [Next]_vars
  PROVE  FromTheThread'
<1> SUFFICES ASSUME NEW v \in Workers PROVE Sound(v)'
  BY DEF FromTheThread
<1> USE DEF Visiting, InHand
<1>a. \A r \in Requests : Asked(r) => Asked(r)'
  BY ThreadsGrow, Stable
<1>b. repoIx'[v] = repoIx[v] => CurrentRepo(v)' = CurrentRepo(v)
  BY DEF CurrentRepo
<1>c. ASSUME repoIx'[v] = repoIx[v], Visiting(v), snap'[v] = snap[v]
      PROVE  \A i \in 1..Len(snap'[v]) :
               snap'[v][i].kind = "queue" =>
                 /\ snap'[v][i].req \in Requests
                 /\ RepoOf[snap'[v][i].req] = CurrentRepo(v)'
                 /\ Asked(snap[v][i].req)'
  BY <1>a, <1>b, <1>c DEF FromTheThread, Sound
<1>1. CASE Unmoved(v)
  BY <1>1, <1>a, <1>b DEF Unmoved, FromTheThread, Sound
<1>2. CASE StartRun(v) \/ LeaveRepo(v) \/ EndRun(v) \/ ContextDenied(v) \/ Abort(v)
  <2>1. pc'[v] \in {"idle", "list"}
    BY <1>2 DEF StartRun, LeaveRepo, EndRun, ContextDenied, Abort, Goto, TypeOK
  <2> QED BY <2>1 DEF Sound
<1>3. CASE ListComments(v)
  <2>1. thread[CurrentRepo(v)] \in Seq(Comment)
    BY <1>3, ListedFacts DEF TypeOK
  <2>2. CurrentRepo(v)' = CurrentRepo(v)
    BY <1>3, <1>b, ListedFacts
  <2>3. ASSUME NEW i \in 1..Len(snap'[v]), snap'[v][i].kind = "queue"
        PROVE  /\ snap'[v][i].req \in Requests
               /\ RepoOf[snap'[v][i].req] = CurrentRepo(v)
               /\ Asked(snap[v][i].req)'
    <3>0. PICK c : c = snap'[v][i]
      OBVIOUS
    <3>1. PICK j \in 1..Len(thread[CurrentRepo(v)]) : c = thread[CurrentRepo(v)][j]
      <4>1. snap'[v] = Recent(thread[CurrentRepo(v)])
        BY <1>3, ListedFacts
      <4>2. \A k \in 1..Len(Recent(thread[CurrentRepo(v)])) :
              \E j \in 1..Len(thread[CurrentRepo(v)]) :
                Recent(thread[CurrentRepo(v)])[k] = thread[CurrentRepo(v)][j]
        BY <2>1, RecentFacts
      <4> QED BY <2>3, <3>0, <4>1, <4>2
    <3>2. c \in Comment
      BY <2>1, <3>1
    <3>3. c = [kind |-> "queue", req |-> c.req]
      BY <2>3, <3>0, <3>2 DEF Comment
    <3>4. c.req \in Requests /\ RepoOf[c.req] = CurrentRepo(v)
      BY <1>3, <2>3, <3>0, <3>1, ListedFacts DEF InPlace
    <3>5. Asked(c.req)
      BY <3>1, <3>3, <3>4 DEF Asked
    <3>6. Asked(c.req)'
      BY <1>a, <3>4, <3>5
    <3>7. Asked(snap[v][i].req)'
      BY <3>0, <3>6 DEF Asked
    <3> QED BY <3>0, <3>4, <3>7
  <2>4. pc'[v] = "scan" /\ repoIx'[v] \in 1..Len(RepoOrder)
    BY <1>3, ListedFacts
  <2> QED BY <2>2, <2>3, <2>4 DEF Sound
<1>4. CASE Scan(v)
  <2>1. /\ pc[v] = "scan" /\ snap[v] # <<>> /\ snap'[v] = Tail(snap[v])
        /\ repoIx'[v] = repoIx[v] /\ done'[v] = done[v]
        /\ \/ pc'[v] = "scan"
           \/ /\ pc'[v] = "context" /\ work'[v] = Head(snap[v])
              /\ work'[v].kind = "queue" /\ work'[v].req \notin done[v]
    BY <1>4 DEF Scan, Goto, TypeOK
  <2>2. snap[v] \in Seq(Comment)
    BY DEF TypeOK
  <2>3. /\ Head(snap[v]) = snap[v][1] /\ 1 \in 1..Len(snap[v])
        /\ \A i \in 1..Len(snap'[v]) : i + 1 \in 1..Len(snap[v]) /\ snap'[v][i] = snap[v][i + 1]
    BY <2>1, <2>2
  <2>4. CurrentRepo(v)' = CurrentRepo(v)
    BY <1>b, <2>1
  <2>5. ASSUME NEW c, NEW i \in 1..Len(snap[v]), c = snap[v][i], c.kind = "queue"
        PROVE  c.req \in Requests /\ RepoOf[c.req] = CurrentRepo(v) /\ Asked(c.req)
    BY <2>1, <2>5 DEF FromTheThread, Sound
  <2>6. repoIx'[v] \in 1..Len(RepoOrder)
    BY <2>1 DEF FromTheThread, Sound
  <2>7. ASSUME NEW i \in 1..Len(snap'[v]), snap'[v][i].kind = "queue"
        PROVE  /\ snap'[v][i].req \in Requests
               /\ RepoOf[snap'[v][i].req] = CurrentRepo(v)
               /\ Asked(snap[v][i].req)'
    <3>0. PICK c : c = snap'[v][i]
      OBVIOUS
    <3>1. c.req \in Requests /\ RepoOf[c.req] = CurrentRepo(v) /\ Asked(c.req)
      BY <2>3, <2>5, <2>7, <3>0
    <3>2. Asked(c.req)'
      BY <1>a, <3>1
    <3>3. Asked(snap[v][i].req)'
      BY <3>0, <3>2 DEF Asked
    <3> QED BY <3>0, <3>1, <3>3
  <2>8. ASSUME pc'[v] = "context"
        PROVE  /\ work'[v].req \in Requests /\ RepoOf[work'[v].req] = CurrentRepo(v)
               /\ Asked(work[v].req)' /\ work'[v].req \notin done'[v]
    <3>0. PICK c : c = work'[v]
      OBVIOUS
    <3>1. c.req \in Requests /\ RepoOf[c.req] = CurrentRepo(v) /\ Asked(c.req)
      BY <2>1, <2>3, <2>5, <2>8, <3>0
    <3>2. Asked(c.req)'
      BY <1>a, <3>1
    <3>3. Asked(work[v].req)'
      BY <3>0, <3>2 DEF Asked
    <3> QED BY <2>1, <2>8, <3>0, <3>1, <3>3
  <2> QED BY <2>1, <2>4, <2>6, <2>7, <2>8 DEF Sound
<1>5. CASE FetchContext(v) \/ InvokeSucceeds(v) \/ InvokeFails(v)
  <2>1. /\ InHand(v) /\ repoIx'[v] = repoIx[v] /\ snap'[v] = snap[v] /\ done'[v] = done[v]
        /\ work'[v].req = work[v].req
    BY <1>5 DEF FetchContext, InvokeSucceeds, InvokeFails, Goto, TypeOK, Comment
  <2>2. pc'[v] = "post" => work'[v].kind \in Verdicts
    BY <1>5 DEF FetchContext, InvokeSucceeds, InvokeFails, Goto, TypeOK, Verdicts, Comment
  <2>3. Asked(work[v].req)'
    <3>1. Asked(work[v].req) /\ work[v].req \in Requests
      BY <2>1 DEF FromTheThread, Sound
    <3>2. PICK r \in Requests : r = work[v].req
      BY <3>1
    <3>3. Asked(r)' /\ r = work'[v].req
      BY <1>a, <2>1, <3>1, <3>2
    <3> QED BY <3>3 DEF Asked
  <2>4. \A i \in 1..Len(snap'[v]) :
          snap'[v][i].kind = "queue" =>
            /\ snap'[v][i].req \in Requests
            /\ RepoOf[snap'[v][i].req] = CurrentRepo(v)'
            /\ Asked(snap[v][i].req)'
    BY <1>c, <2>1
  <2> QED BY <1>b, <2>1, <2>2, <2>3, <2>4 DEF FromTheThread, Sound
<1>6. CASE Post(v)
  <2>1. /\ pc[v] = "post" /\ pc'[v] = "scan"
        /\ repoIx'[v] = repoIx[v] /\ snap'[v] = snap[v]
    BY <1>6 DEF Post, PostAcknowledged, PostAnswerLost, PostRefused, Goto, TypeOK
  <2> QED BY <1>c, <2>1 DEF FromTheThread, Sound
<1> QED BY <1>1, <1>2, <1>3, <1>4, <1>5, <1>6, OwnStep DEF RunStep

LEMMA RemembersStep ==
  ASSUME TypeOK, FromTheThread, Remembers, [Next]_vars
  PROVE  Remembers'
<1> SUFFICES ASSUME NEW v \in Workers, pc'[v] # "idle", NEW r \in acked'[v]
             PROVE  \E k \in 1..Len(RepoOrder) :
                      /\ RepoOf[r] = RepoOrder[k]
                      /\ k <= repoIx'[v]
                      /\ pc'[v] = "list" => k < repoIx'[v]
                      /\ k = repoIx'[v] => r \in done'[v]
  BY DEF Remembers
<1>0. repoIx[v] \in Nat /\ Len(RepoOrder) \in Nat
  BY ControlWorkerAssumption DEF ControlWorkerAssumption, TypeOK
<1>1. CASE Unmoved(v)
  BY <1>1 DEF Unmoved, Remembers
<1>2. CASE StartRun(v)
  BY <1>2 DEF StartRun, TypeOK
<1>3. CASE ListComments(v)
  <2>1. /\ pc[v] = "list" /\ pc'[v] = "scan" /\ repoIx'[v] = repoIx[v] /\ acked'[v] = acked[v]
    BY <1>3 DEF ListComments, Goto, TypeOK
  <2> QED BY <1>0, <2>1 DEF Remembers
<1>4. CASE Scan(v) \/ FetchContext(v) \/ InvokeSucceeds(v) \/ InvokeFails(v)
           \/ PostAnswerLost(v) \/ PostRefused(v)
  <2>1. /\ pc[v] \notin {"idle", "list"} /\ pc'[v] # "list" /\ repoIx'[v] = repoIx[v]
        /\ acked'[v] = acked[v] /\ done'[v] = done[v]
    BY <1>4 DEF Scan, FetchContext, InvokeSucceeds, InvokeFails, PostAnswerLost, PostRefused,
                Goto, TypeOK
  <2> QED BY <2>1 DEF Remembers
<1>5. CASE LeaveRepo(v)
  <2>1. /\ pc[v] = "scan" /\ repoIx'[v] = repoIx[v] + 1 /\ acked'[v] = acked[v]
    BY <1>5 DEF LeaveRepo, TypeOK
  <2>2. PICK k \in 1..Len(RepoOrder) : RepoOf[r] = RepoOrder[k] /\ k <= repoIx[v]
    BY <2>1 DEF Remembers
  <2>3. k < repoIx'[v]
    BY <1>0, <2>1, <2>2
  <2> QED BY <1>0, <2>1, <2>2, <2>3
<1>6. CASE EndRun(v) \/ ContextDenied(v) \/ Abort(v)
  BY <1>6 DEF EndRun, ContextDenied, Abort, Goto, TypeOK
<1>7. CASE PostAcknowledged(v)
  <2>1. /\ pc[v] = "post" /\ pc'[v] = "scan" /\ repoIx'[v] = repoIx[v]
        /\ acked'[v] = acked[v] \cup {work[v].req} /\ done'[v] = done[v] \cup {work[v].req}
    BY <1>7 DEF PostAcknowledged, Goto, TypeOK
  <2>2. CASE r \in acked[v]
    BY <2>1, <2>2 DEF Remembers
  <2>3. CASE r = work[v].req
    <3>1. repoIx[v] \in 1..Len(RepoOrder) /\ RepoOf[r] = RepoOrder[repoIx[v]]
      BY <2>1, <2>3 DEF FromTheThread, Sound, Visiting, InHand, CurrentRepo
    <3> QED BY <1>0, <2>1, <2>3, <3>1
  <2> QED BY <2>1, <2>2, <2>3
<1> QED BY <1>1, <1>2, <1>3, <1>4, <1>5, <1>6, <1>7, OwnStep DEF RunStep, Post

LEMMA IndexStep ==
  ASSUME TypeOK, TypeOK', InPlace, FromTheThread, IndexComplete, [Next]_vars
  PROVE  IndexComplete'
<1> SUFFICES ASSUME OneRunAtATime, NEW v \in Workers, Visiting(v)',
                    WholeThreadListed(CurrentRepo(v))',
                    NEW r \in Requests, RepoOf[r] = CurrentRepo(v)', Answered(r)'
             PROVE  r \in done'[v] \cup lost'
  BY DEF IndexComplete, OneRunAtATime
<1>0. RepoOf[r] \in Repos /\ thread \in [Repos -> Seq(Comment)]
      /\ thread' \in [Repos -> Seq(Comment)]
  BY ControlWorkerAssumption DEF ControlWorkerAssumption, TypeOK
<1>1. WholeThreadListed(RepoOf[r])
  <2>1. Len(thread'[RepoOf[r]]) <= Limit
    BY DEF WholeThreadListed
  <2>2. Len(thread[RepoOf[r]]) <= Len(thread'[RepoOf[r]])
    BY <1>0, ThreadsGrow DEF Grows
  <2>3. Limit \in Nat /\ Len(thread[RepoOf[r]]) \in Nat /\ Len(thread'[RepoOf[r]]) \in Nat
    BY <1>0, ControlWorkerAssumption DEF ControlWorkerAssumption
  <2> QED BY <2>1, <2>2, <2>3 DEF WholeThreadListed
<1>2. lost \subseteq lost'
  <2>1. ASSUME NEW w \in Workers, RunStep(w) PROVE lost \subseteq lost'
    BY <2>1 DEF RunStep, StartRun, ListComments, Scan, LeaveRepo, EndRun, FetchContext,
                ContextDenied, InvokeSucceeds, InvokeFails, Post, PostAcknowledged,
                PostAnswerLost, PostRefused, Abort
  <2> QED BY <2>1 DEF Next, Enqueue, Chatter, vars
\* While the run stays in its repository, only its own post adds an answer.
<1>3. ASSUME Visiting(v), CurrentRepo(v)' = CurrentRepo(v), done[v] \subseteq done'[v],
             \A w \in Workers : PostAcknowledged(w) => work[w].req \in done'[w],
             \A w \in Workers : PostAnswerLost(w) => work[w].req \in lost'
      PROVE  r \in done'[v] \cup lost'
  <2>1. CASE \E w \in Workers : (PostAcknowledged(w) \/ PostAnswerLost(w)) /\ work[w].req = r
    BY <1>3, <2>1 DEF OneRunAtATime
  <2>2. CASE ~ \E w \in Workers : (PostAcknowledged(w) \/ PostAnswerLost(w)) /\ work[w].req = r
    <3>1. Answered(r)
      BY <2>2, NewAnswer DEF Answered
    <3>2. r \in done[v] \cup lost
      BY <1>1, <1>3, <3>1 DEF IndexComplete
    <3> QED BY <1>2, <1>3, <3>2
  <2> QED BY <2>1, <2>2
<1>4. /\ \A w \in Workers : PostAcknowledged(w) => work[w].req \in done'[w]
      /\ \A w \in Workers : PostAnswerLost(w) => work[w].req \in lost'
  BY DEF PostAcknowledged, PostAnswerLost, TypeOK
<1>b. repoIx'[v] = repoIx[v] => CurrentRepo(v)' = CurrentRepo(v)
  BY DEF CurrentRepo
<1>5. CASE Unmoved(v)
  BY <1>3, <1>4, <1>5, <1>b DEF Unmoved, Visiting
<1>6. CASE StartRun(v) \/ LeaveRepo(v) \/ EndRun(v) \/ ContextDenied(v) \/ Abort(v)
  <2>1. pc'[v] \in {"idle", "list"}
    BY <1>6 DEF StartRun, LeaveRepo, EndRun, ContextDenied, Abort, Goto, TypeOK
  <2> QED BY <2>1 DEF Visiting
<1>7. CASE ListComments(v)
  <2>1. CurrentRepo(v) = RepoOf[r] /\ thread' = thread
    BY <1>7, <1>b, ListedFacts
  <2>2. PICK j \in 1..Len(thread[RepoOf[r]]) : IsResult(thread[RepoOf[r]][j], r)
    BY <2>1 DEF Answered, ResultsFor
  <2>3. PICK i \in 1..Len(Recent(thread[RepoOf[r]])) :
          Recent(thread[RepoOf[r]])[i] = thread[RepoOf[r]][j]
    BY <1>0, <1>1, RecentFacts DEF WholeThreadListed
  <2>4. ResultsFor(Recent(thread[RepoOf[r]]), r) # {}
    BY <2>2, <2>3 DEF ResultsFor
  <2> QED BY <1>7, <2>1, <2>4, ListedFacts
<1>8. CASE Scan(v) \/ FetchContext(v) \/ InvokeSucceeds(v) \/ InvokeFails(v) \/ Post(v)
  <2>1. Visiting(v) /\ repoIx'[v] = repoIx[v] /\ done[v] \subseteq done'[v]
    BY <1>8 DEF Scan, FetchContext, InvokeSucceeds, InvokeFails, Post, PostAcknowledged,
                PostAnswerLost, PostRefused, Visiting, TypeOK
  <2> QED BY <1>3, <1>4, <1>b, <2>1
<1> QED BY <1>5, <1>6, <1>7, <1>8, OwnStep DEF RunStep

LEMMA AtMostOnceStep ==
  ASSUME TypeOK, TypeOK', FromTheThread, IndexComplete, AnsweredAtMostOnce, [Next]_vars
  PROVE  AnsweredAtMostOnce'
<1> SUFFICES ASSUME OneRunAtATime, NEW r \in Requests \ lost', WholeThreadListed(RepoOf[r])',
                    NEW i \in ResultsFor(thread'[RepoOf[r]], r),
                    NEW j \in ResultsFor(thread'[RepoOf[r]], r)
             PROVE  i = j
  BY DEF AnsweredAtMostOnce, OneRunAtATime
<1>0. RepoOf[r] \in Repos /\ thread \in [Repos -> Seq(Comment)]
      /\ thread' \in [Repos -> Seq(Comment)]
  BY ControlWorkerAssumption DEF ControlWorkerAssumption, TypeOK
<1>1. WholeThreadListed(RepoOf[r])
  <2>1. Len(thread'[RepoOf[r]]) <= Limit
    BY DEF WholeThreadListed
  <2>2. Len(thread[RepoOf[r]]) <= Len(thread'[RepoOf[r]])
    BY <1>0, ThreadsGrow DEF Grows
  <2>3. Limit \in Nat /\ Len(thread[RepoOf[r]]) \in Nat /\ Len(thread'[RepoOf[r]]) \in Nat
    BY <1>0, ControlWorkerAssumption DEF ControlWorkerAssumption
  <2> QED BY <2>1, <2>2, <2>3 DEF WholeThreadListed
<1>2. r \notin lost
  <2>1. ASSUME NEW w \in Workers, RunStep(w) PROVE lost \subseteq lost'
    BY <2>1 DEF RunStep, StartRun, ListComments, Scan, LeaveRepo, EndRun, FetchContext,
                ContextDenied, InvokeSucceeds, InvokeFails, Post, PostAcknowledged,
                PostAnswerLost, PostRefused, Abort
  <2> QED BY <2>1 DEF Next, Enqueue, Chatter, vars
<1>3. CASE ~ \E w \in Workers : (PostAcknowledged(w) \/ PostAnswerLost(w)) /\ work[w].req = r
  BY <1>1, <1>2, <1>3, NewAnswer DEF AnsweredAtMostOnce
<1>4. ASSUME NEW w \in Workers, PostAcknowledged(w) \/ PostAnswerLost(w), work[w].req = r
      PROVE  i = j
  <2>1. /\ RepoOf[r] = CurrentRepo(w) /\ Visiting(w) /\ r \notin done[w]
        /\ Say(RepoOf[r], work[w]) /\ work[w] \in Comment
    BY <1>4, ResultFacts
  <2>2. ~Answered(r)
    BY <1>1, <1>2, <2>1 DEF IndexComplete
  <2>3. /\ Len(thread[RepoOf[r]]) \in Nat
        /\ Len(thread'[RepoOf[r]]) = Len(thread[RepoOf[r]]) + 1
        /\ \A k \in 1..Len(thread[RepoOf[r]]) : thread'[RepoOf[r]][k] = thread[RepoOf[r]][k]
    BY <1>0, <2>1, SayFacts
  <2>4. ASSUME NEW k \in ResultsFor(thread'[RepoOf[r]], r)
        PROVE  k = Len(thread[RepoOf[r]]) + 1
    <3>1. k \in 1..Len(thread'[RepoOf[r]]) /\ IsResult(thread'[RepoOf[r]][k], r)
      BY <2>4 DEF ResultsFor
    <3>2. k \notin 1..Len(thread[RepoOf[r]])
      BY <2>2, <2>3, <3>1 DEF Answered, ResultsFor
    <3> QED BY <2>3, <3>1, <3>2
  <2> QED BY <2>4
<1> QED BY <1>3, <1>4

-----------------------------------------------------------------------------
(* The theorems                                                            *)

LEMMA InvInit == Init => Inv
<1> SUFFICES ASSUME Init PROVE Inv
  OBVIOUS
<1>1. TypeOK
  BY TypeInit
<1>2. RepoOf \in [Requests -> Repos]
  BY ControlWorkerAssumption DEF ControlWorkerAssumption
<1>3. \A p \in Repos : thread[p] = <<>> /\ Len(thread[p]) = 0
  BY DEF Init
<1>4. InPlace /\ NoAnswerWithoutQuestion
  BY <1>3 DEF InPlace, NoAnswerWithoutQuestion
<1>5. SkippedOnlyWhenAnswered
  BY DEF Init, SkippedOnlyWhenAnswered
<1>6. \A w \in Workers : pc[w] = "idle"
  BY DEF Init
<1>7. FromTheThread /\ Remembers /\ IndexComplete
  BY <1>6 DEF FromTheThread, Sound, Visiting, InHand, Remembers, IndexComplete
<1>8. AnsweredAtMostOnce
  BY <1>2, <1>3 DEF AnsweredAtMostOnce, ResultsFor
<1> QED BY <1>1, <1>4, <1>5, <1>7, <1>8 DEF Inv

LEMMA InvStep == Inv /\ [Next]_vars => Inv'
<1> SUFFICES ASSUME Inv, [Next]_vars PROVE Inv'
  OBVIOUS
<1>1. TypeOK'
  BY TypeStep DEF Inv
<1>2. InPlace' /\ NoAnswerWithoutQuestion'
  BY InPlaceStep, QuestionStep DEF Inv
<1>3. SkippedOnlyWhenAnswered'
  BY <1>1, SkippedStep DEF Inv
<1>4. FromTheThread' /\ Remembers'
  BY <1>1, FromTheThreadStep, RemembersStep DEF Inv
<1>5. IndexComplete' /\ AnsweredAtMostOnce'
  BY <1>1, IndexStep, AtMostOnceStep DEF Inv
<1> QED BY <1>1, <1>2, <1>3, <1>4, <1>5 DEF Inv

\* The strengthened invariant holds in every behaviour of the queue.
THEOREM Invariance == Spec => []Inv
<1> QED BY InvInit, InvStep, PTL DEF Spec

\* Every variable keeps its type.
THEOREM TypeCorrect == Spec => []TypeOK
<1>1. Inv => TypeOK
  BY DEF Inv
<1> QED BY <1>1, Invariance, PTL

\* A request is skipped as already processed only when its answer stands in its
\* repository, whatever posts fail and however runs overlap.
THEOREM SkipsAreSound == Spec => []SkippedOnlyWhenAnswered
<1>1. Inv => SkippedOnlyWhenAnswered
  BY DEF Inv
<1> QED BY <1>1, Invariance, PTL

\* Results stand only below the marker that asked for them.
THEOREM AnswersAreAsked == Spec => []NoAnswerWithoutQuestion
<1>1. Inv => NoAnswerWithoutQuestion
  BY DEF Inv
<1> QED BY <1>1, Invariance, PTL

\* One run never takes in hand a request it has answered itself.
THEOREM RunsDeduplicate == Spec => []OneAnswerPerRun
<1>1. Inv => OneAnswerPerRun
  <2> SUFFICES ASSUME Inv, NEW w \in Workers, InHand(w) PROVE work[w].req \notin acked[w]
    BY DEF OneAnswerPerRun
  <2>1. /\ work[w].req \notin done[w] /\ RepoOf[work[w].req] = RepoOrder[repoIx[w]]
        /\ repoIx[w] \in 1..Len(RepoOrder) /\ pc[w] # "idle"
    BY DEF Inv, FromTheThread, Sound, InHand, Visiting, CurrentRepo
  <2>2. \A k \in 1..Len(RepoOrder) : RepoOrder[k] = RepoOrder[repoIx[w]] => k = repoIx[w]
    BY <2>1, ControlWorkerAssumption DEF ControlWorkerAssumption
  <2> QED BY <2>1, <2>2 DEF Inv, Remembers
<1> QED BY <1>1, Invariance, PTL

\* Without overlapping runs a request whose results were all confirmed is
\* answered at most once while its thread fits in the listing.
THEOREM AtMostOnce == Spec => []AnsweredAtMostOnce
<1>1. Inv => AnsweredAtMostOnce
  BY DEF Inv
<1> QED BY <1>1, Invariance, PTL

-----------------------------------------------------------------------------
(* The ledger                                                              *)

\* A marker in a thread was posted by the producers.
Counted == \A r \in Requests : Asked(r) => enqueued[r] > 0

\* Every repository's comments fit in one listing.
AllListed == \A p \in Repos : WholeThreadListed(p)

Answers(r) == ResultsFor(thread[RepoOf[r]], r)

\* Only posting its marker asks for a request.
LEMMA NewQuestion ==
  ASSUME TypeOK, FromTheThread, [Next]_vars, NEW r \in Requests, ~Enqueue(r), Asked(r)'
  PROVE  Asked(r)
<1>1. RepoOf[r] \in Repos /\ thread \in [Repos -> Seq(Comment)]
  BY ControlWorkerAssumption DEF ControlWorkerAssumption, TypeOK
<1>2. ASSUME NEW p \in Repos, NEW c \in Comment, Say(p, c), c # [kind |-> "queue", req |-> r]
      PROVE  Asked(r)
  <2>1. CASE p # RepoOf[r]
    BY <1>1, <1>2, <2>1, SayFacts DEF Asked
  <2>2. CASE p = RepoOf[r]
    <3>1. /\ Len(thread[p]) \in Nat /\ Len(thread'[p]) = Len(thread[p]) + 1
          /\ \A i \in 1..Len(thread[p]) : thread'[p][i] = thread[p][i]
          /\ thread'[p][Len(thread[p]) + 1] = c
      BY <1>1, <1>2, SayFacts
    <3>2. PICK i \in 1..Len(thread'[p]) : thread'[p][i] = [kind |-> "queue", req |-> r]
      BY <2>2 DEF Asked
    <3>3. i \in 1..Len(thread[p])
      BY <1>2, <3>1, <3>2
    <3> QED BY <2>2, <3>1, <3>2, <3>3 DEF Asked
  <2> QED BY <2>1, <2>2
<1>3. ASSUME NEW q \in Requests, Enqueue(q) PROVE Asked(r)
  <2>1. RepoOf[q] \in Repos /\ [kind |-> "queue", req |-> q] \in Comment
    BY ControlWorkerAssumption DEF ControlWorkerAssumption, Comment, Kinds
  <2>2. [kind |-> "queue", req |-> q] # [kind |-> "queue", req |-> r]
    BY <1>3
  <2>3. Say(RepoOf[q], [kind |-> "queue", req |-> q])
    BY <1>3 DEF Enqueue
  <2> QED BY <1>2, <2>1, <2>2, <2>3
<1>4. ASSUME NEW p \in Repos, Chatter(p) PROVE Asked(r)
  <2>1. PICK k \in {"other", "inert"} : Say(p, [kind |-> k, req |-> NoRequest])
    BY <1>4 DEF Chatter
  <2>2. [kind |-> k, req |-> NoRequest] \in Comment
    BY DEF Comment, Kinds
  <2> QED BY <1>2, <2>1, <2>2
<1>5. ASSUME NEW w \in Workers, PostAcknowledged(w) \/ PostAnswerLost(w) PROVE Asked(r)
  <2>1. /\ work[w] \in Comment /\ work[w].kind \in Verdicts /\ CurrentRepo(w) \in Repos
        /\ Say(CurrentRepo(w), work[w])
    BY <1>5, ResultFacts
  <2> QED BY <1>2, <2>1 DEF Verdicts
<1>6. CASE thread' = thread
  BY <1>6 DEF Asked
<1>7. ASSUME NEW w \in Workers, RunStep(w), ~PostAcknowledged(w), ~PostAnswerLost(w)
      PROVE  thread' = thread
  BY <1>7 DEF RunStep, StartRun, ListComments, Scan, LeaveRepo, EndRun, FetchContext,
              ContextDenied, InvokeSucceeds, InvokeFails, Post, PostRefused, Abort, queueVars
<1> QED BY <1>3, <1>4, <1>5, <1>6, <1>7 DEF Next, vars, queueVars

\* Markers are counted when they are posted, and never uncounted.
LEMMA EnqueuedFacts ==
  ASSUME TypeOK, [Next]_vars
  PROVE  \/ enqueued' = enqueued
         \/ \E r \in Requests : Enqueue(r) /\ enqueued' = [enqueued EXCEPT ![r] = @ + 1]
<1>1. ASSUME NEW w \in Workers, RunStep(w) PROVE enqueued' = enqueued
  BY <1>1 DEF RunStep, StartRun, ListComments, Scan, LeaveRepo, EndRun, FetchContext,
              ContextDenied, InvokeSucceeds, InvokeFails, Post, PostAcknowledged,
              PostAnswerLost, PostRefused, Abort, queueVars
<1> QED BY <1>1 DEF Next, Enqueue, Chatter, vars, queueVars

LEMMA CountedStep ==
  ASSUME TypeOK, FromTheThread, Counted, [Next]_vars
  PROVE  Counted'
<1> SUFFICES ASSUME NEW r \in Requests, Asked(r)' PROVE enqueued'[r] > 0
  BY DEF Counted
<1>1. \A q \in Requests : enqueued[q] \in Nat
  BY DEF TypeOK
<1>2. CASE Enqueue(r)
  BY <1>1, <1>2 DEF Enqueue, TypeOK
<1>3. CASE ~Enqueue(r)
  <2>1. enqueued[r] > 0
    BY <1>3, NewQuestion DEF Counted
  <2>2. enqueued'[r] = enqueued[r] \/ enqueued'[r] = enqueued[r] + 1
    BY <1>1, EnqueuedFacts DEF TypeOK
  <2> QED BY <1>1, <2>1, <2>2
<1> QED BY <1>2, <1>3

\* A run that posts answers a request that nothing answers yet, and there is
\* one answer to it afterwards.
LEMMA FirstAnswer ==
  ASSUME Inv, OneRunAtATime, AllListed, lost = {}, NEW w \in Workers, PostAcknowledged(w)
  PROVE  /\ work[w].req \in Requests /\ Asked(work[w].req)
         /\ Answers(work[w].req) = {} /\ \E i : Answers(work[w].req)' = {i}
<1> DEFINE r == work[w].req
           p == RepoOf[r]
<1>1. /\ work[w] \in Comment /\ work[w].kind \in Verdicts /\ r \in Requests
      /\ p = CurrentRepo(w) /\ p \in Repos /\ Asked(r) /\ r \notin done[w] /\ Visiting(w)
      /\ Say(p, work[w])
  BY ResultFacts DEF Inv
<1>2. WholeThreadListed(CurrentRepo(w))
  BY <1>1 DEF AllListed
<1>3. ~Answered(r)
  BY <1>1, <1>2 DEF Inv, IndexComplete
<1>4. thread \in [Repos -> Seq(Comment)]
  BY DEF Inv, TypeOK
<1>5. /\ Len(thread[p]) \in Nat /\ Len(thread'[p]) = Len(thread[p]) + 1
      /\ \A i \in 1..Len(thread[p]) : thread'[p][i] = thread[p][i]
      /\ thread'[p][Len(thread[p]) + 1] = work[w]
  BY <1>1, <1>4, SayFacts
<1>6. Answers(r) = {} /\ \A i \in 1..Len(thread[p]) : ~IsResult(thread[p][i], r)
  BY <1>3 DEF Answers, Answered, ResultsFor
<1>7. ResultsFor(thread'[p], r) = {Len(thread[p]) + 1}
  <2>1. IsResult(thread'[p][Len(thread[p]) + 1], r) /\ Len(thread[p]) + 1 \in 1..Len(thread'[p])
    BY <1>1, <1>5 DEF IsResult
  <2>2. \A i \in 1..Len(thread'[p]) : i \in 1..Len(thread[p]) \/ i = Len(thread[p]) + 1
    BY <1>5
  <2>3. \A i \in 1..Len(thread[p]) : ~IsResult(thread'[p][i], r)
    BY <1>5, <1>6
  <2> HIDE DEF p, r
  <2> QED BY <2>1, <2>2, <2>3 DEF ResultsFor
<1>8. Answers(r)' = ResultsFor(thread'[RepoOf[r']], r')
  BY DEF Answers
<1>9. work' = work
  BY DEF PostAcknowledged
<1> QED BY <1>1, <1>6, <1>7, <1>8, <1>9

\* Every step of the queue is a request, its one answer, or nothing that the
\* ledger can see.
LEMMA LedgerStep ==
  ASSUME Inv, Counted, OneRunAtATime, AllListed, lost = {}, lost' = {}, [Next]_vars
  PROVE  [Ledger!Next]_(Ledger!vars)
<1> DEFINE asked == {r \in Requests : enqueued[r] > 0}
           answers == [r \in Requests |-> Cardinality(Answers(r))]
<1>1. ASSUME asked' = asked, answers' = answers PROVE Ledger!vars' = Ledger!vars
  BY <1>1 DEF Ledger!vars, Answers
<1>2. ASSUME NEW r \in Requests, Enqueue(r) PROVE [Ledger!Next]_(Ledger!vars)
  <2>1. \A q \in Requests : Answers(q)' = Answers(q)
    <3> SUFFICES ASSUME NEW q \in Requests PROVE Answers(q)' = Answers(q)
      OBVIOUS
    <3>1. ~ \E w \in Workers : (PostAcknowledged(w) \/ PostAnswerLost(w)) /\ work[w].req = q
      BY <1>2 DEF Enqueue, runVars, PostAcknowledged, PostAnswerLost, Goto, Inv, TypeOK
    <3> QED BY <3>1, InvStep, NewAnswer DEF Answers, Inv
  <2>2. answers' = answers
    BY <2>1
  <2>3. enqueued' = [enqueued EXCEPT ![r] = @ + 1] /\ \A q \in Requests : enqueued[q] \in Nat
    BY <1>2 DEF Enqueue, Inv, TypeOK
  <2>4. asked' = asked \cup {r}
    BY <2>3 DEF Inv, TypeOK
  <2>5. CASE r \in asked
    BY <1>1, <2>2, <2>4, <2>5
  <2>6. CASE r \notin asked
    <3>1. Ledger!Ask(r)
      BY <2>2, <2>4, <2>6 DEF Ledger!Ask, Answers
    <3> QED BY <3>1 DEF Ledger!Next
  <2> QED BY <2>5, <2>6
<1>3. ASSUME NEW w \in Workers, PostAcknowledged(w) PROVE [Ledger!Next]_(Ledger!vars)
  <2> DEFINE r == work[w].req
  <2>1. r \in Requests /\ r \in asked
    BY <1>3, FirstAnswer DEF Counted
  <2>2. Answers(r) = {} /\ \E i : Answers(r)' = {i}
    BY <1>3, FirstAnswer
  <2>3. Cardinality(Answers(r)) = 0 /\ Cardinality(Answers(r)') = 1
    BY <2>2, FS_EmptySet, FS_Singleton
  <2>4. ASSUME NEW q \in Requests, q # r PROVE Answers(q)' = Answers(q)
    <3>1. ASSUME NEW v \in Workers, PostAcknowledged(v) \/ PostAnswerLost(v) PROVE v = w
      BY DEF OneRunAtATime
    <3>2. ~ \E v \in Workers : (PostAcknowledged(v) \/ PostAnswerLost(v)) /\ work[v].req = q
      BY <2>4, <3>1
    <3> QED BY <3>2, InvStep, NewAnswer DEF Answers, Inv
  <2>5. UNCHANGED enqueued /\ work' = work
    BY <1>3 DEF PostAcknowledged
  <2>6. answers' = [answers EXCEPT ![r] = 1]
    BY <2>1, <2>3, <2>4, <2>5
  <2>7. Ledger!Answer(r)
    BY <2>1, <2>3, <2>5, <2>6 DEF Ledger!Answer, Answers
  <2> QED BY <2>1, <2>7 DEF Ledger!Next
<1>4. ASSUME ~ \E r \in Requests : Enqueue(r), ~ \E w \in Workers : PostAcknowledged(w)
      PROVE  Ledger!vars' = Ledger!vars
  <2>1. \A w \in Workers : ~PostAnswerLost(w)
    BY DEF PostAnswerLost
  <2>2. \A q \in Requests : Answers(q)' = Answers(q)
    BY <1>4, <2>1, InvStep, NewAnswer DEF Answers, Inv
  <2>3. enqueued' = enqueued
    BY <1>4, EnqueuedFacts DEF Inv
  <2> QED BY <1>1, <2>2, <2>3
<1> QED BY <1>2, <1>3, <1>4

\* THEOREM KeepsTheLedger: the queue implements the ledger's promise but for its
\* deadline (RequestLedger): at most one answer, and only to what was asked,
\* in every behaviour in which runs do not overlap, the confirmation of no post
\* is lost and the comments of a repository fit in one listing, whatever else
\* fails (run_control_worker_once with the result markers as its memory).
THEOREM KeepsTheLedger ==
  ASSUME OneRunAtATime
  PROVE  Spec /\ []AllListed /\ [](lost = {}) => Ledger!SafeSpec
<1>1. Init => Ledger!Init
  <2> SUFFICES ASSUME Init PROVE Ledger!Init
    OBVIOUS
  <2>1. {r \in Requests : enqueued[r] > 0} = {}
    BY DEF Init
  <2>2. \A r \in Requests : ResultsFor(thread[RepoOf[r]], r) = {}
    BY ControlWorkerAssumption DEF ControlWorkerAssumption, Init, ResultsFor
  <2>3. [r \in Requests |-> Cardinality(ResultsFor(thread[RepoOf[r]], r))] = [r \in Requests |-> 0]
    BY <2>2, FS_EmptySet
  <2> QED BY <2>1, <2>3 DEF Ledger!Init
<1>2. Init => Counted
  BY ControlWorkerAssumption DEF ControlWorkerAssumption, Init, Counted, Asked
<1>3. Inv /\ Counted /\ [Next]_vars => Counted'
  BY CountedStep DEF Inv
<1>4. Inv /\ Counted /\ AllListed /\ lost = {} /\ (lost = {})' /\ [Next]_vars => [Ledger!Next]_(Ledger!vars)
  BY LedgerStep
<1> QED BY <1>1, <1>2, <1>3, <1>4, Invariance, PTL DEF Spec, Ledger!SafeSpec

\* THEOREM NothingLost: a confirmation is lost only where one can be; without
\* that fault every result a run has posted is one it knows of (the answer of
\* post_issue_comment in run_control_worker_once).
THEOREM NothingLost ==
  ASSUME "answer_lost" \notin FaultKinds
  PROVE  Spec => [](lost = {})
<1>1. Init => lost = {}
  BY DEF Init
<1>2. lost = {} /\ [Next]_vars => (lost = {})'
  <2> SUFFICES ASSUME lost = {}, [Next]_vars PROVE lost' = {}
    OBVIOUS
  <2>1. CASE UNCHANGED vars
    BY <2>1 DEF vars
  <2>2. ASSUME NEW r \in Requests, Enqueue(r) PROVE lost' = {}
    BY <2>2 DEF Enqueue
  <2>3. ASSUME NEW p \in Repos, Chatter(p) PROVE lost' = {}
    BY <2>3 DEF Chatter
  <2>4. ASSUME NEW w \in Workers, RunStep(w) PROVE lost' = {}
    <3>1. ~PostAnswerLost(w)
      BY DEF PostAnswerLost, Fault
    <3> QED
      BY <2>4, <3>1 DEF RunStep, StartRun, ListComments, Scan, LeaveRepo, EndRun, FetchContext,
         ContextDenied, InvokeSucceeds, InvokeFails, Post, PostAcknowledged, PostRefused, Abort
  <2> QED BY <2>1, <2>2, <2>3, <2>4 DEF Next
<1> QED BY <1>1, <1>2, PTL DEF Spec

\* THEOREM ConfirmedQueueKeepsTheLedger: where no confirmation can be lost, the
\* ledger's promise needs only runs that do not overlap and threads that fit in
\* one listing: a run that is killed and a post that is refused cost nothing but
\* time (run_control_worker_once).
THEOREM ConfirmedQueueKeepsTheLedger ==
  ASSUME OneRunAtATime, "answer_lost" \notin FaultKinds
  PROVE  Spec /\ []AllListed => Ledger!SafeSpec
BY KeepsTheLedger, NothingLost, PTL

=============================================================================
