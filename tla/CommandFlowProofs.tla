------------------------- MODULE CommandFlowProofs -------------------------
(***************************************************************************)
(* Proofs about CommandFlow, for any number of runs, pushes and failures   *)
(* and for every retry limit.                                              *)
(*                                                                         *)
(* The argument for the check runs: commits are read in the order tree,    *)
(* diff, label (Reading), so a payload is about something no newer than    *)
(* the head its label was taken from, and nothing a check was made from    *)
(* changes after it was published (Publishing).  For the reply: until the  *)
(* POST is confirmed everything stored was stored without confirmation     *)
(* (Counted), and every end of a run says how it came about (Explained).   *)
(***************************************************************************)
EXTENDS CommandFlow, TLAPS

\* Commits are read in order, and a dispatched run has the default branch.
Reading ==
  \A c \in Commands :
    /\ tree[c] \in Nat => tree[c] <= head
    /\ diff[c] \in Nat => diff[c] <= head
    /\ diff[c] \in Nat \cup {Unknown}
    /\ tree[c] \in Nat /\ diff[c] \in Nat => tree[c] <= diff[c]
    /\ pc[c] \in {"new", "route", "readHead", "readDiff"} => diff[c] = Unknown
    /\ kind[c].dispatched => tree[c] \notin Nat
    /\ kind[c].dry => diff[c] = Unknown /\ pc[c] \notin {"readHead", "readDiff"}

\* What a check is about was read by its run, not before the checkout.
Sound(k) ==
  \/ k.about = Unknown
  \/ k.about = tree[k.by]
  \/ k.about \in Nat /\ (tree[k.by] \in Nat => tree[k.by] <= k.about)

Covers(k) == ~unread[k.by] => Behind(k.about, k.label)

Filed(c) ==
  payload[c] # NoPayload =>
    /\ payload[c].by = c /\ Checked(c) /\ pc[c] # "new"
    /\ Sound(payload[c]) /\ Covers(payload[c])
    /\ payload[c].about \in Nat => payload[c].about <= head

Stands(i) ==
  /\ Sound(checks[i]) /\ Covers(checks[i])
  /\ Checked(checks[i].by) /\ pc[checks[i].by] # "new"

\* Who publishes has a payload.
Staged ==
  \A c \in Commands :
    /\ pc[c] \in {"readHead", "readDiff", "label"} => Checked(c)
    /\ pc[c] = "check" => payload[c] # NoPayload
    /\ pub[c] # "idle" => pc[c] = "ended"
    /\ pub[c] \in {"resolve", "post", "probe"} => payload[c] # NoPayload

Publishing ==
  /\ \A c \in Commands :
       /\ Filed(c)
       /\ pub[c] = "post" /\ ~unread[c] => Behind(payload[c].about, target[c])
  /\ \A i \in 1..Len(checks) : Stands(i)

Counted(c) ==
  /\ pc[c] \notin {"comment", "react", "mark", "ended"} => said[c] = 0 /\ lost[c] = 0
  /\ pc[c] \notin {"react", "mark", "ended"} => audit[c] = "none" /\ said[c] = lost[c]
  /\ pc[c] = "comment" => tries[c] >= 1 /\ said[c] + tries[c] <= CommentTries
  /\ said[c] <= CommentTries /\ said[c] <= lost[c] + 1
  /\ audit[c] = "posted" => said[c] > lost[c]
  /\ audit[c] = "unposted" => said[c] = lost[c]

Explained(c) ==
  /\ pc[c] \in {"react", "mark", "ended"} => outcome[c] # "none"
  /\ outcome[c] = "ignored" => kind[c].route = "ignored"
  /\ outcome[c] = "dry" => kind[c].dry
  /\ outcome[c] = "posted" => said[c] > 0
  /\ outcome[c] = "marker_failed" => kind[c].route = "queue"

Accounted(c) == Counted(c) /\ Explained(c)

Accounts == \A c \in Commands : Accounted(c)

Inv == TypeOK /\ Staged /\ Reading /\ Publishing /\ Accounts

USE DEF pull, github, reads, ending, publish, history, vars

-----------------------------------------------------------------------------
(* Type correctness                                                        *)

LEMMA FaultFacts == TypeOK /\ Fault => faults' \in Nat
BY DEF TypeOK, Fault

LEMMA ReadsFacts ==
  ASSUME TypeOK, NEW c \in Commands, NEW x, NEW o, Reads(c, x, o)
  PROVE  faults' \in Nat /\ unread' \in [Commands -> BOOLEAN]
BY FaultFacts DEF TypeOK, Reads

LEMMA GotoFacts ==
  ASSUME TypeOK, NEW c \in Commands, NEW s \in Stages, Goto(c, s)
  PROVE  pc' \in [Commands -> Stages]
BY DEF TypeOK, Goto

LEMMA ReturnsFacts ==
  ASSUME TypeOK, NEW c \in Commands, NEW how \in Outcomes, Returns(c, how)
  PROVE  /\ pc' \in [Commands -> Stages] /\ outcome' \in [Commands -> Outcomes]
         /\ audit' \in [Commands -> {"none", "posted", "unposted"}]
BY DEF TypeOK, Returns, Goto, Stages

LEMMA RaisesFacts ==
  ASSUME TypeOK, NEW c \in Commands, Raises(c)
  PROVE  /\ pc' \in [Commands -> Stages] /\ outcome' \in [Commands -> Outcomes]
         /\ audit' \in [Commands -> {"none", "posted", "unposted"}]
BY DEF TypeOK, Raises, Goto, Stages, Outcomes

LEMMA AnswerFacts ==
  ASSUME TypeOK, NEW c \in Commands, Answer(c)
  PROVE  /\ pc' \in [Commands -> Stages] /\ outcome' \in [Commands -> Outcomes]
         /\ audit' \in [Commands -> {"none", "posted", "unposted"}]
         /\ tries' \in [Commands -> Nat]
<1>1. CASE kind[c].dry /\ Returns(c, "dry") /\ UNCHANGED tries
  BY <1>1, ReturnsFacts DEF Outcomes, TypeOK
<1>2. CASE ~kind[c].dry /\ ~kind[c].thread /\ Raises(c) /\ UNCHANGED tries
  BY <1>2, RaisesFacts DEF TypeOK
<1>3. CASE /\ Goto(c, "comment")
           /\ tries' = [tries EXCEPT ![c] = CommentTries]
           /\ UNCHANGED ending
  BY <1>3, GotoFacts, FlowAssumption DEF FlowAssumption, Stages, TypeOK
<1>4. QED BY <1>1, <1>2, <1>3 DEF Answer

LEMMA GiveUpFacts ==
  ASSUME TypeOK, NEW c \in Commands, GiveUp(c)
  PROVE  /\ pc' \in [Commands -> Stages] /\ outcome' \in [Commands -> Outcomes]
         /\ audit' \in [Commands -> {"none", "posted", "unposted"}]
BY ReturnsFacts, RaisesFacts DEF GiveUp, Outcomes

LEMMA EyesFacts ==
  ASSUME TypeOK, NEW c \in Commands, reaction' = [reaction EXCEPT ![c] = {"eyes"}]
  PROVE  reaction' \in [Commands -> SUBSET {"eyes", "rocket", "confused"}]
<1> DEFINE Faces == SUBSET {"eyes", "rocket", "confused"}
<1>1. {"eyes"} \in Faces
  OBVIOUS
<1>2. reaction \in [Commands -> Faces]
  BY DEF TypeOK
<1> HIDE DEF Faces
<1>3. reaction' \in [Commands -> Faces]
  BY <1>1, <1>2
<1>4. QED BY <1>3 DEF Faces

LEMMA PayloadFacts ==
  ASSUME TypeOK, NEW c \in Commands, NEW x \in Commits
  PROVE  Payload(c, x) \in Check /\ Fallback(c) \in Commits
BY DEF TypeOK, Payload, Subject, Fallback, Check, Commits

LEMMA RetargetedFacts ==
  ASSUME TypeOK, NEW c \in Commands, payload[c] # NoPayload
  PROVE  /\ Retargeted(c) \in Check /\ Retargeted(c).by = payload[c].by
         /\ Retargeted(c).about = payload[c].about /\ Retargeted(c).label = target[c]
<1>1. payload[c] \in Check /\ target[c] \in Commits
  BY DEF TypeOK
<1>2. QED BY <1>1 DEF Retargeted, Check

LEMMA AppendFacts ==
  ASSUME NEW S, NEW s \in Seq(S), NEW e \in S
  PROVE  /\ Append(s, e) \in Seq(S)
         /\ \A i \in 1..Len(Append(s, e)) :
              (i \in 1..Len(s) /\ Append(s, e)[i] = s[i]) \/ Append(s, e)[i] = e
OBVIOUS

LEMMA TypeInit == Init => TypeOK
BY FlowAssumption DEF FlowAssumption, Init, TypeOK, Commits, Stages, Outcomes

LEMMA TypeStep == TypeOK /\ Staged /\ [Next]_vars => TypeOK'
<1> SUFFICES ASSUME TypeOK, Staged, [Next]_vars PROVE TypeOK'
  OBVIOUS
<1>1. CASE Push
  <2>1. PICK n \in {head + 1} \cup {branch[m] : m \in 1..head} : branch' = Append(branch, n)
    BY <1>1 DEF Push
  <2>2. /\ n \in Nat /\ branch \in Seq(Nat) /\ Len(branch) = head /\ head \in Nat
        /\ head' = head + 1
    BY <1>1 DEF Push, TypeOK
  <2>3. branch' \in Seq(Nat) /\ Len(branch') = head' /\ head' \in Nat
    BY <2>1, <2>2
  <2>4. QED BY <1>1, <2>3 DEF Push, TypeOK
<1>2. ASSUME NEW c \in Commands, StartJob(c) PROVE TypeOK'
  <2>1. pc' \in [Commands -> Stages]
    BY <1>2, GotoFacts DEF StartJob, Stages
  <2>2. CASE kind[c].dispatched
    <3>1. faults' \in Nat /\ unread' \in [Commands -> BOOLEAN] /\ named' \in [Commands -> Commits]
      <4>1. CASE ~kind[c].pull /\ UNCHANGED <<named, faults, unread>>
        BY <4>1 DEF TypeOK
      <4>2. CASE \E x \in {head, Unknown} :
                   Reads(c, x, Unknown) /\ named' = [named EXCEPT ![c] = x]
        <5>1. PICK x \in {head, Unknown} :
                Reads(c, x, Unknown) /\ named' = [named EXCEPT ![c] = x]
          BY <4>2
        <5>2. x \in Commits
          BY DEF TypeOK, Commits
        <5>3. QED BY <5>1, <5>2, ReadsFacts DEF TypeOK
      <4>3. QED BY <1>2, <2>2, <4>1, <4>2 DEF StartJob
    <3>2. QED BY <1>2, <2>1, <2>2, <3>1 DEF StartJob, TypeOK, Commits
  <2>3. CASE ~kind[c].dispatched
    <3>1. tree' \in [Commands -> Commits]
      <4>1. PICK x \in {head, Default} : tree' = [tree EXCEPT ![c] = x]
        BY <1>2, <2>3 DEF StartJob
      <4>2. x \in Commits
        BY DEF TypeOK, Commits
      <4>3. QED BY <4>1, <4>2 DEF TypeOK
    <3>2. reaction' \in [Commands -> SUBSET {"eyes", "rocket", "confused"}]
      BY <1>2, <2>3, EyesFacts DEF StartJob
    <3>3. UNCHANGED <<named, faults, unread>>
      BY <1>2, <2>3 DEF StartJob
    <3>4. UNCHANGED <<pull, said, checks, statuses, sent, kind, diff, failed, tries, payload,
                      ending, publish, history>>
      BY <1>2 DEF StartJob
    <3>5. QED BY <2>1, <3>1, <3>2, <3>3, <3>4 DEF TypeOK
  <2>4. QED BY <2>2, <2>3
<1>3. ASSUME NEW c \in Commands, Ignore(c) PROVE TypeOK'
  BY <1>3, ReturnsFacts DEF Ignore, TypeOK, Outcomes
<1>4. ASSUME NEW c \in Commands, ReplyAtOnce(c) PROVE TypeOK'
  BY <1>4, AnswerFacts DEF ReplyAtOnce, TypeOK
<1>5. ASSUME NEW c \in Commands, SendHosted(c) PROVE TypeOK'
  <2>1. sent' \in [Commands -> Nat]
    BY <1>5 DEF SendHosted, TypeOK
  <2>2. QED BY <1>5, <2>1, AnswerFacts DEF SendHosted, TypeOK
<1>6. ASSUME NEW c \in Commands, EnterHandler(c) PROVE TypeOK'
  <2>1. /\ pc' \in [Commands -> Stages] /\ outcome' \in [Commands -> Outcomes]
        /\ audit' \in [Commands -> {"none", "posted", "unposted"}]
    BY <1>6, RaisesFacts, GotoFacts DEF EnterHandler, TypeOK, Stages
  <2>2. named' \in [Commands -> Commits]
    BY <1>6 DEF EnterHandler, TypeOK, Commits
  <2>3. QED BY <1>6, <2>1, <2>2 DEF EnterHandler, TypeOK
<1>7. ASSUME NEW c \in Commands, ReadHead(c) PROVE TypeOK'
  <2>1. PICK x \in {head, Default} : Reads(c, x, Default) /\ named' = [named EXCEPT ![c] = x]
    BY <1>7 DEF ReadHead
  <2>2. x \in Commits
    BY DEF TypeOK, Commits
  <2>3. named' \in [Commands -> Commits] /\ pc' \in [Commands -> Stages]
    BY <1>7, <2>1, <2>2, GotoFacts DEF ReadHead, TypeOK, Stages
  <2>4. faults' \in Nat /\ unread' \in [Commands -> BOOLEAN]
    BY <2>1, ReadsFacts
  <2>5. QED BY <1>7, <2>3, <2>4 DEF ReadHead, TypeOK
<1>8. ASSUME NEW c \in Commands, FindClosed(c) PROVE TypeOK'
  BY <1>8, GotoFacts DEF FindClosed, TypeOK, Stages
<1>9. ASSUME NEW c \in Commands, ReadDiff(c) PROVE TypeOK'
  <2>1. PICK x \in {head, Unknown} : Reads(c, x, Unknown) /\ diff' = [diff EXCEPT ![c] = x]
    BY <1>9 DEF ReadDiff
  <2>2. x \in Commits
    BY DEF TypeOK, Commits
  <2>3. diff' \in [Commands -> Commits] /\ pc' \in [Commands -> Stages]
    BY <1>9, <2>1, <2>2, GotoFacts DEF ReadDiff, TypeOK, Stages
  <2>4. faults' \in Nat /\ unread' \in [Commands -> BOOLEAN]
    BY <2>1, ReadsFacts
  <2>5. QED BY <1>9, <2>3, <2>4 DEF ReadDiff, TypeOK
<1>10. ASSUME NEW c \in Commands, Analyse(c) PROVE TypeOK'
  <2>1. Payload(c, Fallback(c)) \in Check
    BY PayloadFacts DEF Commits
  <2>2. CASE Goto(c, "label") /\ UNCHANGED <<tries, payload, ending>>
    BY <1>10, <2>2, GotoFacts DEF Analyse, TypeOK, Stages
  <2>3. CASE payload' = [payload EXCEPT ![c] = Payload(c, Fallback(c))] /\ Answer(c)
    <3>1. payload' \in [Commands -> Check \cup {NoPayload}]
      BY <2>1, <2>3 DEF TypeOK
    <3>2. QED BY <1>10, <2>3, <3>1, AnswerFacts DEF Analyse, TypeOK
  <2>4. CASE Answer(c) /\ UNCHANGED payload
    BY <1>10, <2>4, AnswerFacts DEF Analyse, TypeOK
  <2>5. QED BY <1>10, <2>2, <2>3, <2>4 DEF Analyse
<1>11. ASSUME NEW c \in Commands, HandlerRaises(c) PROVE TypeOK'
  BY <1>11, RaisesFacts, FaultFacts DEF HandlerRaises, TypeOK
<1>12. ASSUME NEW c \in Commands, Label(c) PROVE TypeOK'
  <2>1. PICK x \in {head, Fallback(c)} :
          Reads(c, x, Fallback(c)) /\ payload' = [payload EXCEPT ![c] = Payload(c, x)]
    BY <1>12 DEF Label
  <2>2. Payload(c, x) \in Check
    BY PayloadFacts DEF TypeOK, Commits
  <2>3. payload' \in [Commands -> Check \cup {NoPayload}]
    BY <2>1, <2>2 DEF TypeOK
  <2>4. pc' \in [Commands -> Stages]
    BY <1>12, GotoFacts DEF Label, Stages
  <2>5. tries' \in [Commands -> Nat]
    BY <1>12, FlowAssumption DEF FlowAssumption, Label, TypeOK
  <2>6. QED BY <1>12, <2>1, <2>3, <2>4, <2>5, ReadsFacts DEF Label, TypeOK
<1>13. ASSUME NEW c \in Commands, CheckAcknowledged(c) \/ CheckUnanswered(c) \/ CheckForbidden(c)
       PROVE  TypeOK'
  <2>1. faults' \in Nat
    BY <1>13, FaultFacts DEF CheckAcknowledged, CheckUnanswered, CheckForbidden, TypeOK
  <2>2. checks' \in Seq(Check)
    <3>1. CASE UNCHANGED checks
      BY <3>1 DEF TypeOK
    <3>2. CASE pc[c] = "check" /\ checks' = Append(checks, payload[c])
      <4>1. payload[c] \in Check
        BY <3>2 DEF Staged, TypeOK
      <4>2. QED BY <3>2, <4>1, AppendFacts DEF TypeOK
    <3>3. QED BY <1>13, <3>1, <3>2 DEF CheckAcknowledged, CheckUnanswered, CheckForbidden
  <2>3. pc' \in [Commands -> Stages] /\ tries' \in [Commands -> Nat]
    <3>1. CASE ThenComment(c)
      BY <3>1, FlowAssumption DEF FlowAssumption, ThenComment, Goto, TypeOK, Stages
    <3>2. CASE tries[c] > 1 /\ TryAgain(c)
      BY <3>2 DEF TryAgain, TypeOK
    <3>3. QED BY <1>13, <3>1, <3>2 DEF CheckAcknowledged, CheckUnanswered, CheckForbidden
  <2>4. QED
    BY <1>13, <2>1, <2>2, <2>3 DEF CheckAcknowledged, CheckUnanswered, CheckForbidden, TypeOK
<1>14. ASSUME NEW c \in Commands,
              CommentAcknowledged(c) \/ CommentUnanswered(c) \/ CommentForbidden(c)
       PROVE  TypeOK'
  <2>1. faults' \in Nat
    BY <1>14, FaultFacts DEF CommentAcknowledged, CommentUnanswered, CommentForbidden, TypeOK
  <2>2. said' \in [Commands -> Nat] /\ lost' \in [Commands -> Nat]
    <3>1. CASE UNCHANGED <<said, lost>>
      BY <3>1 DEF TypeOK
    <3>2. CASE Say(c) /\ UNCHANGED lost
      BY <3>2 DEF Say, TypeOK
    <3>3. CASE Say(c) /\ lost' = [lost EXCEPT ![c] = @ + 1]
      BY <3>3 DEF Say, TypeOK
    <3>4. QED
      BY <1>14, <3>1, <3>2, <3>3 DEF CommentAcknowledged, CommentUnanswered, CommentForbidden
  <2>3. /\ pc' \in [Commands -> Stages] /\ outcome' \in [Commands -> Outcomes]
        /\ audit' \in [Commands -> {"none", "posted", "unposted"}]
        /\ tries' \in [Commands -> Nat]
    <3>1. CASE CommentAcknowledged(c)
      BY <3>1, ReturnsFacts DEF CommentAcknowledged, TypeOK, Outcomes
    <3>2. CASE GiveUp(c) /\ UNCHANGED tries
      BY <3>2, GiveUpFacts DEF TypeOK
    <3>3. CASE tries[c] > 1 /\ TryAgain(c) /\ UNCHANGED ending
      BY <3>3 DEF TryAgain, TypeOK
    <3>4. QED BY <1>14, <3>1, <3>2, <3>3 DEF CommentUnanswered, CommentForbidden
  <2>4. QED
    BY <1>14, <2>1, <2>2, <2>3 DEF CommentAcknowledged, CommentUnanswered, CommentForbidden, TypeOK
<1>15. ASSUME NEW c \in Commands, Unreact(c) \/ React(c) \/ ReactFails(c) PROVE TypeOK'
  <2>1. reaction' \in [Commands -> SUBSET {"eyes", "rocket", "confused"}]
    <3>1. CASE UNCHANGED reaction
      BY <3>1 DEF TypeOK
    <3>2. CASE reaction' = [reaction EXCEPT ![c] = @ \ {"eyes"}]
      BY <3>2 DEF TypeOK
    <3>3. CASE Mark(c)
      BY <3>3 DEF Mark, TypeOK
    <3>4. QED BY <1>15, <3>1, <3>2, <3>3 DEF Unreact, React, ReactFails
  <2>2. /\ pc' \in [Commands -> Stages]
        /\ pub' \in [Commands -> {"idle", "resolve", "post", "probe", "done"}]
    BY <1>15, GotoFacts DEF Unreact, React, ReactFails, Completes, TypeOK, Stages
  <2>3. faults' \in Nat /\ unmarked' \in [Commands -> BOOLEAN]
    BY <1>15, FaultFacts DEF Unreact, React, ReactFails, TypeOK
  <2>4. QED BY <1>15, <2>1, <2>2, <2>3 DEF Unreact, React, ReactFails, TypeOK
<1>16. ASSUME NEW c \in Commands, Cancel(c) PROVE TypeOK'
  BY <1>16, RaisesFacts, FaultFacts DEF Cancel, TypeOK
<1>17. ASSUME NEW c \in Commands, LoseRunner(c) PROVE TypeOK'
  BY <1>17, GotoFacts, FaultFacts DEF LoseRunner, TypeOK, Stages, Outcomes
<1>18. ASSUME NEW c \in Commands, Resolve(c) PROVE TypeOK'
  <2>1. payload[c].label \in Commits
    BY <1>18 DEF Resolve, Staged, TypeOK, Check
  <2>2. target' \in [Commands -> Commits] /\ faults' \in Nat /\ unread' \in [Commands -> BOOLEAN]
    <3>1. CASE target' = [target EXCEPT ![c] = payload[c].label] /\ UNCHANGED <<faults, unread>>
      BY <2>1, <3>1 DEF TypeOK
    <3>2. CASE \E x \in {head, payload[c].label} :
                 Reads(c, x, payload[c].label) /\ target' = [target EXCEPT ![c] = x]
      <4>1. PICK x \in {head, payload[c].label} :
              Reads(c, x, payload[c].label) /\ target' = [target EXCEPT ![c] = x]
        BY <3>2
      <4>2. x \in Commits
        BY <2>1 DEF TypeOK, Commits
      <4>3. QED BY <4>1, <4>2, ReadsFacts DEF TypeOK
    <3>3. QED BY <1>18, <3>1, <3>2 DEF Resolve
  <2>3. QED BY <1>18, <2>2 DEF Resolve, TypeOK
<1>19. ASSUME NEW c \in Commands, PublishDeferred(c) \/ PublishFails(c) PROVE TypeOK'
  <2>1. Retargeted(c) \in Check
    BY <1>19, RetargetedFacts DEF PublishDeferred, PublishFails, Staged
  <2>2. checks' \in Seq(Check)
    <3>1. checks \in Seq(Check) /\ checks' \in {checks, Append(checks, Retargeted(c))}
      BY <1>19 DEF PublishDeferred, PublishFails, TypeOK
    <3>2. QED BY <2>1, <3>1, AppendFacts
  <2>3. faults' \in Nat /\ pub' \in [Commands -> {"idle", "resolve", "post", "probe", "done"}]
    BY <1>19, FaultFacts DEF PublishDeferred, PublishFails, TypeOK
  <2>4. QED BY <1>19, <2>2, <2>3 DEF PublishDeferred, PublishFails, TypeOK
<1>20. ASSUME NEW c \in Commands, Probe(c) PROVE TypeOK'
  <2>1. Retargeted(c) \in Check
    BY <1>20, RetargetedFacts DEF Probe, Staged
  <2>2. statuses' \in Seq(Check)
    <3>1. statuses \in Seq(Check) /\ statuses' \in {statuses, Append(statuses, Retargeted(c))}
      BY <1>20 DEF Probe, TypeOK
    <3>2. QED BY <2>1, <3>1, AppendFacts
  <2>3. QED BY <1>20, <2>2 DEF Probe, TypeOK
<1>21. CASE UNCHANGED vars
  BY <1>21 DEF TypeOK
<1>22. ASSUME NEW c \in Commands, StartFails(c) PROVE TypeOK'
  <2>1. reaction' \in [Commands -> SUBSET {"eyes", "rocket", "confused"}]
    BY <1>22, EyesFacts DEF StartFails, TypeOK
  <2>2. Fault /\ Raises(c) /\ UNCHANGED <<pull, said, checks, statuses, sent, kind, reads, failed,
                                         tries, payload, publish, history>>
    BY <1>22 DEF StartFails
  <2>3. /\ faults' \in Nat
        /\ pc' \in [Commands -> Stages] /\ outcome' \in [Commands -> Outcomes]
        /\ audit' \in [Commands -> {"none", "posted", "unposted"}]
    BY <2>2, RaisesFacts, FaultFacts
  <2>4. QED BY <2>1, <2>2, <2>3 DEF TypeOK
<1>23. QED
  BY <1>1, <1>2, <1>3, <1>4, <1>5, <1>6, <1>7, <1>8, <1>9, <1>10, <1>11, <1>12, <1>13, <1>14,
     <1>15, <1>16, <1>17, <1>18, <1>19, <1>20, <1>21, <1>22 DEF Next, RunStep, PublisherStep

-----------------------------------------------------------------------------
(* Moves: how far a step lets a run go on                                  *)

LEMMA AnswerMoves ==
  ASSUME TypeOK, NEW c \in Commands, Answer(c)
  PROVE  pc'[c] \in {"comment", "react"} /\ \A d \in Commands \ {c} : pc'[d] = pc[d]
BY DEF TypeOK, Answer, Returns, Raises, Goto

LEMMA GiveUpMoves ==
  ASSUME TypeOK, NEW c \in Commands, GiveUp(c)
  PROVE  pc'[c] = "react" /\ \A d \in Commands \ {c} : pc'[d] = pc[d]
BY DEF TypeOK, GiveUp, Returns, Raises, Goto

LEMMA CommentMoves ==
  ASSUME TypeOK, NEW c \in Commands,
         CommentAcknowledged(c) \/ CommentUnanswered(c) \/ CommentForbidden(c)
  PROVE  /\ pc[c] = "comment" /\ pc'[c] \in {"comment", "react"}
         /\ \A d \in Commands \ {c} : pc'[d] = pc[d]
<1>1. CASE CommentAcknowledged(c)
  BY <1>1 DEF CommentAcknowledged, Returns, Goto, TypeOK
<1>2. CASE CommentUnanswered(c)
  BY <1>2, GiveUpMoves DEF CommentUnanswered, TryAgain
<1>3. CASE CommentForbidden(c)
  BY <1>3, GiveUpMoves DEF CommentForbidden
<1>4. QED BY <1>1, <1>2, <1>3

LEMMA StartFailsMoves ==
  ASSUME TypeOK, NEW c \in Commands, StartFails(c)
  PROVE  /\ pc[c] = "new" /\ pc'[c] = "react"
         /\ \A d \in Commands \ {c} : pc'[d] = pc[d]
         /\ UNCHANGED <<pull, checks, kind, reads, payload, publish, said, lost, tries>>
BY DEF TypeOK, StartFails, Raises, Goto

\* The steps of the reaction change the reaction and end the job, no more.
LEMMA ReactionMoves ==
  ASSUME TypeOK, NEW c \in Commands, Unreact(c) \/ React(c) \/ ReactFails(c)
  PROVE  /\ pc[c] \in {"react", "mark"} /\ pc'[c] \in {"mark", "ended"}
         /\ \A d \in Commands \ {c} : pc'[d] = pc[d] /\ pub'[d] = pub[d]
         /\ UNCHANGED pub \/ (pc'[c] = "ended" /\ pub'[c] \in {"resolve", "done"})
         /\ pub'[c] = "resolve" => pub[c] = "resolve" \/ payload[c] # NoPayload
         /\ UNCHANGED <<pull, checks, kind, reads, payload, target, said, lost, tries, ending>>
<1>1. CASE Completes(c)
  <2>1. /\ pc'[c] = "ended" /\ pub'[c] \in {"resolve", "done"}
        /\ pub'[c] = "resolve" => payload[c] # NoPayload
        /\ \A d \in Commands \ {c} : pc'[d] = pc[d] /\ pub'[d] = pub[d]
    BY <1>1 DEF Completes, Goto, Uploaded, TypeOK
  <2>2. QED BY <2>1 DEF Unreact, React, ReactFails
<1>2. CASE Goto(c, "mark") /\ UNCHANGED pub
  BY <1>2 DEF Unreact, React, ReactFails, Goto, TypeOK
<1>3. QED BY <1>1, <1>2 DEF Unreact, React, ReactFails

\* A payload, once written, is a check.
LEMMA PayloadWritten ==
  ASSUME TypeOK, NEW c \in Commands, NEW x \in Commits,
         payload' = [payload EXCEPT ![c] = Payload(c, x)]
  PROVE  payload'[c] = Payload(c, x) /\ payload'[c] # NoPayload
         /\ \A d \in Commands \ {c} : payload'[d] = payload[d]
BY PayloadFacts, FlowAssumption DEF FlowAssumption, TypeOK

LEMMA StagedOn ==
  ASSUME TypeOK, Staged, NEW c \in Commands, pc[c] # "ended",
         pc'[c] \in {"check", "comment", "react"},
         pc'[c] = "check" => payload'[c] # NoPayload,
         \A d \in Commands \ {c} : pc'[d] = pc[d] /\ payload'[d] = payload[d],
         UNCHANGED <<kind, pub>>
  PROVE  Staged'
<1> SUFFICES ASSUME NEW d \in Commands
             PROVE  /\ pc'[d] \in {"readHead", "readDiff", "label"} => Checked(d)'
                    /\ pc'[d] = "check" => payload'[d] # NoPayload
                    /\ pub'[d] # "idle" => pc'[d] = "ended"
                    /\ pub'[d] \in {"resolve", "post", "probe"} => payload'[d] # NoPayload
  BY DEF Staged
<1>1. CASE d = c
  BY <1>1 DEF Staged
<1>2. CASE d # c
  BY <1>2 DEF Staged, Checked
<1>3. QED BY <1>1, <1>2

LEMMA StagedStep == TypeOK /\ Staged /\ [Next]_vars => Staged'
<1> SUFFICES ASSUME TypeOK, Staged, [Next]_vars PROVE Staged'
  OBVIOUS
<1> USE DEF Checked
<1>1. CASE Push
  BY <1>1 DEF Push, Staged
<1>2. ASSUME NEW c \in Commands, StartJob(c) PROVE Staged'
  BY <1>2 DEF StartJob, Goto, Staged, TypeOK
<1>3. ASSUME NEW c \in Commands, Ignore(c) PROVE Staged'
  BY <1>3 DEF Ignore, Returns, Goto, Staged, TypeOK
<1>4. ASSUME NEW c \in Commands, ReplyAtOnce(c) PROVE Staged'
  BY <1>4, AnswerMoves, StagedOn DEF ReplyAtOnce
<1>5. ASSUME NEW c \in Commands, SendHosted(c) PROVE Staged'
  BY <1>5, AnswerMoves, StagedOn DEF SendHosted
<1>6. ASSUME NEW c \in Commands, EnterHandler(c) PROVE Staged'
  BY <1>6 DEF EnterHandler, Raises, Goto, Staged, TypeOK
<1>7. ASSUME NEW c \in Commands, ReadHead(c) PROVE Staged'
  BY <1>7 DEF ReadHead, Goto, Staged, TypeOK
<1>8. ASSUME NEW c \in Commands, FindClosed(c) PROVE Staged'
  BY <1>8 DEF FindClosed, Goto, Staged, TypeOK
<1>9. ASSUME NEW c \in Commands, ReadDiff(c) PROVE Staged'
  BY <1>9 DEF ReadDiff, Goto, Staged, TypeOK
<1>10. ASSUME NEW c \in Commands, Analyse(c) PROVE Staged'
  <2>1. CASE Checked(c) /\ Goto(c, "label") /\ UNCHANGED <<tries, payload, ending>>
    BY <1>10, <2>1 DEF Analyse, Goto, Staged, TypeOK
  <2>2. CASE payload' = [payload EXCEPT ![c] = Payload(c, Fallback(c))] /\ Answer(c)
    <3>1. Fallback(c) \in Commits
      BY PayloadFacts DEF Commits
    <3>2. QED BY <1>10, <2>2, <3>1, AnswerMoves, PayloadWritten, StagedOn DEF Analyse
  <2>3. CASE Answer(c) /\ UNCHANGED payload
    BY <1>10, <2>3, AnswerMoves, StagedOn DEF Analyse
  <2>4. QED BY <1>10, <2>1, <2>2, <2>3 DEF Analyse
<1>11. ASSUME NEW c \in Commands, HandlerRaises(c) PROVE Staged'
  BY <1>11 DEF HandlerRaises, Raises, Goto, Staged, TypeOK
<1>12. ASSUME NEW c \in Commands, Label(c) PROVE Staged'
  <2>1. PICK x \in {head, Fallback(c)} : payload' = [payload EXCEPT ![c] = Payload(c, x)]
    BY <1>12 DEF Label
  <2>2. x \in Commits
    BY PayloadFacts DEF TypeOK, Commits
  <2>3. pc'[c] \in {"check", "comment"} /\ \A d \in Commands \ {c} : pc'[d] = pc[d]
    BY <1>12 DEF Label, Goto, TypeOK
  <2>4. QED BY <1>12, <2>1, <2>2, <2>3, PayloadWritten, StagedOn DEF Label
<1>13. ASSUME NEW c \in Commands, CheckAcknowledged(c) \/ CheckUnanswered(c) \/ CheckForbidden(c)
       PROVE  Staged'
  BY <1>13 DEF CheckAcknowledged, CheckUnanswered, CheckForbidden, ThenComment, TryAgain, Goto,
               Staged, TypeOK
<1>14. ASSUME NEW c \in Commands,
              CommentAcknowledged(c) \/ CommentUnanswered(c) \/ CommentForbidden(c)
       PROVE  Staged'
  BY <1>14, CommentMoves, StagedOn DEF CommentAcknowledged, CommentUnanswered, CommentForbidden
<1>15. ASSUME NEW c \in Commands, Unreact(c) \/ React(c) \/ ReactFails(c) PROVE Staged'
  BY <1>15, ReactionMoves DEF Staged
<1>16. ASSUME NEW c \in Commands, Cancel(c) PROVE Staged'
  BY <1>16 DEF Cancel, Raises, Goto, Staged, TypeOK
<1>17. ASSUME NEW c \in Commands, LoseRunner(c) PROVE Staged'
  BY <1>17 DEF LoseRunner, Goto, Staged, TypeOK
<1>18. ASSUME NEW c \in Commands, PublisherStep(c) PROVE Staged'
  BY <1>18 DEF PublisherStep, Resolve, PublishDeferred, PublishFails, Probe, Staged, TypeOK
<1>19. CASE UNCHANGED vars
  BY <1>19 DEF Staged
<1>20. ASSUME NEW c \in Commands, StartFails(c) PROVE Staged'
  BY <1>20, StartFailsMoves, StagedOn
<1>21. QED
  BY <1>1, <1>2, <1>3, <1>4, <1>5, <1>6, <1>7, <1>8, <1>9, <1>10, <1>11, <1>12, <1>13, <1>14,
     <1>15, <1>16, <1>17, <1>18, <1>19, <1>20 DEF Next, RunStep

-----------------------------------------------------------------------------
(* The reads of the pull request are in order                              *)

BeforeDiff == {"new", "route", "readHead", "readDiff"}

\* A run that moves on, past its reads, changes nothing of them.
LEMMA ReadingOn ==
  ASSUME TypeOK, Reading, NEW c \in Commands, UNCHANGED <<head, tree, diff, kind>>,
         pc'[c] \notin BeforeDiff, \A d \in Commands \ {c} : pc'[d] = pc[d]
  PROVE  Reading'
<1> SUFFICES ASSUME NEW d \in Commands
             PROVE  /\ pc'[d] \in BeforeDiff => diff[d] = Unknown
                    /\ kind[d].dry => pc'[d] \notin {"readHead", "readDiff"}
  BY DEF Reading, BeforeDiff
<1>1. CASE d = c
  BY <1>1 DEF BeforeDiff
<1>2. CASE d # c
  BY <1>2 DEF Reading, BeforeDiff
<1>3. QED BY <1>1, <1>2

LEMMA ReadingStep == TypeOK /\ Staged /\ Reading /\ [Next]_vars => Reading'
<1> SUFFICES ASSUME TypeOK, Staged, Reading, [Next]_vars PROVE Reading'
  OBVIOUS
<1>1. CASE Push
  BY <1>1 DEF Push, Reading, TypeOK
<1>2. ASSUME NEW c \in Commands, StartJob(c) PROVE Reading'
  <2> SUFFICES ASSUME NEW d \in Commands
               PROVE  /\ tree'[d] \in Nat => tree'[d] <= head
                      /\ tree'[d] \in Nat /\ diff[d] \in Nat => tree'[d] <= diff[d]
                      /\ pc'[d] \in BeforeDiff => diff[d] = Unknown
                      /\ kind[d].dispatched => tree'[d] \notin Nat
                      /\ kind[d].dry => pc'[d] \notin {"readHead", "readDiff"}
    BY <1>2 DEF StartJob, Reading, BeforeDiff
  <2>1. CASE d # c
    BY <1>2, <2>1 DEF StartJob, Goto, Reading, BeforeDiff, TypeOK
  <2>2. CASE d = c /\ kind[c].dispatched
    <3>1. tree'[c] = Default /\ pc'[c] = "route" /\ diff[c] = Unknown
      BY <1>2, <2>2 DEF StartJob, Goto, Reading, TypeOK
    <3>2. QED BY <2>2, <3>1, FlowAssumption DEF FlowAssumption
  <2>3. CASE d = c /\ ~kind[c].dispatched
    <3>1. PICK x \in {head, Default} : tree' = [tree EXCEPT ![c] = x]
      BY <1>2, <2>3 DEF StartJob
    <3>2. pc'[c] = "route" /\ diff[c] = Unknown /\ tree'[c] = x
      BY <1>2, <3>1 DEF StartJob, Goto, Reading, TypeOK
    <3>3. QED BY <2>3, <3>2, FlowAssumption DEF FlowAssumption, TypeOK
  <2>4. QED BY <2>1, <2>2, <2>3
<1>3. ASSUME NEW c \in Commands, Ignore(c) PROVE Reading'
  BY <1>3, ReadingOn DEF Ignore, Returns, Goto, BeforeDiff, TypeOK
<1>4. ASSUME NEW c \in Commands, ReplyAtOnce(c) \/ SendHosted(c) PROVE Reading'
  BY <1>4, AnswerMoves, ReadingOn DEF ReplyAtOnce, SendHosted, BeforeDiff
<1>5. ASSUME NEW c \in Commands, EnterHandler(c) PROVE Reading'
  <2>1. pc'[c] \in {"react", "analyse", "readHead"} /\ diff[c] = Unknown
    BY <1>5 DEF EnterHandler, Raises, Goto, Reading, TypeOK
  <2>2. pc'[c] = "readHead" => ~kind[c].dry
    BY <1>5 DEF EnterHandler, Raises, Goto, TypeOK
  <2>3. \A d \in Commands \ {c} : pc'[d] = pc[d]
    BY <1>5 DEF EnterHandler, Raises, Goto, TypeOK
  <2>4. QED BY <1>5, <2>1, <2>2, <2>3 DEF EnterHandler, Reading
<1>6. ASSUME NEW c \in Commands, ReadHead(c) PROVE Reading'
  BY <1>6 DEF ReadHead, Goto, Reading, TypeOK
<1>7. ASSUME NEW c \in Commands, FindClosed(c) PROVE Reading'
  BY <1>7, ReadingOn DEF FindClosed, Goto, BeforeDiff, TypeOK
<1>8. ASSUME NEW c \in Commands, ReadDiff(c) PROVE Reading'
  <2>1. PICK x \in {head, Unknown} : diff' = [diff EXCEPT ![c] = x]
    BY <1>8 DEF ReadDiff
  <2>2. pc'[c] = "analyse" /\ diff'[c] = x /\ ~kind[c].dry
    BY <1>8, <2>1 DEF ReadDiff, Goto, Reading, TypeOK
  <2>3. \A d \in Commands \ {c} : pc'[d] = pc[d] /\ diff'[d] = diff[d]
    BY <1>8, <2>1 DEF ReadDiff, Goto, TypeOK
  <2> SUFFICES ASSUME NEW d \in Commands
               PROVE  /\ diff'[d] \in Nat => diff'[d] <= head
                      /\ diff'[d] \in Nat \cup {Unknown}
                      /\ tree[d] \in Nat /\ diff'[d] \in Nat => tree[d] <= diff'[d]
                      /\ pc'[d] \in BeforeDiff => diff'[d] = Unknown
                      /\ kind[d].dry => diff'[d] = Unknown /\ pc'[d] \notin {"readHead", "readDiff"}
    BY <1>8 DEF ReadDiff, Reading, BeforeDiff
  <2>4. CASE d = c
    BY <2>2, <2>4, FlowAssumption DEF FlowAssumption, Reading, BeforeDiff, TypeOK
  <2>5. CASE d # c
    BY <2>3, <2>5 DEF Reading, BeforeDiff
  <2>6. QED BY <2>4, <2>5
<1>9. ASSUME NEW c \in Commands, Analyse(c) PROVE Reading'
  <2>1. pc'[c] \in {"label", "comment", "react"} /\ \A d \in Commands \ {c} : pc'[d] = pc[d]
    BY <1>9, AnswerMoves DEF Analyse, Goto, TypeOK
  <2>2. QED BY <1>9, <2>1, ReadingOn DEF Analyse, BeforeDiff
<1>10. ASSUME NEW c \in Commands, HandlerRaises(c) PROVE Reading'
  BY <1>10, ReadingOn DEF HandlerRaises, Raises, Goto, BeforeDiff, TypeOK
<1>11. ASSUME NEW c \in Commands, Label(c) PROVE Reading'
  BY <1>11, ReadingOn DEF Label, Goto, BeforeDiff, TypeOK
<1>12. ASSUME NEW c \in Commands, CheckAcknowledged(c) \/ CheckUnanswered(c) \/ CheckForbidden(c)
       PROVE  Reading'
  BY <1>12, ReadingOn DEF CheckAcknowledged, CheckUnanswered, CheckForbidden, ThenComment, TryAgain,
                          Goto, BeforeDiff, TypeOK
<1>13. ASSUME NEW c \in Commands,
              CommentAcknowledged(c) \/ CommentUnanswered(c) \/ CommentForbidden(c)
       PROVE  Reading'
  BY <1>13, CommentMoves, ReadingOn DEF CommentAcknowledged, CommentUnanswered, CommentForbidden,
                                        BeforeDiff
<1>14. ASSUME NEW c \in Commands, Cancel(c) \/ LoseRunner(c) PROVE Reading'
  BY <1>14, ReadingOn DEF Cancel, LoseRunner, Raises, Goto, BeforeDiff, TypeOK
<1>15. ASSUME NEW c \in Commands, PublisherStep(c) PROVE Reading'
  BY <1>15 DEF PublisherStep, Resolve, PublishDeferred, PublishFails, Probe, Reading
<1>16. CASE UNCHANGED vars
  BY <1>16 DEF Reading
<1>17. ASSUME NEW c \in Commands, StartFails(c) PROVE Reading'
  BY <1>17, StartFailsMoves, ReadingOn DEF BeforeDiff
<1>18. ASSUME NEW c \in Commands, Unreact(c) \/ React(c) \/ ReactFails(c) PROVE Reading'
  BY <1>18, ReactionMoves, ReadingOn DEF BeforeDiff
<1>19. QED
  BY <1>1, <1>2, <1>3, <1>4, <1>5, <1>6, <1>7, <1>8, <1>9, <1>10, <1>11, <1>12, <1>13, <1>14,
     <1>15, <1>16, <1>17, <1>18 DEF Next, RunStep

-----------------------------------------------------------------------------
(* Payloads and check runs                                                 *)

LEMMA CheckAt ==
  ASSUME TypeOK, NEW i \in 1..Len(checks)
  PROVE  checks[i].by \in Commands
<1>1. checks \in Seq(Check)
  BY DEF TypeOK
<1>2. checks[i] \in Check
  BY <1>1
<1>3. QED BY <1>2 DEF Check

\* What publishing relies on is not disturbed.
LEMMA PublishingKept ==
  ASSUME TypeOK, Publishing, UNCHANGED <<payload, target, tree, kind, checks>>,
         head' \in Nat, head <= head',
         \A d \in Commands : /\ pub'[d] = "post" => pub[d] = "post"
                             /\ pc[d] # "new" => pc'[d] # "new"
                             /\ unread[d] => unread'[d]
  PROVE  Publishing'
<1>1. ASSUME NEW d \in Commands
      PROVE  Filed(d)' /\ (pub'[d] = "post" /\ ~unread'[d] => Behind(payload[d].about, target[d]))
  <2>1. Filed(d) /\ (payload[d] # NoPayload => payload[d].by = d)
    BY DEF Publishing, Filed
  <2>2. payload[d] # NoPayload => payload[d].about \in Commits
    BY DEF TypeOK, Check
  <2>3. Filed(d)'
    BY <2>1, <2>2 DEF Filed, Sound, Covers, Checked, TypeOK
  <2>4. QED BY <2>3 DEF Publishing
<1>2. ASSUME NEW i \in 1..Len(checks)
      PROVE  Stands(i)'
  <2>1. checks[i].by \in Commands
    BY CheckAt
  <2>2. QED BY <2>1 DEF Publishing, Stands, Sound, Covers, Checked
<1>3. QED BY <1>1, <1>2 DEF Publishing, Behind

\* A check that is sound and covers what it is about may be published.
LEMMA PublishingAppends ==
  ASSUME TypeOK, Publishing, NEW k \in Check, checks' \in {checks, Append(checks, k)},
         Sound(k), Covers(k), Checked(k.by), pc[k.by] # "new",
         UNCHANGED <<head, payload, target, tree, kind, unread>>,
         \A d \in Commands : /\ pub'[d] = "post" => pub[d] = "post"
                             /\ pc[d] # "new" => pc'[d] # "new"
  PROVE  Publishing'
<1>1. ASSUME NEW d \in Commands
      PROVE  Filed(d)' /\ (pub'[d] = "post" /\ ~unread[d] => Behind(payload[d].about, target[d]))
  <2>1. Filed(d) /\ (payload[d] # NoPayload => payload[d].by = d)
    BY DEF Publishing, Filed
  <2>2. Filed(d)'
    BY <2>1 DEF Filed, Sound, Covers, Checked
  <2>3. QED BY <2>2 DEF Publishing
<1>2. ASSUME NEW i \in 1..Len(checks')
      PROVE  Stands(i)'
  <2>1. checks \in Seq(Check)
    BY DEF TypeOK
  <2>2. checks'[i] = k \/ (i \in 1..Len(checks) /\ checks'[i] = checks[i])
    BY <2>1, AppendFacts
  <2>3. CASE checks'[i] = k
    <3>1. k.by \in Commands
      BY DEF Check
    <3>2. QED BY <2>3, <3>1 DEF Stands, Sound, Covers, Checked
  <2>4. CASE i \in 1..Len(checks) /\ checks'[i] = checks[i]
    <3>1. checks[i].by \in Commands
      BY <2>4, CheckAt
    <3>2. QED BY <2>4, <3>1 DEF Publishing, Stands, Sound, Covers, Checked
  <2>5. QED BY <2>2, <2>3, <2>4
<1>3. QED BY <1>1, <1>2 DEF Publishing, Behind

\* What a payload is about.
LEMMA SubjectFacts ==
  ASSUME NEW c \in Commands
  PROVE  /\ Subject(c) \in {Unknown, diff[c], tree[c]}
         /\ kind[c].route = "patch" => Subject(c) \in {Unknown, diff[c]}
BY DEF Subject

LEMMA AboutSound ==
  ASSUME TypeOK, Reading, NEW c \in Commands, NEW x \in Commits
  PROVE  /\ Sound(Payload(c, x)) /\ Payload(c, x).by = c
         /\ Payload(c, x).label = x /\ Payload(c, x).about = Subject(c)
         /\ Subject(c) \in Nat => Subject(c) <= head
<1>1. Subject(c) \in {Unknown, diff[c], tree[c]}
  BY SubjectFacts
<1>2. QED BY <1>1, FlowAssumption DEF FlowAssumption, Reading, Sound, Payload, TypeOK

\* A run may file a payload that is no older than what it is about.
LEMMA PublishingFiles ==
  ASSUME TypeOK, Reading, Publishing, NEW c \in Commands, NEW x \in Commits, Checked(c),
         pc[c] # "new", payload' = [payload EXCEPT ![c] = Payload(c, x)], pub[c] # "post",
         ~unread'[c] => Behind(Subject(c), x),
         UNCHANGED <<head, checks, target, tree, kind, pub>>,
         \A d \in Commands : /\ pc[d] # "new" => pc'[d] # "new"
                             /\ unread[d] => unread'[d]
  PROVE  Publishing'
<1>1. ASSUME NEW d \in Commands
      PROVE  Filed(d)' /\ (pub[d] = "post" /\ ~unread'[d] => Behind(payload'[d].about, target[d]))
  <2>1. CASE d = c
    <3>1. payload'[c] = Payload(c, x)
      BY PayloadWritten
    <3>2. Filed(c)'
      BY <3>1, AboutSound DEF Filed, Sound, Covers, Checked
    <3>3. QED BY <2>1, <3>2
  <2>2. CASE d # c
    <3>1. payload'[d] = payload[d] /\ Filed(d) /\ (payload[d] # NoPayload => payload[d].by = d)
      BY <2>2, PayloadWritten DEF Publishing, Filed
    <3>2. Filed(d)'
      BY <3>1 DEF Filed, Sound, Covers, Checked
    <3>3. QED BY <3>1, <3>2 DEF Publishing
  <2>3. QED BY <2>1, <2>2
<1>2. ASSUME NEW i \in 1..Len(checks)
      PROVE  Stands(i)'
  <2>1. checks[i].by \in Commands
    BY CheckAt
  <2>2. QED BY <2>1 DEF Publishing, Stands, Sound, Covers, Checked
<1>3. QED BY <1>1, <1>2 DEF Publishing, Behind

\* Nobody goes back to the start, and no read that failed is forgotten.
LEMMA Monotone ==
  ASSUME TypeOK, [Next]_vars
  PROVE  \A d \in Commands : /\ pc[d] # "new" => pc'[d] # "new"
                             /\ unread[d] => unread'[d]
<1> DEFINE Goal == \A d \in Commands : /\ pc[d] # "new" => pc'[d] # "new"
                                       /\ unread[d] => unread'[d]
<1>1. CASE Push \/ UNCHANGED vars
  BY <1>1 DEF Push
<1>2. ASSUME NEW c \in Commands, StartJob(c) \/ Resolve(c) PROVE Goal
  <2>1. UNCHANGED unread \/ unread' = [unread EXCEPT ![c] = TRUE]
    BY <1>2 DEF StartJob, Resolve, Reads
  <2>2. UNCHANGED pc \/ pc' = [pc EXCEPT ![c] = "route"]
    BY <1>2 DEF StartJob, Resolve, Goto
  <2>3. QED BY <2>1, <2>2 DEF TypeOK
<1>3. ASSUME NEW c \in Commands, ReadHead(c) \/ ReadDiff(c) \/ Label(c) PROVE Goal
  <2>1. UNCHANGED unread \/ unread' = [unread EXCEPT ![c] = TRUE]
    BY <1>3 DEF ReadHead, ReadDiff, Label, Reads
  <2>2. PICK s \in Stages \ {"new"} : pc' = [pc EXCEPT ![c] = s]
    BY <1>3 DEF ReadHead, ReadDiff, Label, Goto, Stages
  <2>3. QED BY <2>1, <2>2 DEF TypeOK
<1>4. ASSUME NEW c \in Commands, ReplyAtOnce(c) \/ SendHosted(c) \/ Analyse(c) PROVE Goal
  <2>1. pc'[c] # "new" /\ \A d \in Commands \ {c} : pc'[d] = pc[d]
    BY <1>4, AnswerMoves DEF ReplyAtOnce, SendHosted, Analyse, Goto, TypeOK
  <2>2. QED BY <1>4, <2>1 DEF ReplyAtOnce, SendHosted, Analyse
<1>5. ASSUME NEW c \in Commands,
             CommentAcknowledged(c) \/ CommentUnanswered(c) \/ CommentForbidden(c)
      PROVE  Goal
  BY <1>5, CommentMoves DEF CommentAcknowledged, CommentUnanswered, CommentForbidden
<1>6. ASSUME NEW c \in Commands,
             CheckAcknowledged(c) \/ CheckUnanswered(c) \/ CheckForbidden(c)
      PROVE  Goal
  BY <1>6 DEF CheckAcknowledged, CheckUnanswered, CheckForbidden, ThenComment, TryAgain, Goto,
              TypeOK
<1>7. ASSUME NEW c \in Commands,
             \/ Ignore(c) \/ EnterHandler(c) \/ FindClosed(c) \/ HandlerRaises(c)
             \/ Cancel(c) \/ LoseRunner(c)
      PROVE  Goal
  BY <1>7 DEF Ignore, EnterHandler, FindClosed, HandlerRaises, Cancel, LoseRunner, Returns,
              Raises, Goto, TypeOK
<1>8. ASSUME NEW c \in Commands, PublishDeferred(c) \/ PublishFails(c) \/ Probe(c) PROVE Goal
  BY <1>8 DEF PublishDeferred, PublishFails, Probe
<1>9. ASSUME NEW c \in Commands, StartFails(c) PROVE Goal
  BY <1>9, StartFailsMoves
<1>10. ASSUME NEW c \in Commands, Unreact(c) \/ React(c) \/ ReactFails(c) PROVE Goal
  BY <1>10, ReactionMoves
<1>11. QED
  BY <1>1, <1>2, <1>3, <1>4, <1>5, <1>6, <1>7, <1>8, <1>9, <1>10 DEF Next, RunStep, PublisherStep

LEMMA PublishingStep ==
  TypeOK /\ Staged /\ Reading /\ Publishing /\ [Next]_vars => Publishing'
<1> SUFFICES ASSUME TypeOK, Staged, Reading, Publishing, [Next]_vars PROVE Publishing'
  OBVIOUS
<1>0. head \in Nat /\ head <= head
  BY DEF TypeOK
<1>1. CASE Push
  BY <1>1, PublishingKept DEF Push, TypeOK
<1>2. ASSUME NEW c \in Commands, StartJob(c) PROVE Publishing'
  <2>1. \A d \in Commands : /\ pc[d] # "new" => d # c /\ tree'[d] = tree[d]
                            /\ pc'[d] # "new" \/ d # c
    BY <1>2 DEF StartJob, Goto, TypeOK
  <2>2. ASSUME NEW d \in Commands
        PROVE  Filed(d)' /\ (pub[d] = "post" /\ ~unread'[d] => Behind(payload[d].about, target[d]))
    <3>1. Filed(d) /\ (payload[d] # NoPayload => payload[d].by = d)
      BY DEF Publishing, Filed
    <3>2. Filed(d)'
      BY <1>2, <2>1, <3>1, Monotone DEF StartJob, Filed, Sound, Covers, Checked
    <3>3. QED BY <3>2, Monotone DEF Publishing
  <2>3. ASSUME NEW i \in 1..Len(checks) PROVE Stands(i)'
    <3>1. checks[i].by \in Commands /\ checks' = checks /\ kind' = kind
      BY <1>2, CheckAt DEF StartJob
    <3>2. QED BY <2>1, <3>1, Monotone DEF Publishing, Stands, Sound, Covers, Checked
  <2>4. QED BY <1>2, <2>2, <2>3 DEF StartJob, Publishing, Behind
<1>3. ASSUME NEW c \in Commands, Analyse(c) PROVE Publishing'
  <2>1. CASE Checked(c) /\ kind[c].dry /\ payload' = [payload EXCEPT ![c] = Payload(c, Fallback(c))]
    <3>1. Fallback(c) \in Commits /\ Subject(c) \notin Nat
      <4>1. diff[c] = Unknown /\ tree[c] \notin Nat
        BY <2>1, FlowAssumption DEF FlowAssumption, Reading, TypeOK
      <4>2. QED BY <4>1, SubjectFacts, PayloadFacts, FlowAssumption DEF FlowAssumption, Commits
    <3>2. pub[c] # "post" /\ pc[c] # "new"
      BY <1>3 DEF Analyse, Staged
    <3>3. QED BY <1>3, <2>1, <3>1, <3>2, Monotone, PublishingFiles DEF Analyse, Behind
  <2>2. CASE UNCHANGED payload
    BY <1>0, <1>3, <2>2, Monotone, PublishingKept DEF Analyse
  <2>3. QED BY <1>3, <2>1, <2>2 DEF Analyse
<1>4. ASSUME NEW c \in Commands, Label(c) PROVE Publishing'
  <2>1. PICK x \in {head, Fallback(c)} :
          Reads(c, x, Fallback(c)) /\ payload' = [payload EXCEPT ![c] = Payload(c, x)]
    BY <1>4 DEF Label
  <2>2. x \in Commits
    BY PayloadFacts DEF TypeOK, Commits
  <2>3. ~unread'[c] => Behind(Subject(c), x)
    <3>1. ~unread'[c] => x = head
      BY <2>1 DEF Reads, TypeOK
    <3>2. Subject(c) \in Nat => Subject(c) <= head
      BY <2>2, AboutSound
    <3>3. QED BY <1>0, <3>1, <3>2 DEF Behind
  <2>4. Checked(c) /\ pub[c] # "post" /\ pc[c] # "new"
    BY <1>4 DEF Label, Staged
  <2>5. QED BY <1>4, <2>1, <2>2, <2>3, <2>4, Monotone, PublishingFiles DEF Label
<1>5. ASSUME NEW c \in Commands, CheckAcknowledged(c) \/ CheckUnanswered(c) PROVE Publishing'
  <2>1. /\ payload[c] # NoPayload /\ payload[c] \in Check
        /\ checks' \in {checks, Append(checks, payload[c])}
    BY <1>5 DEF CheckAcknowledged, CheckUnanswered, Staged, TypeOK
  <2>2. /\ payload[c].by = c /\ Checked(c) /\ Sound(payload[c]) /\ Covers(payload[c])
        /\ pc[c] # "new"
    BY <2>1 DEF Publishing, Filed
  <2>3. UNCHANGED <<head, payload, target, tree, kind, unread, pub>>
    BY <1>5 DEF CheckAcknowledged, CheckUnanswered
  <2>4. QED BY <2>1, <2>2, <2>3, Monotone, PublishingAppends
<1>6. ASSUME NEW c \in Commands, Resolve(c) PROVE Publishing'
  <2>1. /\ payload[c] # NoPayload /\ payload[c] \in Check /\ Filed(c)
        /\ UNCHANGED <<head, payload, tree, kind, checks, pc>>
    BY <1>6 DEF Resolve, Staged, Publishing, TypeOK
  <2>2. \A d \in Commands \ {c} : target'[d] = target[d] /\ pub'[d] = pub[d]
    BY <1>6 DEF Resolve, TypeOK
  <2>3. ~unread'[c] => Behind(payload[c].about, target'[c])
    <3>1. CASE target' = [target EXCEPT ![c] = payload[c].label] /\ UNCHANGED unread
      BY <2>1, <3>1 DEF Filed, Covers, TypeOK
    <3>2. CASE \E x \in {head, payload[c].label} :
                 Reads(c, x, payload[c].label) /\ target' = [target EXCEPT ![c] = x]
      <4>1. ~unread'[c] => target'[c] = head
        BY <3>2 DEF Reads, TypeOK
      <4>2. QED BY <1>0, <2>1, <4>1 DEF Filed, Behind
    <3>3. QED BY <1>6, <3>1, <3>2 DEF Resolve
  <2>4. ASSUME NEW d \in Commands
        PROVE  /\ Filed(d)'
               /\ pub'[d] = "post" /\ ~unread'[d] => Behind(payload[d].about, target'[d])
    <3>1. Filed(d) /\ (payload[d] # NoPayload => payload[d].by = d)
      BY DEF Publishing, Filed
    <3>2. Filed(d)'
      BY <2>1, <3>1, Monotone DEF Filed, Sound, Covers, Checked
    <3>3. QED BY <2>2, <2>3, <3>2, Monotone DEF Publishing
  <2>5. ASSUME NEW i \in 1..Len(checks) PROVE Stands(i)'
    BY <2>1, CheckAt, Monotone DEF Publishing, Stands, Sound, Covers, Checked
  <2>6. QED BY <2>1, <2>4, <2>5 DEF Publishing, Behind
<1>7. ASSUME NEW c \in Commands, PublishDeferred(c) \/ PublishFails(c) PROVE Publishing'
  <2>1. /\ pub[c] = "post" /\ payload[c] # NoPayload /\ Filed(c)
        /\ checks' \in {checks, Append(checks, Retargeted(c))}
        /\ UNCHANGED <<head, payload, target, tree, kind, unread, pc>>
        /\ \A d \in Commands : pub'[d] = "post" => pub[d] = "post"
    BY <1>7 DEF PublishDeferred, PublishFails, Staged, Publishing, TypeOK
  <2>2. /\ Retargeted(c) \in Check /\ Retargeted(c).by = c
        /\ Retargeted(c).about = payload[c].about /\ Retargeted(c).label = target[c]
    BY <2>1, RetargetedFacts DEF Filed
  <2>3. Covers(Retargeted(c)) /\ Sound(Retargeted(c))
    BY <2>1, <2>2 DEF Publishing, Filed, Covers, Sound
  <2>4. Checked(c) /\ pc[c] # "new"
    BY <2>1 DEF Filed
  <2>5. QED BY <2>1, <2>2, <2>3, <2>4, PublishingAppends
<1>8. ASSUME UNCHANGED <<payload, target, tree, kind, checks, head>>,
             \A d \in Commands : pub'[d] = "post" => pub[d] = "post"
      PROVE  Publishing'
  BY <1>0, <1>8, Monotone, PublishingKept
<1>9. ASSUME NEW c \in Commands,
             \/ Ignore(c) \/ ReplyAtOnce(c) \/ SendHosted(c) \/ EnterHandler(c)
             \/ ReadHead(c) \/ FindClosed(c) \/ ReadDiff(c) \/ HandlerRaises(c)
             \/ CheckForbidden(c) \/ Cancel(c)
      PROVE  Publishing'
  BY <1>8, <1>9 DEF Ignore, ReplyAtOnce, SendHosted, EnterHandler, ReadHead, FindClosed, ReadDiff,
                    HandlerRaises, CheckForbidden, Cancel
<1>10. ASSUME NEW c \in Commands,
              CommentAcknowledged(c) \/ CommentUnanswered(c) \/ CommentForbidden(c)
       PROVE  Publishing'
  BY <1>8, <1>10 DEF CommentAcknowledged, CommentUnanswered, CommentForbidden
<1>11. ASSUME NEW c \in Commands, LoseRunner(c) \/ Probe(c) PROVE Publishing'
  BY <1>8, <1>11 DEF LoseRunner, Probe, TypeOK
<1>12. CASE UNCHANGED vars
  BY <1>8, <1>12
<1>13. ASSUME NEW c \in Commands, StartFails(c) PROVE Publishing'
  BY <1>8, <1>13, StartFailsMoves
<1>14. ASSUME NEW c \in Commands, Unreact(c) \/ React(c) \/ ReactFails(c) PROVE Publishing'
  BY <1>8, <1>14, ReactionMoves
<1>15. QED
  BY <1>1, <1>2, <1>3, <1>4, <1>5, <1>6, <1>7, <1>9, <1>10, <1>11, <1>12, <1>13, <1>14
     DEF Next, RunStep, PublisherStep

-----------------------------------------------------------------------------
(* Replies are counted, and ends are explained                             *)


\* Only what concerns run c itself can disturb its accounts.
LEMMA OthersKept ==
  ASSUME TypeOK, NEW c \in Commands, NEW d \in Commands \ {c}, Accounted(d),
         \/ StartJob(c) \/ StartFails(c) \/ RunStep(c) \/ PublisherStep(c)
         \/ Cancel(c) \/ LoseRunner(c)
  PROVE  Accounted(d)'
<1> DEFINE Same == /\ pc'[d] = pc[d] /\ said'[d] = said[d] /\ lost'[d] = lost[d]
                   /\ audit'[d] = audit[d] /\ outcome'[d] = outcome[d] /\ kind' = kind
                   /\ pc[d] = "comment" => tries'[d] = tries[d]
<1>1. CASE \/ StartJob(c) \/ Ignore(c) \/ EnterHandler(c) \/ ReadHead(c) \/ FindClosed(c)
           \/ ReadDiff(c) \/ HandlerRaises(c)
  <2>1. Same
    BY <1>1 DEF StartJob, Ignore, EnterHandler, ReadHead, FindClosed, ReadDiff, HandlerRaises,
                Returns, Raises, Goto, TypeOK
  <2>2. QED BY <2>1 DEF Accounted, Counted, Explained
<1>2. CASE ReplyAtOnce(c) \/ SendHosted(c) \/ Analyse(c)
  <2>1. CASE Answer(c)
    <3>1. /\ pc'[d] = pc[d] /\ outcome'[d] = outcome[d] /\ audit'[d] = audit[d]
          /\ tries'[d] = tries[d]
      BY <2>1 DEF Answer, Returns, Raises, Goto, TypeOK
    <3>2. Same
      BY <1>2, <3>1 DEF ReplyAtOnce, SendHosted, Analyse
    <3>3. QED BY <3>2 DEF Accounted, Counted, Explained
  <2>2. CASE Goto(c, "label") /\ UNCHANGED <<tries, payload, ending>>
    <3>1. Same
      BY <1>2, <2>2 DEF ReplyAtOnce, SendHosted, Analyse, Goto, TypeOK
    <3>2. QED BY <3>1 DEF Accounted, Counted, Explained
  <2>3. QED BY <1>2, <2>1, <2>2 DEF ReplyAtOnce, SendHosted, Analyse
<1>3. CASE Label(c) \/ CheckAcknowledged(c) \/ CheckUnanswered(c) \/ CheckForbidden(c)
  <2>1. Same
    BY <1>3 DEF Label, CheckAcknowledged, CheckUnanswered, CheckForbidden, ThenComment, TryAgain,
                Goto, TypeOK
  <2>2. QED BY <2>1 DEF Accounted, Counted, Explained
<1>4. CASE CommentAcknowledged(c) \/ CommentUnanswered(c) \/ CommentForbidden(c)
  <2>1. said'[d] = said[d] /\ lost'[d] = lost[d] /\ tries'[d] = tries[d] /\ kind' = kind
    BY <1>4 DEF CommentAcknowledged, CommentUnanswered, CommentForbidden, Say, TryAgain, TypeOK
  <2>2. outcome'[d] = outcome[d] /\ audit'[d] = audit[d]
    BY <1>4 DEF CommentAcknowledged, CommentUnanswered, CommentForbidden, GiveUp, Returns, Raises,
                TypeOK
  <2>3. QED BY <1>4, <2>1, <2>2, CommentMoves DEF Accounted, Counted, Explained
<1>5. CASE StartFails(c) \/ Cancel(c) \/ LoseRunner(c)
  <2>1. Same
    BY <1>5 DEF StartFails, Cancel, LoseRunner, Raises, Goto, TypeOK
  <2>2. QED BY <2>1 DEF Accounted, Counted, Explained
<1>6. CASE PublisherStep(c)
  <2>1. Same
    BY <1>6 DEF PublisherStep, Resolve, PublishDeferred, PublishFails, Probe
  <2>2. QED BY <2>1 DEF Accounted, Counted, Explained
<1>7. CASE Unreact(c) \/ React(c) \/ ReactFails(c)
  <2>1. Same
    BY <1>7, ReactionMoves
  <2>2. QED BY <2>1 DEF Accounted, Counted, Explained
<1>8. QED BY <1>1, <1>2, <1>3, <1>4, <1>5, <1>6, <1>7 DEF RunStep

\* Before the POST, an end that posts nothing is accounted for.
LEMMA EndsBefore ==
  ASSUME TypeOK, NEW c \in Commands, Accounted(c), pc[c] \notin {"react", "mark", "ended"},
         UNCHANGED <<kind, said, lost>>,
         \/ Returns(c, "ignored") /\ kind[c].route = "ignored"
         \/ Returns(c, "dry") /\ kind[c].dry
         \/ Returns(c, "marker_failed") /\ kind[c].route = "queue"
         \/ Raises(c)
  PROVE  Accounted(c)'
BY DEF Returns, Raises, Goto, Accounted, Counted, Explained, TypeOK

\* Moves inside the run that say nothing change none of its accounts.
LEMMA GoesOn ==
  ASSUME TypeOK, NEW c \in Commands, Accounted(c), pc[c] \notin {"comment", "react", "mark", "ended"},
         pc'[c] \notin {"react", "mark", "ended"}, UNCHANGED <<kind, said, lost, outcome, audit>>,
         pc'[c] = "comment" => tries'[c] = CommentTries
  PROVE  Accounted(c)'
BY FlowAssumption DEF FlowAssumption, Accounted, Counted, Explained, TypeOK

LEMMA AnswerAccounted ==
  ASSUME TypeOK, NEW c \in Commands, Accounted(c), pc[c] \notin {"comment", "react", "mark", "ended"},
         Answer(c), UNCHANGED <<kind, said, lost>>
  PROVE  Accounted(c)'
<1>1. CASE kind[c].dry /\ Returns(c, "dry")
  BY <1>1, EndsBefore
<1>2. CASE Raises(c)
  BY <1>2, EndsBefore
<1>3. CASE /\ Goto(c, "comment") /\ tries' = [tries EXCEPT ![c] = CommentTries]
           /\ UNCHANGED ending
  BY <1>3, GoesOn DEF Goto, TypeOK
<1>4. QED BY <1>1, <1>2, <1>3 DEF Answer

LEMMA CommentAccounted ==
  ASSUME TypeOK, NEW c \in Commands, Accounted(c),
         CommentAcknowledged(c) \/ CommentUnanswered(c) \/ CommentForbidden(c)
  PROVE  Accounted(c)'
<1>1. /\ pc[c] = "comment" /\ said[c] \in Nat /\ lost[c] \in Nat /\ tries[c] \in Nat
      /\ CommentTries \in Nat /\ kind' = kind
      /\ said[c] = lost[c] /\ audit[c] = "none" /\ tries[c] >= 1
      /\ said[c] + tries[c] <= CommentTries
  BY CommentMoves, FlowAssumption DEF FlowAssumption, CommentAcknowledged, CommentUnanswered,
     CommentForbidden, Accounted, Counted, TypeOK
<1>2. CASE CommentAcknowledged(c)
  <2>1. /\ said'[c] = said[c] + 1 /\ lost' = lost /\ pc'[c] = "react"
        /\ outcome'[c] = "posted" /\ audit'[c] = "posted"
    BY <1>2 DEF CommentAcknowledged, Say, Returns, Goto, TypeOK
  <2>2. QED BY <1>1, <2>1 DEF Accounted, Counted, Explained
<1>3. CASE CommentUnanswered(c) \/ CommentForbidden(c)
  <2>1. \/ said'[c] = said[c] /\ lost'[c] = lost[c]
        \/ said'[c] = said[c] + 1 /\ lost'[c] = lost[c] + 1
    BY <1>3 DEF CommentUnanswered, CommentForbidden, Say, TypeOK
  <2>2. CASE GiveUp(c)
    <3>1. /\ pc'[c] = "react"
          /\ \/ outcome'[c] = "raised" /\ audit'[c] = audit[c]
             \/ outcome'[c] = "marker_failed" /\ kind[c].route = "queue" /\ audit'[c] = "unposted"
      BY <2>2 DEF GiveUp, Returns, Raises, Goto, TypeOK
    <3>2. QED BY <1>1, <2>1, <3>1 DEF Accounted, Counted, Explained
  <2>3. CASE tries[c] > 1 /\ TryAgain(c) /\ UNCHANGED ending
    <3>1. tries'[c] = tries[c] - 1 /\ pc'[c] = "comment"
      BY <1>1, <2>3 DEF TryAgain, TypeOK
    <3>2. outcome'[c] = outcome[c] /\ audit'[c] = audit[c] /\ (outcome[c] = "posted" => said[c] > 0)
      BY <2>3 DEF Accounted, Explained
    <3>3. QED BY <1>1, <2>1, <2>3, <3>1, <3>2 DEF Accounted, Counted, Explained
  <2>4. QED BY <1>3, <2>2, <2>3 DEF CommentUnanswered, CommentForbidden
<1>4. QED BY <1>2, <1>3

LEMMA AccountsStep == TypeOK /\ Staged /\ Accounts /\ [Next]_vars => Accounts'
<1> SUFFICES ASSUME TypeOK, Staged, Accounts, [Next]_vars PROVE Accounts'
  OBVIOUS
<1>1. CASE Push
  BY <1>1 DEF Push, Accounts, Accounted, Counted, Explained
<1>2. CASE UNCHANGED vars
  BY <1>2 DEF Accounts, Accounted, Counted, Explained
<1>3. ASSUME NEW c \in Commands,
             \/ StartJob(c) \/ StartFails(c) \/ RunStep(c) \/ PublisherStep(c)
             \/ Cancel(c) \/ LoseRunner(c)
      PROVE  Accounts'
  <2>0. Accounted(c)
    BY DEF Accounts
  <2> SUFFICES Accounted(c)'
    <3>1. \A d \in Commands \ {c} : Accounted(d)'
      BY <1>3, OthersKept DEF Accounts
    <3>2. QED BY <3>1 DEF Accounts
  <2>1. CASE StartJob(c) \/ ReadHead(c) \/ FindClosed(c) \/ ReadDiff(c)
    BY <2>0, <2>1, GoesOn DEF StartJob, ReadHead, FindClosed, ReadDiff, Goto, TypeOK
  <2>2. CASE Ignore(c)
    BY <2>0, <2>2, EndsBefore DEF Ignore
  <2>3. CASE ReplyAtOnce(c) \/ SendHosted(c)
    BY <2>0, <2>3, AnswerAccounted DEF ReplyAtOnce, SendHosted
  <2>4. CASE EnterHandler(c)
    <3>1. CASE Raises(c)
      BY <2>0, <2>4, <3>1, EndsBefore DEF EnterHandler
    <3>2. CASE ~Raises(c)
      BY <2>0, <2>4, <3>2, GoesOn DEF EnterHandler, Goto, TypeOK
    <3>3. QED BY <3>1, <3>2
  <2>5. CASE Analyse(c)
    <3>1. CASE Answer(c)
      BY <2>0, <2>5, <3>1, AnswerAccounted DEF Analyse
    <3>2. CASE Goto(c, "label") /\ UNCHANGED <<tries, payload, ending>>
      BY <2>0, <2>5, <3>2, GoesOn DEF Analyse, Goto, TypeOK
    <3>3. QED BY <2>5, <3>1, <3>2 DEF Analyse
  <2>6. CASE HandlerRaises(c)
    <3>1. CASE Raises(c)
      BY <2>0, <2>6, <3>1, EndsBefore DEF HandlerRaises
    <3>2. CASE UNCHANGED <<pc, ending>>
      BY <2>0, <2>6, <3>2, GoesOn DEF HandlerRaises
    <3>3. QED BY <2>6, <3>1, <3>2 DEF HandlerRaises
  <2>7. CASE Label(c) \/ CheckAcknowledged(c) \/ CheckUnanswered(c) \/ CheckForbidden(c)
    BY <2>0, <2>7, GoesOn DEF Label, CheckAcknowledged, CheckUnanswered, CheckForbidden,
                              ThenComment, TryAgain, Goto, TypeOK
  <2>8. CASE CommentAcknowledged(c) \/ CommentUnanswered(c) \/ CommentForbidden(c)
    BY <2>0, <2>8, CommentAccounted
  <2>9. CASE StartFails(c) \/ Cancel(c)
    BY <2>0, <2>9, EndsBefore DEF StartFails, Cancel
  <2>10. CASE LoseRunner(c)
    BY <2>0, <2>10 DEF LoseRunner, Goto, Accounted, Counted, Explained, TypeOK
  <2>11. CASE PublisherStep(c)
    BY <2>0, <2>11 DEF PublisherStep, Resolve, PublishDeferred, PublishFails, Probe, Accounted,
                       Counted, Explained
  <2>12. CASE Unreact(c) \/ React(c) \/ ReactFails(c)
    BY <2>0, <2>12, ReactionMoves DEF Accounted, Counted, Explained
  <2>13. QED
    BY <1>3, <2>1, <2>2, <2>3, <2>4, <2>5, <2>6, <2>7, <2>8, <2>9, <2>10, <2>11, <2>12 DEF RunStep
<1>4. QED BY <1>1, <1>2, <1>3 DEF Next

-----------------------------------------------------------------------------
(* The theorems                                                            *)

LEMMA InvInit == Init => Inv
<1> SUFFICES ASSUME Init PROVE Inv
  OBVIOUS
<1>1. TypeOK
  BY TypeInit
<1>2. Staged /\ Reading
  BY FlowAssumption DEF FlowAssumption, Init, Staged, Reading
<1>3. Publishing
  BY DEF Init, Publishing, Filed
<1>4. Accounts
  <2>1. ASSUME NEW c \in Commands PROVE Accounted(c)
    <3>1. /\ pc[c] = "new" /\ said[c] = 0 /\ lost[c] = 0 /\ audit[c] = "none"
          /\ outcome[c] = "none" /\ CommentTries \in Nat
      BY FlowAssumption DEF FlowAssumption, Init
    <3>2. QED BY <3>1 DEF Accounted, Counted, Explained
  <2>2. QED BY <2>1 DEF Accounts
<1>5. QED BY <1>1, <1>2, <1>3, <1>4 DEF Inv

LEMMA InvStep == Inv /\ [Next]_vars => Inv'
BY TypeStep, StagedStep, ReadingStep, PublishingStep, AccountsStep DEF Inv

\* The inductive invariant holds in every reachable state.
THEOREM Invariance == Spec => []Inv
BY InvInit, InvStep, PTL DEF Spec

\* Every variable of the command flow keeps its type.
THEOREM TypeCorrect == Spec => []TypeOK
<1>1. Inv => TypeOK
  BY DEF Inv
<1>2. QED BY <1>1, Invariance, PTL

\* What the audit file says of the reply agrees with the thread, whatever
\* fails, is lost or is cancelled.
THEOREM AuditAgrees == Spec => []AuditMatchesThread
<1>1. Inv => AuditMatchesThread
  BY DEF Inv, Accounts, Accounted, Counted, AuditMatchesThread
<1>2. QED BY <1>1, Invariance, PTL

\* _post_with_retry stores at most CommentTries replies, and a second one only
\* after an unconfirmed first.
THEOREM RepliesAreBounded == Spec => []RepliesBounded
<1>1. Inv => RepliesBounded
  BY DEF Inv, Accounts, Accounted, Counted, RepliesBounded
<1>2. QED BY <1>1, Invariance, PTL

\* Unless a read failed, no check run is labelled with a read of the pull request
\* older than what it is about, published by the run or by the publisher workflow.
THEOREM ChecksCover == Spec => []LabelCovers
<1>1. Inv => LabelCovers
  BY DEF Inv, Publishing, Stands, Covers, LabelCovers
<1>2. QED BY <1>1, Invariance, PTL

\* What a check run is about was the head of the pull request at some time
\* between the checkout and the read of its label, also on a branch that is
\* forced back and forth.
THEOREM ChecksAreExact == Spec => []QuietExact
<1>1. Inv => QuietExact
  <2> SUFFICES ASSUME Inv, NEW i \in 1..Len(checks), ~unread[checks[i].by],
                      tree[checks[i].by] \in Nat, checks[i].about # Unknown
               PROVE  branch[checks[i].about]
                        \in {branch[n] : n \in tree[checks[i].by]..checks[i].label}
    BY DEF QuietExact
  <2>1. Sound(checks[i]) /\ Covers(checks[i])
    BY DEF Inv, Publishing, Stands
  <2>2. checks[i].about \in Nat /\ tree[checks[i].by] <= checks[i].about
    BY <2>1 DEF Sound
  <2>3. checks[i].label \in Nat /\ checks[i].about <= checks[i].label
    BY <2>1, <2>2 DEF Covers, Behind
  <2>4. checks[i].about \in tree[checks[i].by]..checks[i].label
    BY <2>2, <2>3
  <2>5. QED BY <2>4
<1>2. QED BY <1>1, Invariance, PTL

\* A run that published a check and stored no reply has failed visibly.
THEOREM VerdictsAreNotSilent == Spec => []NoSilentVerdict
<1>1. Inv => NoSilentVerdict
  <2> SUFFICES ASSUME Inv, NEW c \in Commands, ~kind[c].dry, pc[c] = "ended",
                      outcome[c] # "killed", Verdicts(c) # {}, said[c] = 0
               PROVE  outcome[c] = "raised"
    BY DEF NoSilentVerdict
  <2>1. PICK i \in 1..Len(checks) : checks[i].by = c
    BY DEF Verdicts
  <2>2. kind[c].route \in {"qa", "patch"}
    BY <2>1 DEF Inv, Publishing, Stands, Checked
  <2>3. Explained(c) /\ outcome[c] \in Outcomes /\ said[c] \in Nat
    BY DEF Inv, Accounts, Accounted, TypeOK
  <2>4. QED BY <2>2, <2>3 DEF Explained, Outcomes
<1>2. QED BY <1>1, Invariance, PTL
=============================================================================
