-------------------------- MODULE LlmBudgetProofs --------------------------
(***************************************************************************)
(* Proofs about LlmBudget, for every pool, plan, policy and provider.      *)
(*                                                                         *)
(* The argument for the cap: the command's own thread works only while the *)
(* pool is idle (OneSide), so when a thread passes the check at most the   *)
(* other threads of the pool have calls under way.  For the batches: at    *)
(* most one thread holds a batch, and a batch nobody holds and nobody has  *)
(* finished was not paid for (OneHolder, Unpaid): the recovery pass relies *)
(* on it when it runs the missing batches.                                 *)
(*                                                                         *)
(* For the report: in a serial pass every batch without a result is still  *)
(* to do or in the hands of the command's own thread, and the counter, the *)
(* batches to do and the one in hand add up to the plan (Accounted,        *)
(* Tallied).  Where the pool is off or has one thread it is never used     *)
(* (Alone): no update of the governor meets another, which tokens and      *)
(* buffer need.                                                            *)
(*                                                                         *)
(* For the tokens of a larger pool: whoever has an answer still counts it, *)
(* and with all that is still to be counted (Pending, summed by a function *)
(* on sets of threads), neither the total nor any older value of it that a *)
(* thread holds passes what was spent (CoveredInv).                        *)
(***************************************************************************)
EXTENDS LlmBudget, FiniteSetTheorems, TLAPS

USE DEF Free

Working == {"pool", "drain"}
Serial  == {"sequence", "recover", "reduce"}

\* The pool and the command's own thread never work at the same time.
OneSide ==
  /\ phase \notin Serial => pc[Main] = "idle"
  /\ phase \notin Working => \A t \in Pool : pc[t] = "idle"

Busy(t) == pc[t] # "idle"
Asking  == {"check", "call", "fallback"}

\* Nobody works on batch b, and nobody has finished it.
Fresh(b) == result[b] = "none" /\ \A t \in Threads : Busy(t) => task[t] # b

OneHolder == \A t, u \in Threads : Busy(t) /\ Busy(u) /\ task[t] = task[u] => t = u

Held ==
  \A t \in Threads :
    Busy(t) => /\ result[task[t]] = "none"
               /\ pc[t] \in Asking => paid[task[t]] = 0

Unpaid == \A b \in Tasks : Fresh(b) => paid[b] = 0

PaidAtMostOnce == \A b \in Tasks : paid[b] <= 1

\* What is still to be handed out is fresh.
Ahead ==
  /\ phase = "bootstrap" => \A b \in Tasks : Fresh(b)
  /\ phase = "pool" => \A b \in Tasks : b >= next => Fresh(b)
  /\ phase \in {"pool", "sequence", "recover"} => Fresh(Reduce)
  /\ phase \in {"sequence", "recover"} => \A b \in todo : Fresh(b)

Ledger == OneHolder /\ Held /\ Unpaid /\ PaidAtMostOnce

PaidInv ==
  /\ phase = "drain" => fellBack
  /\ ~fellBack => Ledger /\ Ahead

Inv == TypeOK /\ OneSide /\ CallsBounded /\ PaidInv

-----------------------------------------------------------------------------
(* Type correctness                                                        *)

LEMMA BatchesFacts == TypeOK => Batches \in 0..Planned
BY LlmBudgetAssumption DEF LlmBudgetAssumption, TypeOK, Batches, AtMost, AtLeast

\* The outcome of a task is recorded under its own batch.
LEMMA FinishFacts ==
  ASSUME TypeOK, NEW t \in Threads, NEW o \in Outcomes, Finish(t, o)
  PROVE  /\ pc' \in [Threads -> {"idle", "check", "call", "fallback", "count", "add"}]
         /\ result' \in [Tasks -> Outcomes]
         /\ completed' \in Nat
BY DEF TypeOK, Finish

\* A failure leaves the retry state and the results well typed.
LEMMA FailureFacts ==
  ASSUME TypeOK, NEW t \in Threads, NEW b \in BOOLEAN, AfterFailure(t, b)
  PROVE  /\ pc' \in [Threads -> {"idle", "check", "call", "fallback", "count", "add"}]
         /\ result' \in [Tasks -> Outcomes]
         /\ completed' \in Nat
         /\ failures' \in [Threads -> Nat]
<1>1. CASE Finish(t, "unused") /\ UNCHANGED failures
  BY <1>1, FinishFacts DEF Outcomes, TypeOK
<1>2. CASE failures' = [failures EXCEPT ![t] = @ + 1] /\ UNCHANGED <<pc, result, completed>>
  BY <1>2 DEF TypeOK
<1>3. CASE pc' = [pc EXCEPT ![t] = "fallback"] /\ UNCHANGED <<failures, result, completed>>
  BY <1>3 DEF TypeOK
<1>4. QED BY <1>1, <1>2, <1>3 DEF AfterFailure

LEMMA TypeInit == Init => TypeOK
<1> SUFFICES ASSUME Init PROVE TypeOK
  OBVIOUS
<1>1. /\ quota \in Nat /\ calls \in Nat /\ tokens \in Nat /\ spent \in Nat
      /\ remaining \in Nat \cup {NoSignal} /\ untold \in Nat \cup {NoSignal}
  <2>1. quota \in Nat /\ Estimate \in Nat /\ Uses \subseteq Nat /\ Headers \in BOOLEAN
    BY LlmBudgetAssumption DEF LlmBudgetAssumption, Init
  <2>2. CASE untold = NoSignal /\ calls = 0 /\ remaining = NoSignal /\ tokens = 0
    BY <2>1, <2>2 DEF Init
  <2>3. CASE /\ calls = 1 /\ tokens \in Uses
             /\ IF Headers THEN untold = 0 /\ remaining = quota
                           ELSE untold = NoSignal /\ remaining = Estimate
    BY <2>1, <2>3 DEF Init
  <2>4. QED BY <2>2, <2>3 DEF Init
<1>2. Reduce \in Tasks
  BY LlmBudgetAssumption DEF LlmBudgetAssumption, Tasks, Reduce
<1>3. answer \in [Threads -> [tokens : Nat, remaining : Nat \cup {NoSignal}]]
  BY DEF Init, NoAnswer
<1>4. width \in 0..Planned /\ submitted \in 0..Planned /\ next \in 1..(Planned + 1)
  BY LlmBudgetAssumption DEF LlmBudgetAssumption, Init
<1>5. QED
  BY <1>1, <1>2, <1>3, <1>4 DEF Init, TypeOK, Outcomes

LEMMA UntoldType ==
  ASSUME untold \in Nat \cup {NoSignal}, NEW used \in {0, 1}
  PROVE  Untold(used) \in Nat \cup {NoSignal}
BY DEF Untold

\* A failed call uses one request or none.
LEMMA Used ==
  ASSUME NEW before \in Nat, NEW after \in {before, before - 1} \cap Nat
  PROVE  before - after \in {0, 1} /\ after = before - (before - after)
OBVIOUS

LEMMA TypeStep == TypeOK /\ [Next]_vars => TypeOK'
<1> SUFFICES ASSUME TypeOK, [Next]_vars PROVE TypeOK'
  OBVIOUS
<1> USE DEF governor, threads, plan, history, vars
<1>1. CASE TimePasses
  BY <1>1 DEF TimePasses, TypeOK
<1>2. CASE Bootstrap
  <2>1. width' \in 0..Planned /\ reduceOn' \in BOOLEAN /\ todo' \subseteq 1..Planned
    <3>1. CASE Allowed(StageCost)
      <4>1. width' \in 0..Planned
        BY <1>2, <3>1, BatchesFacts DEF Bootstrap
      <4>2. todo' \subseteq 1..Planned
        BY <1>2, <3>1, BatchesFacts, LlmBudgetAssumption DEF LlmBudgetAssumption, Bootstrap
      <4>3. reduceOn' = (ReduceOn /\ IF remaining = NoSignal THEN ~Conservative
                                     ELSE remaining >= ReduceFloor)
        BY <1>2, <3>1 DEF Bootstrap
      <4>4. reduceOn' \in BOOLEAN
        BY <4>3
      <4>5. QED BY <4>1, <4>2, <4>4
    <3>2. CASE ~Allowed(StageCost)
      BY <1>2, <3>2 DEF Bootstrap, TypeOK
    <3>3. QED BY <3>1, <3>2
  <2>2. phase' \in {"pool", "sequence", "done"}
    BY <1>2 DEF Bootstrap
  <2>3. QED BY <1>2, <2>1, <2>2 DEF Bootstrap, TypeOK
<1>3. CASE Submit
  BY <1>3, LlmBudgetAssumption DEF LlmBudgetAssumption, Submit, TypeOK
<1>4. CASE ExecutorFails
  <2>1. submitted' \in 0..Planned
    BY <1>4, LlmBudgetAssumption DEF LlmBudgetAssumption, ExecutorFails, TypeOK
  <2>2. QED BY <1>4, <2>1 DEF ExecutorFails, TypeOK
<1>5. CASE TakeInSequence
  <2>1. PICK b \in todo : Begin(Main, b) /\ todo' = todo \ {b}
    BY <1>5 DEF TakeInSequence
  <2>2. b \in Tasks
    BY LlmBudgetAssumption DEF LlmBudgetAssumption, Tasks, Reduce, TypeOK
  <2>3. QED BY <1>5, <2>1, <2>2 DEF TakeInSequence, Begin, TypeOK, Threads
<1>6. CASE JoinPool
  <2>1. completed' \in Nat
    <3>1. Missing \in SUBSET (1..width) /\ IsFiniteSet(1..width) /\ Cardinality(1..width) = width
      BY FS_Interval DEF Missing, TypeOK
    <3>2. Cardinality(Missing) \in Nat /\ Cardinality(Missing) <= width
      BY <3>1, FS_Subset, FS_CardinalityType
    <3>3. QED BY <1>6, <3>2, LlmBudgetAssumption DEF LlmBudgetAssumption, JoinPool, TypeOK
  <2>2. result' \in [Tasks -> Outcomes]
    BY <1>6 DEF JoinPool, TypeOK, Outcomes
  <2>3. todo' \subseteq 1..Planned
    BY <1>6, LlmBudgetAssumption DEF LlmBudgetAssumption, JoinPool, TypeOK, Missing
  <2>4. phase' \in {"recover", "sequence"}
    BY <1>6 DEF JoinPool
  <2>5. QED BY <1>6, <2>1, <2>2, <2>3, <2>4 DEF JoinPool, TypeOK
<1>7. CASE EndBatches
  <2>1. completed' \in Nat
    BY <1>7, LlmBudgetAssumption DEF LlmBudgetAssumption, EndBatches, TypeOK
  <2>2. CASE phase' = "reduce" /\ Begin(Main, Reduce)
    <3>1. Reduce \in Tasks
      BY LlmBudgetAssumption DEF LlmBudgetAssumption, Tasks, Reduce
    <3>2. QED BY <1>7, <2>1, <2>2, <3>1 DEF EndBatches, Begin, TypeOK, Threads
  <2>3. CASE phase' = "done" /\ UNCHANGED threads
    BY <1>7, <2>1, <2>3 DEF EndBatches, TypeOK
  <2>4. QED BY <1>7, <2>2, <2>3 DEF EndBatches
<1>8. CASE EndReduce
  BY <1>8 DEF EndReduce, TypeOK
<1>9. ASSUME NEW t \in Pool, TakeFromQueue(t) PROVE TypeOK'
  <2>1. next \in Tasks /\ next' \in 1..(Planned + 1)
    BY <1>9, LlmBudgetAssumption
       DEF LlmBudgetAssumption, TakeFromQueue, TypeOK, Tasks, Reduce
  <2>2. QED BY <1>9, <2>1 DEF TakeFromQueue, Begin, TypeOK, Threads
<1>10. ASSUME NEW t \in Threads, Check(t) PROVE TypeOK'
  <2>1. CASE Finish(t, "unused")
    BY <1>10, <2>1, FinishFacts DEF Check, TypeOK, Outcomes
  <2>2. CASE pc' = [pc EXCEPT ![t] = "call"] /\ UNCHANGED <<result, completed>>
    BY <1>10, <2>2 DEF Check, TypeOK
  <2>3. QED BY <1>10, <2>1, <2>2 DEF Check
<1>11. ASSUME NEW t \in Threads, Answers(t) PROVE TypeOK'
  <2>1. PICK n \in Uses :
          /\ spent' = spent + n
          /\ answer' = [answer EXCEPT ![t] =
                          [tokens |-> n, remaining |-> IF Headers THEN quota - 1 ELSE Estimate]]
    BY <1>11 DEF Answers
  <2>2. n \in Nat /\ quota - 1 \in Nat /\ Estimate \in Nat
    BY <1>11, LlmBudgetAssumption DEF LlmBudgetAssumption, Answers, TypeOK
  <2>3. spent' \in Nat /\ answer' \in [Threads -> [tokens : Nat, remaining : Nat \cup {NoSignal}]]
    BY <2>1, <2>2 DEF TypeOK
  <2>4. paid' \in [Tasks -> Nat] /\ quota' \in Nat
    BY <1>11, <2>2 DEF Answers, TypeOK
  <2>5. QED BY <1>11, <2>3, <2>4 DEF Answers, TypeOK
<1>12. ASSUME NEW t \in Threads, CallFails(t) PROVE TypeOK'
  <2>1. quota' \in Nat /\ faults' \in Nat /\ untold' \in Nat \cup {NoSignal}
    <3>1. CASE /\ quota' \in {quota, quota - 1} \cap Nat /\ faults' = faults + 1
               /\ untold' = Untold(quota - quota')
      <4>1. quota - quota' \in {0, 1}
        BY <3>1, Used DEF TypeOK
      <4>2. untold' \in Nat \cup {NoSignal}
        BY <3>1, <4>1, UntoldType DEF TypeOK
      <4> QED BY <3>1, <4>2 DEF TypeOK
    <3>2. CASE UNCHANGED <<quota, untold, faults>>
      BY <3>2 DEF TypeOK
    <3>3. QED BY <1>12, <3>1, <3>2 DEF CallFails
  <2>2. PICK b \in BOOLEAN : AfterFailure(t, b)
    BY <1>12 DEF CallFails
  <2>3. QED BY <1>12, <2>1, <2>2, FailureFacts DEF CallFails, TypeOK
<1>13. ASSUME NEW t \in Threads, Garbled(t) PROVE TypeOK'
  BY <1>13 DEF Garbled, Untold, TypeOK
<1>14. ASSUME NEW t \in Threads, ObserveCall(t) PROVE TypeOK'
  BY <1>14 DEF ObserveCall, TypeOK
<1>15. ASSUME NEW t \in Threads, ObserveUsage(t) PROVE TypeOK'
  <2>1. tokens' \in Nat /\ remaining' \in Nat \cup {NoSignal} /\ untold' \in Nat \cup {NoSignal}
    BY <1>15 DEF ObserveUsage, TypeOK
  <2>2. QED BY <1>15, <2>1, FinishFacts DEF ObserveUsage, TypeOK, Outcomes
<1>16. CASE UNCHANGED vars
  BY <1>16 DEF TypeOK
<1>17. QED
  BY <1>1, <1>2, <1>3, <1>4, <1>5, <1>6, <1>7, <1>8, <1>9, <1>10, <1>11, <1>12,
     <1>13, <1>14, <1>15, <1>16 DEF Next, Command, Step, Stopped

-----------------------------------------------------------------------------
(* The cap                                                                 *)

LEMMA OneSideStep == TypeOK /\ OneSide /\ [Next]_vars => OneSide'
<1> SUFFICES ASSUME TypeOK, OneSide, [Next]_vars PROVE OneSide'
  OBVIOUS
<1> USE DEF governor, threads, plan, history, vars, OneSide, Working, Serial
<1>a. Main \in Threads /\ Main \notin Pool /\ Pool \subseteq Threads
  BY LlmBudgetAssumption DEF LlmBudgetAssumption, Threads
<1>1. CASE TimePasses \/ Submit \/ UNCHANGED vars
  BY <1>1 DEF TimePasses, Submit
<1>2. CASE Bootstrap
  BY <1>2 DEF Bootstrap
<1>3. CASE ExecutorFails
  BY <1>3 DEF ExecutorFails
<1>4. CASE TakeInSequence
  BY <1>4, <1>a DEF TakeInSequence, Begin, TypeOK
<1>5. CASE JoinPool
  BY <1>5 DEF JoinPool, PoolIsQuiet
<1>6. CASE EndBatches
  <2>1. CASE phase' = "reduce" /\ Begin(Main, Reduce)
    BY <1>6, <2>1, <1>a DEF EndBatches, Begin, TypeOK
  <2>2. CASE phase' = "done" /\ UNCHANGED threads
    BY <1>6, <2>2 DEF EndBatches
  <2>3. QED BY <1>6, <2>1, <2>2 DEF EndBatches
<1>7. CASE EndReduce
  BY <1>7 DEF EndReduce
<1>8. ASSUME NEW t \in Pool, TakeFromQueue(t) PROVE OneSide'
  BY <1>8, <1>a DEF TakeFromQueue, Begin, TypeOK
<1>9. ASSUME NEW t \in Threads, Step(t) PROVE OneSide'
  <2>1. pc[t] # "idle"
    BY <1>9 DEF Step, Check, Answers, CallFails, Garbled, ObserveCall, ObserveUsage
  <2>2. /\ t = Main => phase \in Serial
        /\ t \in Pool => phase \in Working
    BY <2>1
  <2>3. \A u \in Threads : u # t => pc'[u] = pc[u]
    BY <1>9 DEF Step, Check, Answers, CallFails, Garbled, ObserveCall, ObserveUsage,
                AfterFailure, Finish, TypeOK
  <2>4. phase' = phase \/ (t = Main /\ phase' = "raised" /\ pc'[t] = "idle")
    BY <1>9 DEF Step, Check, Answers, CallFails, Garbled, ObserveCall, ObserveUsage, TypeOK
  <2>5. QED BY <2>2, <2>3, <2>4, <1>a DEF Threads
<1>10. QED
  BY <1>1, <1>2, <1>3, <1>4, <1>5, <1>6, <1>7, <1>8, <1>9 DEF Next, Command, Stopped

\* Calls under way are made by one side only.
LEMMA InFlightFacts ==
  ASSUME TypeOK, OneSide
  PROVE  /\ InFlight \in SUBSET Threads
         /\ InFlight \subseteq Pool \/ InFlight \subseteq {Main}
         /\ IsFiniteSet(InFlight)
         /\ Cardinality(InFlight) \in Nat
         /\ Cardinality(Pool) \in Nat \ {0}
<1>1. IsFiniteSet(Pool) /\ Pool # {}
  BY LlmBudgetAssumption DEF LlmBudgetAssumption
<1>2. InFlight \subseteq Pool \/ InFlight \subseteq {Main}
  BY DEF InFlight, OneSide, Threads, Working, Serial
<1>3. IsFiniteSet(InFlight)
  BY <1>1, <1>2, FS_Subset, FS_Singleton
<1>4. Cardinality(Pool) \in Nat \ {0}
  BY <1>1, FS_CardinalityType, FS_EmptySet
<1>5. QED BY <1>2, <1>3, <1>4, FS_CardinalityType DEF InFlight

\* A step that starts no call and counts none keeps the bound.
LEMMA FewerCalls ==
  ASSUME TypeOK, OneSide, CallsBounded, InFlight' \subseteq InFlight, calls' = calls
  PROVE  CallsBounded'
<1>1. Cardinality(InFlight') <= Cardinality(InFlight) /\ Cardinality(InFlight') \in Nat
  BY InFlightFacts, FS_Subset, FS_CardinalityType
<1>2. QED BY <1>1, InFlightFacts, LlmBudgetAssumption
             DEF CallsBounded, TypeOK, LlmBudgetAssumption

LEMMA CheckKeepsBound ==
  ASSUME TypeOK, OneSide, CallsBounded, NEW t \in Threads, Check(t)
  PROVE  CallsBounded'
<1>1. CASE Finish(t, "unused")
  BY <1>1, FewerCalls DEF Check, Finish, InFlight, TypeOK, governor
<1>2. CASE Allowed(Cost) /\ pc' = [pc EXCEPT ![t] = "call"]
  <2>1. InFlight' = InFlight \cup {t} /\ t \notin InFlight
    BY <1>2 DEF Check, InFlight, TypeOK
  <2>2. IsFiniteSet(Pool) /\ Main \notin Pool
    BY LlmBudgetAssumption DEF LlmBudgetAssumption
  <2>3. \/ t \in Pool /\ InFlight \cup {t} \subseteq Pool
        \/ t = Main /\ InFlight \cup {t} = {Main}
    <3>1. pc[t] = "check"
      BY DEF Check
    <3>2. CASE t = Main
      BY <3>1, <3>2, <2>2 DEF InFlight, OneSide, Threads, Working, Serial, TypeOK
    <3>3. CASE t \in Pool
      BY <3>1, <3>3, <2>2 DEF InFlight, OneSide, Threads, Working, Serial, TypeOK
    <3>4. QED BY <3>2, <3>3 DEF Threads
  <2>4. Cardinality(InFlight') <= Cardinality(Pool)
    <3>1. CASE t \in Pool /\ InFlight \cup {t} \subseteq Pool
      BY <2>1, <2>2, <3>1, FS_Subset
    <3>2. CASE t = Main /\ InFlight \cup {t} = {Main}
      BY <2>1, <3>2, FS_Singleton, InFlightFacts
    <3>3. QED BY <2>3, <3>1, <3>2
  <2>5. IsFiniteSet(InFlight') /\ Cardinality(InFlight') \in Nat
    BY <2>1, InFlightFacts, FS_AddElement, FS_CardinalityType
  <2>6. calls' = calls /\ calls < MaxCalls
    BY <1>2 DEF Check, Allowed, governor
  <2>7. QED BY <2>4, <2>5, <2>6, InFlightFacts, LlmBudgetAssumption
               DEF CallsBounded, TypeOK, LlmBudgetAssumption
<1>3. QED BY <1>1, <1>2 DEF Check, CheckPasses

LEMMA ObserveKeepsBound ==
  ASSUME TypeOK, OneSide, CallsBounded, NEW t \in Threads, ObserveCall(t)
  PROVE  CallsBounded'
<1>1. InFlight' = InFlight \ {t} /\ t \in InFlight
  BY DEF ObserveCall, InFlight, TypeOK
<1>2. Cardinality(InFlight') = Cardinality(InFlight) - 1
  BY <1>1, InFlightFacts, FS_RemoveElement
<1>3. calls' = calls + 1
  BY DEF ObserveCall
<1>4. QED BY <1>2, <1>3, InFlightFacts, LlmBudgetAssumption
             DEF CallsBounded, TypeOK, LlmBudgetAssumption

LEMMA CallsStep == TypeOK /\ OneSide /\ CallsBounded /\ [Next]_vars => CallsBounded'
<1> SUFFICES ASSUME TypeOK, OneSide, CallsBounded, [Next]_vars PROVE CallsBounded'
  OBVIOUS
<1> USE DEF governor, threads, plan, history, vars
<1>1. CASE TimePasses \/ Bootstrap \/ Submit \/ ExecutorFails \/ JoinPool \/ EndReduce
             \/ UNCHANGED vars
  <2>1. calls' = calls /\ pc' = pc
    BY <1>1 DEF TimePasses, Bootstrap, Submit, ExecutorFails, JoinPool, EndReduce
  <2>2. QED BY <2>1, FewerCalls DEF InFlight
<1>2. ASSUME NEW t \in Threads, NEW b, Begin(t, b), calls' = calls PROVE CallsBounded'
  BY <1>2, FewerCalls DEF Begin, InFlight, TypeOK
<1>3. CASE TakeInSequence
  BY <1>3, <1>2 DEF TakeInSequence, Threads
<1>4. CASE EndBatches
  <2>1. CASE Begin(Main, Reduce)
    BY <1>2, <1>4, <2>1 DEF EndBatches, Threads
  <2>2. CASE UNCHANGED threads
    BY <1>4, <2>2, FewerCalls DEF EndBatches, InFlight
  <2>3. QED BY <1>4, <2>1, <2>2 DEF EndBatches
<1>5. ASSUME NEW t \in Pool, TakeFromQueue(t) PROVE CallsBounded'
  BY <1>2, <1>5 DEF TakeFromQueue, Threads
<1>6. ASSUME NEW t \in Threads, Answers(t) PROVE CallsBounded'
  <2>1. pc' = [pc EXCEPT ![t] = "count"] /\ pc[t] \in {"call", "fallback"} /\ calls' = calls
    BY <1>6 DEF Answers
  <2>2. QED BY <2>1, FewerCalls DEF InFlight, TypeOK
<1>7. ASSUME NEW t \in Threads, CallFails(t) PROVE CallsBounded'
  <2>1. PICK b \in BOOLEAN : AfterFailure(t, b)
    BY <1>7 DEF CallFails
  <2>2. \/ pc' = pc \/ pc' = [pc EXCEPT ![t] = "idle"] \/ pc' = [pc EXCEPT ![t] = "fallback"]
    BY <2>1 DEF AfterFailure, Finish
  <2>3. pc[t] \in {"call", "fallback"} /\ calls' = calls
    BY <1>7 DEF CallFails
  <2>4. InFlight' \subseteq InFlight
    BY <2>2, <2>3 DEF InFlight, TypeOK
  <2>5. QED BY <2>3, <2>4, FewerCalls
<1>8. ASSUME NEW t \in Threads, Garbled(t) PROVE CallsBounded'
  BY <1>8, FewerCalls DEF Garbled, InFlight, TypeOK
<1>9. ASSUME NEW t \in Threads, ObserveUsage(t) PROVE CallsBounded'
  BY <1>9, FewerCalls DEF ObserveUsage, Finish, InFlight, TypeOK
<1>10. QED
  BY <1>1, <1>3, <1>4, <1>5, <1>6, <1>7, <1>8, <1>9, CheckKeepsBound, ObserveKeepsBound
     DEF Next, Command, Step, Stopped

-----------------------------------------------------------------------------
(* The batches                                                             *)

\* A free thread takes a fresh batch: everything else stays as fresh as it was.
LEMMA TakeFacts ==
  ASSUME TypeOK, Ledger, NEW t \in Threads, NEW b \in Tasks, Fresh(b), Free(t), Begin(t, b),
         result' = result, paid' = paid
  PROVE  Ledger' /\ \A c \in Tasks \ {b} : Fresh(c) => Fresh(c)'
<1>1. /\ pc' = [pc EXCEPT ![t] = "check"]
      /\ task' = [task EXCEPT ![t] = b]
  BY DEF Begin
<1>2. \A u \in Threads : u # t => pc'[u] = pc[u] /\ task'[u] = task[u]
  BY <1>1 DEF TypeOK
<1>3. pc'[t] = "check" /\ task'[t] = b
  BY <1>1 DEF TypeOK
<1>4. \A c \in Tasks \ {b} : Fresh(c) <=> Fresh(c)'
  BY <1>2, <1>3 DEF Fresh, Busy
<1>5. OneHolder'
  BY <1>2, <1>3 DEF Ledger, OneHolder, Fresh, Busy
<1>6. paid[b] = 0
  BY DEF Ledger, Unpaid
<1>7. Held'
  BY <1>2, <1>3, <1>6 DEF Ledger, Held, Fresh, Busy, Asking
<1>8. Unpaid'
  BY <1>3, <1>4, <1>6 DEF Ledger, Unpaid
<1>9. PaidAtMostOnce'
  BY DEF Ledger, PaidAtMostOnce
<1>10. QED BY <1>4, <1>5, <1>7, <1>8, <1>9 DEF Ledger

\* What a step of thread t does to the thread, to its batch and to the others.
Moves(t) ==
  /\ Busy(t) /\ task' = task
  /\ \A u \in Threads : u # t => pc'[u] = pc[u]
  /\ \A c \in Tasks : c # task[t] => result'[c] = result[c] /\ paid'[c] = paid[c]
  /\ \/ /\ Busy(t)' /\ result' = result
        /\ \/ pc[t] \in Asking /\ paid'[task[t]] <= 1 /\ pc'[t] \notin Asking
           \/ paid' = paid /\ (pc'[t] \in Asking => pc[t] \in Asking)
     \/ ~Busy(t)' /\ paid' = paid /\ result'[task[t]] # "none"
     \/ ~Busy(t)' /\ paid' = paid /\ result' = result /\ pc[t] \in Asking

LEMMA StepMoves ==
  ASSUME TypeOK, ~fellBack, Ledger, NEW t \in Threads, Step(t)
  PROVE  Moves(t)
<1> USE DEF governor, threads, plan, history, Busy, Asking
<1>1. \A o \in {"used", "unused"} : Finish(t, o) =>
        /\ \A u \in Threads : u # t => pc'[u] = pc[u]
        /\ \A c \in Tasks : c # task[t] => result'[c] = result[c]
        /\ pc'[t] = "idle" /\ result'[task[t]] # "none"
  BY DEF Finish, TypeOK
<1>2. CASE Check(t)
  <2>1. CASE Finish(t, "unused")
    BY <1>1, <1>2, <2>1 DEF Check, Moves
  <2>2. CASE pc' = [pc EXCEPT ![t] = "call"] /\ UNCHANGED <<result, completed>>
    BY <1>2, <2>2 DEF Check, Moves, TypeOK
  <2>3. QED BY <1>2, <2>1, <2>2 DEF Check
<1>3. CASE Answers(t)
  <2>1. /\ pc[t] \in {"call", "fallback"} /\ pc' = [pc EXCEPT ![t] = "count"]
        /\ paid' = [paid EXCEPT ![task[t]] = @ + 1] /\ task' = task /\ result' = result
    BY <1>3 DEF Answers
  <2>2. paid[task[t]] = 0 /\ task[t] \in Tasks
    BY <2>1 DEF Ledger, Held, TypeOK
  <2>3. paid'[task[t]] <= 1
    BY <2>1, <2>2 DEF TypeOK
  <2>4. QED BY <2>1, <2>3 DEF Moves, TypeOK
<1>4. CASE CallFails(t)
  <2>1. PICK b \in BOOLEAN : AfterFailure(t, b)
    BY <1>4 DEF CallFails
  <2>2. pc[t] \in {"call", "fallback"} /\ task' = task /\ paid' = paid
    BY <1>4 DEF CallFails
  <2>3. CASE Finish(t, "unused")
    BY <1>1, <2>2, <2>3 DEF Moves
  <2>4. CASE UNCHANGED <<pc, result, completed>>
    BY <2>2, <2>4 DEF Moves
  <2>5. CASE pc' = [pc EXCEPT ![t] = "fallback"] /\ UNCHANGED <<failures, result, completed>>
    BY <2>2, <2>5 DEF Moves, TypeOK
  <2>6. QED BY <2>1, <2>3, <2>4, <2>5 DEF AfterFailure
<1>5. CASE Garbled(t)
  BY <1>5 DEF Garbled, Moves, TypeOK
<1>6. CASE ObserveCall(t)
  BY <1>6 DEF ObserveCall, Moves, TypeOK
<1>7. CASE ObserveUsage(t)
  BY <1>1, <1>7 DEF ObserveUsage, Moves
<1>8. QED BY <1>2, <1>3, <1>4, <1>5, <1>6, <1>7 DEF Step

LEMMA MoveFacts ==
  ASSUME TypeOK, Ledger, NEW t \in Threads, Moves(t)
  PROVE  Ledger' /\ \A c \in Tasks : Fresh(c) => Fresh(c)'
<1> USE DEF Moves, Busy, Asking
<1>0. task[t] \in Tasks /\ \A u \in Threads : task[u] \in Tasks
  BY DEF TypeOK
<1>1. \A u \in Threads : Busy(u)' => Busy(u)
  OBVIOUS
<1>2. \A u \in Threads : u # t /\ Busy(u) => task[u] # task[t]
  BY DEF Ledger, OneHolder
<1>3. \A c \in Tasks : Fresh(c) => c # task[t]
  BY DEF Fresh
<1>4. \A c \in Tasks : Fresh(c) => Fresh(c)'
  BY <1>1, <1>3 DEF Fresh
<1>5. OneHolder'
  BY <1>1 DEF Ledger, OneHolder
<1>6. Held'
  <2>1. SUFFICES ASSUME NEW u \in Threads, Busy(u)'
                 PROVE  /\ result'[task'[u]] = "none"
                        /\ pc'[u] \in Asking => paid'[task'[u]] = 0
    BY DEF Held
  <2>2. CASE u # t
    BY <1>0, <1>2, <2>1, <2>2 DEF Ledger, Held
  <2>3. CASE u = t
    BY <1>0, <2>1, <2>3 DEF Ledger, Held
  <2>4. QED BY <2>2, <2>3
<1>7. Unpaid'
  <2>1. SUFFICES ASSUME NEW c \in Tasks, Fresh(c)' PROVE paid'[c] = 0
    BY DEF Unpaid
  <2>2. CASE c # task[t]
    <3>1. Fresh(c)
      BY <2>1, <2>2 DEF Fresh
    <3>2. QED BY <2>2, <3>1 DEF Ledger, Unpaid
  <2>3. CASE c = task[t]
    <3>1. ~Busy(t)' /\ result'[task[t]] = "none"
      BY <2>1, <2>3 DEF Fresh
    <3>2. QED BY <2>3, <3>1 DEF Ledger, Held
  <2>4. QED BY <2>2, <2>3
<1>8. PaidAtMostOnce'
  BY <1>0 DEF Ledger, PaidAtMostOnce
<1>9. QED BY <1>4, <1>5, <1>6, <1>7, <1>8 DEF Ledger

LEMMA PaidStep == TypeOK /\ OneSide /\ PaidInv /\ [Next]_vars => PaidInv'
<1> SUFFICES ASSUME TypeOK, OneSide, PaidInv, [Next]_vars PROVE PaidInv'
  OBVIOUS
<1> USE DEF governor, threads, plan, history, vars
<1>a. Reduce \in Tasks /\ 1..Planned \subseteq Tasks /\ Main \in Threads /\ Pool \subseteq Threads
  BY LlmBudgetAssumption DEF LlmBudgetAssumption, Tasks, Reduce, Threads
<1>b. ASSUME UNCHANGED <<pc, task, result, paid>>
      PROVE  (Ledger => Ledger') /\ \A b \in Tasks : Fresh(b) => Fresh(b)'
  BY <1>b DEF Ledger, OneHolder, Held, Unpaid, PaidAtMostOnce, Fresh, Busy
<1>1. CASE TimePasses \/ Submit \/ UNCHANGED vars
  <2>1. UNCHANGED <<pc, task, result, paid, phase, next, todo, fellBack>>
    BY <1>1 DEF TimePasses, Submit
  <2>2. QED BY <2>1, <1>a, <1>b DEF PaidInv, Ahead, TypeOK
<1>2. CASE Bootstrap
  <2>1. /\ UNCHANGED <<pc, task, result, paid, next, fellBack>>
        /\ phase = "bootstrap" /\ phase' \in {"pool", "sequence", "done"}
    BY <1>2 DEF Bootstrap
  <2>2. todo' \subseteq Tasks
    BY <1>a, <1>2, TypeStep DEF TypeOK
  <2>3. QED BY <2>1, <2>2, <1>a, <1>b DEF PaidInv, Ahead, TypeOK
<1>3. CASE ExecutorFails
  BY <1>3 DEF ExecutorFails, PaidInv
<1>4. CASE TakeInSequence
  <2>1. PICK b \in todo : Begin(Main, b) /\ todo' = todo \ {b}
    BY <1>4 DEF TakeInSequence
  <2>2. /\ UNCHANGED <<result, paid, phase, next, fellBack>> /\ Free(Main)
        /\ phase \in {"sequence", "recover"} /\ b \in Tasks /\ b # Reduce
        /\ todo \subseteq Tasks
    <3>1. todo \subseteq 1..Planned
      BY DEF TypeOK
    <3>2. b \in Tasks /\ b # Reduce /\ todo \subseteq Tasks
      BY <2>1, <3>1, <1>a DEF Reduce
    <3>3. QED BY <1>4, <3>2 DEF TakeInSequence
  <2>3. ASSUME ~fellBack PROVE Ledger' /\ Ahead'
    <3>1. Ledger /\ Fresh(b) /\ Fresh(Reduce) /\ \A c \in todo : Fresh(c)
      BY <2>2, <2>3 DEF PaidInv, Ahead
    <3>2. Ledger' /\ \A c \in Tasks \ {b} : Fresh(c) => Fresh(c)'
      BY <2>1, <2>2, <3>1, <1>a, TakeFacts
    <3>3. Ahead'
      BY <2>1, <2>2, <3>1, <3>2, <1>a DEF Ahead
    <3>4. QED BY <3>2, <3>3
  <2>4. QED BY <2>2, <2>3 DEF PaidInv
<1>5. CASE JoinPool
  <2>1. CASE phase = "drain"
    BY <1>5, <2>1 DEF JoinPool, PaidInv
  <2>2. CASE phase = "pool"
    <3>1. /\ UNCHANGED <<pc, task, paid, next, fellBack, result>>
          /\ phase' = "recover" /\ todo' = Missing
      BY <1>5, <2>2 DEF JoinPool
    <3>2. \A t \in Threads : ~Busy(t)
      BY <1>5, <2>2 DEF JoinPool, PoolIsQuiet, OneSide, Serial, Threads, Busy
    <3>3. Missing \subseteq Tasks /\ \A b \in Missing : Fresh(b)
      <4>1. 1..width \subseteq Tasks
        BY LlmBudgetAssumption DEF LlmBudgetAssumption, TypeOK, Tasks, Reduce
      <4>2. QED BY <3>2, <4>1 DEF Missing, Fresh
    <3>4. QED BY <2>2, <3>1, <3>3, <1>a, <1>b DEF PaidInv, Ahead
  <2>3. QED BY <1>5, <2>1, <2>2 DEF JoinPool
<1>6. CASE EndBatches
  <2>1. UNCHANGED <<result, paid, fellBack>> /\ Free(Main) /\ phase \in {"sequence", "recover"}
    BY <1>6 DEF EndBatches
  <2>2. CASE phase' = "reduce" /\ Begin(Main, Reduce)
    <3>1. ~fellBack => Ledger /\ Fresh(Reduce)
      BY <2>1 DEF PaidInv, Ahead
    <3>2. ~fellBack => Ledger'
      BY <2>1, <2>2, <3>1, <1>a, TakeFacts
    <3>3. QED BY <2>1, <2>2, <3>2 DEF PaidInv, Ahead
  <2>3. CASE phase' = "done" /\ UNCHANGED threads
    BY <2>1, <2>3, <1>b DEF PaidInv, Ahead
  <2>4. QED BY <1>6, <2>2, <2>3 DEF EndBatches
<1>7. CASE EndReduce
  BY <1>7, <1>b DEF EndReduce, PaidInv, Ahead
<1>8. ASSUME NEW t \in Pool, TakeFromQueue(t) PROVE PaidInv'
  <2>1. /\ UNCHANGED <<result, paid, phase, fellBack>> /\ Free(t) /\ Begin(t, next)
        /\ phase \in {"pool", "drain"} /\ next' = next + 1 /\ t \in Threads
    BY <1>8, <1>a DEF TakeFromQueue
  <2>2. next \in Tasks /\ next # Reduce /\ Tasks \subseteq Int
    BY <1>8, LlmBudgetAssumption
       DEF LlmBudgetAssumption, TakeFromQueue, TypeOK, Tasks, Reduce
  <2>3. ASSUME ~fellBack PROVE Ledger' /\ Ahead'
    <3>1. phase = "pool" /\ Ledger /\ Fresh(Reduce) /\ \A b \in Tasks : b >= next => Fresh(b)
      BY <2>1, <2>3 DEF PaidInv, Ahead
    <3>2. Fresh(next)
      BY <2>2, <3>1
    <3>3. Ledger' /\ \A c \in Tasks \ {next} : Fresh(c) => Fresh(c)'
      BY <2>1, <2>2, <3>1, <3>2, TakeFacts
    <3>4. \A b \in Tasks : b >= next + 1 => b \in Tasks \ {next} /\ b >= next
      BY <2>2
    <3>5. Ahead'
      BY <2>1, <2>2, <3>1, <3>3, <3>4, <1>a DEF Ahead
    <3>6. QED BY <3>3, <3>5
  <2>4. QED BY <2>1, <2>3 DEF PaidInv
<1>9. ASSUME NEW t \in Threads, Step(t) PROVE PaidInv'
  <2>1. /\ UNCHANGED <<next, todo, fellBack>>
        /\ phase' = phase \/ phase' = "raised"
    BY <1>9 DEF Step, Check, Answers, CallFails, Garbled, ObserveCall, ObserveUsage
  <2>2. ASSUME ~fellBack PROVE Ledger' /\ Ahead'
    <3>1. Ledger /\ Ahead
      BY <2>2 DEF PaidInv
    <3>2. Ledger' /\ \A c \in Tasks : Fresh(c) => Fresh(c)'
      BY <1>9, <2>2, <3>1, StepMoves, MoveFacts
    <3>3. todo \subseteq Tasks
      BY <1>a DEF TypeOK
    <3>4. QED BY <2>1, <3>1, <3>2, <3>3, <1>a DEF Ahead
  <2>3. QED BY <2>1, <2>2 DEF PaidInv
<1>10. QED
  BY <1>1, <1>2, <1>3, <1>4, <1>5, <1>6, <1>7, <1>8, <1>9 DEF Next, Command, Stopped

-----------------------------------------------------------------------------
(* The report                                                              *)

\* Batches without an outcome are still to be run, or run by the command's own
\* thread, which took them off the list; after the reduce call began there are
\* none, and before the stage is planned there are no batches.
Accounted ==
  /\ phase = "bootstrap" => width = 0
  /\ phase \in {"sequence", "recover"} =>
       /\ todo \subseteq 1..width
       /\ Busy(Main) => task[Main] \in (1..width) \ todo
       /\ \A b \in Missing : b \in todo \/ (Busy(Main) /\ task[Main] = b)
  /\ phase = "reduce" /\ Busy(Main) => task[Main] = Reduce

\* The recovery pass counts as it goes, the sequential pass at its end.
Tallied ==
  phase = "recover" => completed + Cardinality(todo) + (IF Busy(Main) THEN 1 ELSE 0) = width

ReportInv == Accounted /\ Tallied /\ ReportIsExact

\* A step of a thread goes on with its task, records an outcome, or raises.
LEMMA StepReports ==
  ASSUME TypeOK, NEW t \in Threads, Step(t)
  PROVE  /\ Busy(t) /\ UNCHANGED <<width, todo, task>>
         /\ \A u \in Threads : u # t => pc'[u] = pc[u]
         /\ \/ phase' = phase /\ Busy(t)' /\ UNCHANGED <<result, completed>>
            \/ phase' = phase /\ ~Busy(t)' /\ \E o \in {"used", "unused"} : Finish(t, o)
            \/ phase' = phase /\ t \in Pool /\ UNCHANGED <<result, completed>>
            \/ phase' = "raised"
<1> USE DEF governor, threads, plan, history, Busy
<1>1. \A o \in {"used", "unused"} : Finish(t, o) =>
        (\A u \in Threads : u # t => pc'[u] = pc[u]) /\ pc'[t] = "idle"
  BY DEF Finish, TypeOK
<1>2. CASE Check(t)
  BY <1>1, <1>2 DEF Check, TypeOK
<1>3. CASE Answers(t)
  BY <1>3 DEF Answers, TypeOK
<1>4. CASE CallFails(t)
  <2>1. PICK b \in BOOLEAN : AfterFailure(t, b)
    BY <1>4 DEF CallFails
  <2>2. pc[t] \in {"call", "fallback"} /\ UNCHANGED <<phase, width, todo, task>>
    BY <1>4 DEF CallFails
  <2>3. \/ Finish(t, "unused")
        \/ pc' \in {pc, [pc EXCEPT ![t] = "fallback"]} /\ UNCHANGED <<result, completed>>
    BY <2>1 DEF AfterFailure
  <2>4. QED BY <1>1, <2>2, <2>3 DEF TypeOK
<1>5. CASE Garbled(t)
  BY <1>5 DEF Garbled, TypeOK, Threads
<1>6. CASE ObserveCall(t)
  BY <1>6 DEF ObserveCall, TypeOK
<1>7. CASE ObserveUsage(t)
  BY <1>1, <1>7 DEF ObserveUsage
<1>8. QED BY <1>2, <1>3, <1>4, <1>5, <1>6, <1>7 DEF Step

\* A recorded outcome is no longer missing, and nothing else changes.
LEMMA FinishedTask ==
  ASSUME TypeOK, NEW t \in Threads, NEW o \in {"used", "unused"}, Finish(t, o), width' = width
  PROVE  Missing' = Missing \ {task[t]}
BY DEF Finish, Missing, TypeOK, Tasks, Reduce

LEMMA TodoFacts ==
  ASSUME TypeOK
  PROVE  /\ Main \in Threads /\ Main \notin Pool
         /\ IsFiniteSet(todo) /\ Cardinality(todo) \in Nat
         /\ width \in Nat /\ task[Main] \in Int /\ completed \in Nat
<1>1. Planned \in Nat /\ Main \in Threads /\ Main \notin Pool
  BY LlmBudgetAssumption DEF LlmBudgetAssumption, Threads
<1>2. IsFiniteSet(1..Planned)
  BY <1>1, FS_Interval
<1>3. IsFiniteSet(todo) /\ Cardinality(todo) \in Nat
  BY <1>2, FS_Subset, FS_CardinalityType DEF TypeOK
<1>4. width \in Nat /\ task[Main] \in Int /\ completed \in Nat
  BY <1>1 DEF TypeOK, Tasks, Reduce
<1>5. QED BY <1>1, <1>3, <1>4

\* The sequential passes and the reduce call.
LEMMA ReportOfStep ==
  ASSUME TypeOK, OneSide, ReportInv, NEW t \in Threads, Step(t)
  PROVE  ReportInv'
<1> USE DEF ReportInv
<1>b. /\ UNCHANGED <<width, todo, task>> /\ Busy(t)
      /\ \A u \in Threads : u # t => pc'[u] = pc[u]
  BY StepReports
<1>c. t \in Pool => phase \notin {"bootstrap", "sequence", "recover", "reduce", "done"}
  BY <1>b DEF OneSide, Busy, Working
<1>d. phase \notin {"bootstrap", "done"}
  BY <1>b, <1>c DEF OneSide, Busy, Serial, Threads
<1>1. CASE phase' = "raised"
  BY <1>1 DEF Accounted, Tallied, ReportIsExact
<1>2. CASE phase' = phase /\ t \in Pool
  BY <1>2, <1>c DEF Accounted, Tallied, ReportIsExact
<1>3. CASE phase' = phase /\ t = Main
  <2>1. CASE Busy(t)' /\ UNCHANGED <<result, completed>>
    <3>1. UNCHANGED Missing /\ UNCHANGED Cardinality(todo)
      BY <1>b, <2>1 DEF Missing
    <3>2. Accounted' /\ Tallied'
      BY <1>3, <1>b, <2>1, <3>1 DEF Accounted, Tallied, Busy
    <3>3. ReportIsExact'
      BY <1>3, <1>b, <2>1, <3>1 DEF ReportIsExact
    <3>4. QED BY <3>2, <3>3
  <2>2. ASSUME NEW o \in {"used", "unused"}, Finish(t, o), ~Busy(t)' PROVE ReportInv'
    <3>1. Missing' = Missing \ {task[t]}
      BY <1>b, <2>2, FinishedTask
    <3>2. completed' = IF phase = "recover" THEN completed + 1 ELSE completed
      BY <2>2 DEF Finish
    <3>3. Accounted'
      BY <1>3, <1>b, <2>2, <3>1 DEF Accounted
    <3>4. Tallied'
      BY <1>3, <1>b, TodoFacts, <2>2, <3>2 DEF Tallied
    <3>5. ReportIsExact'
      BY <1>3, <1>b, <1>d, <3>1, <3>2 DEF ReportIsExact
    <3>6. QED BY <3>3, <3>4, <3>5
  <2>3. QED BY <1>1, <1>3, <2>1, <2>2, TodoFacts, StepReports
<1>4. QED BY <1>1, <1>2, <1>3, StepReports DEF Threads

LEMMA ReportStep == TypeOK /\ OneSide /\ ReportInv /\ [Next]_vars => ReportInv'
<1> SUFFICES ASSUME TypeOK, OneSide, ReportInv, [Next]_vars PROVE ReportInv'
  OBVIOUS
<1> USE DEF ReportInv
<1>1. CASE TimePasses \/ UNCHANGED vars
  <2>1. UNCHANGED <<phase, width, todo, task, pc, result, completed>>
    BY <1>1 DEF TimePasses, vars, threads, plan
  <2>2. QED BY <2>1 DEF Accounted, Tallied, ReportIsExact, Missing, Busy
<1>2. CASE Submit \/ ExecutorFails
  <2>1. phase' \in {"pool", "drain"}
    BY <1>2 DEF Submit, ExecutorFails
  <2>2. QED BY <2>1 DEF Accounted, Tallied, ReportIsExact
<1>3. CASE Bootstrap
  <2>1. phase = "bootstrap" /\ UNCHANGED <<pc, result>> /\ ~Busy(Main)
    BY <1>3 DEF Bootstrap, threads, OneSide, Serial, Busy
  <2>2. CASE Allowed(StageCost)
    BY <1>3, <2>1, <2>2 DEF Bootstrap, Accounted, Tallied, ReportIsExact, Missing, Busy
  <2>3. CASE ~Allowed(StageCost)
    BY <1>3, <2>1, <2>3 DEF Bootstrap, Accounted, Tallied, ReportIsExact
  <2>4. QED BY <2>2, <2>3
<1>4. CASE JoinPool
  <2>1. ~Busy(Main) /\ UNCHANGED <<pc, width>>
    BY <1>4 DEF JoinPool, threads, OneSide, Serial, Busy
  <2>2. CASE phase = "pool"
    <3>1. phase' = "recover" /\ todo' = Missing /\ completed' = width - Cardinality(Missing)
          /\ UNCHANGED result
      BY <1>4, <2>2 DEF JoinPool
    <3>2. Cardinality(Missing) \in Nat /\ Missing \subseteq 1..width
      <4>1. Missing \subseteq 1..width /\ IsFiniteSet(1..width)
        BY TodoFacts, FS_Interval DEF Missing
      <4>2. QED BY <4>1, FS_Subset, FS_CardinalityType
    <3>3. Accounted'
      BY <2>1, <3>1, <3>2 DEF Accounted, Missing, Busy
    <3>4. Tallied'
      BY TodoFacts, <2>1, <3>1, <3>2 DEF Tallied, Busy
    <3>5. QED BY <3>1, <3>3, <3>4 DEF ReportIsExact
  <2>3. CASE phase = "drain"
    BY <1>4, <2>1, <2>3 DEF JoinPool, Accounted, Tallied, ReportIsExact, Missing, Busy
  <2>4. QED BY <1>4, <2>2, <2>3 DEF JoinPool
<1>5. CASE TakeInSequence
  <2>1. PICK b \in todo : Begin(Main, b) /\ todo' = todo \ {b}
    BY <1>5 DEF TakeInSequence
  <2>2. /\ UNCHANGED <<phase, width, result, completed, Missing>> /\ ~Busy(Main)
        /\ phase \in {"sequence", "recover"}
    BY <1>5 DEF TakeInSequence, Missing, Busy
  <2>3. Busy(Main)' /\ task'[Main] = b
    BY TodoFacts, <2>1 DEF Begin, Busy, TypeOK
  <2>4. Cardinality(todo') = Cardinality(todo) - 1
    BY TodoFacts, <2>1, FS_RemoveElement
  <2>5. Accounted'
    BY <2>1, <2>2, <2>3 DEF Accounted
  <2>6. Tallied'
    BY TodoFacts, <2>2, <2>3, <2>4 DEF Tallied
  <2>7. QED BY <2>2, <2>5, <2>6 DEF ReportIsExact
<1>6. CASE EndBatches
  <2>1. /\ phase \in {"sequence", "recover"} /\ todo = {} /\ ~Busy(Main)
        /\ UNCHANGED <<width, result, Missing>> /\ phase' \in {"reduce", "done"}
        /\ completed' = IF phase = "sequence" THEN width ELSE completed
    BY <1>6 DEF EndBatches, Missing, Busy
  <2>2. Missing = {}
    BY <2>1 DEF Accounted, Missing
  <2>3. completed' = width
    BY TodoFacts, <2>1, FS_EmptySet DEF Tallied
  <2>4. phase' = "reduce" => task'[Main] = Reduce
    BY <1>6, TodoFacts DEF EndBatches, Begin, TypeOK
  <2>5. QED BY <2>1, <2>2, <2>3, <2>4 DEF Accounted, Tallied, ReportIsExact
<1>7. CASE EndReduce
  BY <1>7 DEF EndReduce, Accounted, Tallied, ReportIsExact, Missing
<1>8. ASSUME NEW t \in Pool, TakeFromQueue(t) PROVE ReportInv'
  <2>1. phase' \in {"pool", "drain"}
    BY <1>8 DEF TakeFromQueue
  <2>2. QED BY <2>1 DEF Accounted, Tallied, ReportIsExact
<1>9. ASSUME NEW t \in Threads, Step(t) PROVE ReportInv'
  BY <1>9, ReportOfStep
<1>10. QED
  BY <1>1, <1>2, <1>3, <1>4, <1>5, <1>6, <1>7, <1>8, <1>9 DEF Next, Command, Stopped

-----------------------------------------------------------------------------
(* Batches that run one after the other                                    *)

Counting == {"count", "add"}

\* Without the pool only the command's own thread counts: what it has not
\* counted yet is its answer.  What it was last told of the quota is the quota
\* and the requests failed calls have used since; a call, its retries and its
\* alternate model follow a check that this is above the buffer.
Alone ==
  /\ phase \notin Working
  /\ spent = tokens + (IF pc[Main] \in Counting THEN answer[Main].tokens ELSE 0)
  /\ pc[Main] = "add" => held[Main] = tokens
  /\ untold # NoSignal => Headers
  /\ Headers /\ pc[Main] \in Counting => answer[Main].remaining = quota
  /\ untold # NoSignal /\ pc[Main] \notin Counting => remaining = quota + untold
  /\ untold # NoSignal /\ pc[Main] \in {"call", "fallback"} => quota + untold > Buffer

LEMMA NoSignalFact == NoSignal \notin Nat
BY LlmBudgetAssumption DEF LlmBudgetAssumption

LEMMA AloneInit == Init => Alone
<1> SUFFICES ASSUME Init PROVE Alone
  OBVIOUS
<1>1. Main \in Threads /\ pc[Main] = "idle"
  BY DEF Init, Threads
<1>2. TypeOK
  BY TypeInit
<1>3. spent = tokens /\ spent \in Nat
  BY <1>2 DEF Init, TypeOK
<1>4. untold # NoSignal => Headers /\ untold = 0 /\ remaining = quota
  BY DEF Init
<1>5. untold # NoSignal => remaining = quota + untold
  BY <1>2, <1>4 DEF TypeOK
<1>6. QED BY <1>1, <1>3, <1>4, <1>5 DEF Alone, Init, Working, Counting

\* Steps that start or end a task of the command's own thread.
LEMMA AloneKept ==
  ASSUME TypeOK, Alone, phase' \notin Working,
         pc'[Main] = pc[Main] \/ (pc[Main] \notin Counting /\ pc'[Main] \in {"idle", "check"}),
         UNCHANGED <<tokens, remaining, held, answer, untold, spent, quota>>
  PROVE  Alone'
BY DEF Alone, Counting

\* A failed call may use a request, which counts as untold.
LEMMA AloneFails ==
  ASSUME TypeOK, Alone, phase' \notin Working, pc[Main] \in {"call", "fallback"},
         pc'[Main] \in {"idle", "call", "fallback"}, NEW used \in {0, 1}, quota' = quota - used,
         untold' = Untold(used), UNCHANGED <<tokens, remaining, held, answer, spent>>
  PROVE  Alone'
<1>1. CASE untold = NoSignal
  BY <1>1 DEF Alone, Counting, Untold
<1>2. CASE untold # NoSignal
  <2>1. untold \in Nat /\ quota \in Nat /\ untold' = untold + used
    BY <1>2 DEF TypeOK, Untold
  <2>2. quota' + untold' = quota + untold
    BY <2>1
  <2>3. remaining' = quota' + untold' /\ quota' + untold' > Buffer /\ Headers
    BY <1>2, <2>2 DEF Alone, Counting
  <2> QED BY <2>3 DEF Alone, Counting
<1> QED BY <1>1, <1>2

LEMMA AloneThread ==
  ASSUME TypeOK, OneSide, Alone, NEW t \in Threads, Step(t)
  PROVE  Alone'
<1> USE DEF governor, threads, plan, history, Counting
<1>1. t = Main /\ Main \in Threads
  BY DEF Step, Check, Answers, CallFails, Garbled, ObserveCall, ObserveUsage, OneSide, Alone, Threads
<1>2. phase' = phase \/ phase' = "raised"
  BY DEF Step, Check, Answers, CallFails, Garbled, ObserveCall, ObserveUsage
<1>3. phase' \notin Working
  BY <1>2 DEF Alone, Working
<1>4. \A o \in Outcomes : Finish(t, o) => pc'[Main] = "idle"
  BY <1>1 DEF Finish, TypeOK
<1>5. CASE Check(t)
  <2>1. CASE Finish(t, "unused")
    BY <1>1, <1>3, <1>4, <1>5, <2>1, AloneKept DEF Check, Outcomes
  <2>2. CASE CheckPasses /\ pc' = [pc EXCEPT ![t] = "call"]
    <3>1. pc[Main] = "check" /\ pc'[Main] = "call" /\ UNCHANGED <<governor, held, answer, history, quota>>
      BY <1>1, <1>5, <2>2 DEF Check, TypeOK
    <3>2. untold # NoSignal => quota + untold > Buffer
      <4>1. untold # NoSignal => remaining = quota + untold /\ quota + untold \in Nat
        BY <3>1 DEF Alone, TypeOK
      <4>2. QED BY <2>2, <4>1, NoSignalFact DEF CheckPasses, Allowed
    <3>3. QED BY <1>3, <3>1, <3>2 DEF Alone
  <2>3. QED BY <1>5, <2>1, <2>2 DEF Check
<1>6. CASE Answers(t)
  <2>1. PICK n \in Uses :
          /\ spent' = spent + n
          /\ answer' = [answer EXCEPT ![t] =
                          [tokens |-> n, remaining |-> IF Headers THEN quota - 1 ELSE Estimate]]
    BY <1>6 DEF Answers
  <2>2. /\ pc[Main] \in {"call", "fallback"} /\ pc'[Main] = "count" /\ quota' = quota - 1
        /\ UNCHANGED <<tokens, remaining, untold>>
    BY <1>1, <1>6 DEF Answers, TypeOK
  <2>3. answer'[Main].tokens = n /\ (Headers => answer'[Main].remaining = quota - 1)
    BY <1>1, <2>1 DEF TypeOK
  <2>4. spent' = tokens + n
    BY <2>1, <2>2 DEF Alone, TypeOK
  <2>5. QED BY <1>3, <2>2, <2>3, <2>4 DEF Alone
<1>7. CASE CallFails(t)
  <2>1. pc[Main] \in {"call", "fallback"} /\ UNCHANGED <<tokens, remaining, held, answer, spent>>
    BY <1>1, <1>7 DEF CallFails
  <2>2. PICK b \in BOOLEAN : AfterFailure(t, b)
    BY <1>7 DEF CallFails
  <2>3. pc'[Main] \in {"idle", "call", "fallback"}
    BY <1>1, <1>4, <2>1, <2>2 DEF AfterFailure, Outcomes, TypeOK
  <2>4. CASE quota' \in {quota, quota - 1} \cap Nat /\ untold' = Untold(quota - quota')
    <3>1. quota \in Nat /\ quota - quota' \in {0, 1} /\ quota' = quota - (quota - quota')
      BY <2>4, Used DEF TypeOK
    <3>2. PICK used \in {0, 1} : used = quota - quota'
      BY <3>1
    <3>3. quota' = quota - used /\ untold' = Untold(used)
      BY <2>4, <3>1, <3>2
    <3>4. QED BY <1>3, <2>1, <2>3, <3>3, AloneFails
  <2>5. CASE UNCHANGED <<quota, untold>>
    BY <1>3, <2>1, <2>3, <2>5 DEF Alone
  <2>6. QED BY <1>7, <2>4, <2>5 DEF CallFails
<1>8. CASE Garbled(t)
  <2>1. /\ pc[Main] \in {"call", "fallback"} /\ pc'[Main] = "idle"
        /\ quota' = quota - 1 /\ untold' = Untold(1)
        /\ UNCHANGED <<tokens, remaining, held, answer, spent>>
    BY <1>1, <1>8 DEF Garbled, TypeOK
  <2>2. QED BY <1>3, <2>1, AloneFails
<1>9. CASE ObserveCall(t)
  <2>1. /\ pc[Main] = "count" /\ pc'[Main] = "add" /\ held'[Main] = tokens
        /\ UNCHANGED <<tokens, remaining, answer, untold, spent, quota>>
    BY <1>1, <1>9 DEF ObserveCall, TypeOK
  <2>2. QED BY <1>3, <2>1 DEF Alone
<1>10. CASE ObserveUsage(t)
  <2>1. /\ pc[Main] = "add" /\ pc'[Main] = "idle"
        /\ tokens' = held[Main] + answer[Main].tokens /\ remaining' = answer[Main].remaining
        /\ untold' = (IF Headers THEN 0 ELSE NoSignal) /\ UNCHANGED <<spent, quota>>
    BY <1>1, <1>4, <1>10 DEF ObserveUsage, Outcomes
  <2>2. tokens' \in Nat
    BY <1>1, <2>1 DEF TypeOK
  <2>3. spent' = tokens'
    BY <2>1 DEF Alone
  <2>4. untold' # NoSignal => Headers /\ untold' = 0 /\ remaining' = quota /\ quota \in Nat
    BY <2>1 DEF Alone, TypeOK
  <2>5. untold' # NoSignal => remaining' = quota' + untold'
    BY <2>1, <2>4
  <2>6. QED BY <1>3, <2>1, <2>2, <2>3, <2>4, <2>5 DEF Alone
<1>11. QED BY <1>5, <1>6, <1>7, <1>8, <1>9, <1>10 DEF Step

LEMMA AloneStep ==
  ASSUME TypeOK, OneSide, Alone, phase' # "pool", [Next]_vars
  PROVE  Alone'
<1> USE DEF governor, threads, plan, history, vars
<1>1. Main \in Threads
  BY DEF Threads
<1>2. CASE TimePasses \/ Bootstrap \/ Submit \/ ExecutorFails \/ JoinPool \/ EndReduce \/ UNCHANGED vars
  <2>1. UNCHANGED <<tokens, remaining, pc, held, answer, untold, spent, quota>>
    BY <1>2 DEF TimePasses, Bootstrap, Submit, ExecutorFails, JoinPool, EndReduce
  <2>2. phase' \notin Working
    BY <1>2 DEF TimePasses, Bootstrap, Submit, ExecutorFails, JoinPool, EndReduce, Alone, Working
  <2>3. QED BY <2>1, <2>2, AloneKept
<1>3. CASE TakeInSequence \/ EndBatches
  <2>1. UNCHANGED <<governor, untold, spent, quota>> /\ pc[Main] = "idle" /\ phase' \notin Working
    BY <1>3 DEF TakeInSequence, EndBatches, Working
  <2>2. UNCHANGED <<held, answer>> /\ pc'[Main] \in {"idle", "check"}
    BY <1>1, <1>3 DEF TakeInSequence, EndBatches, Begin, TypeOK
  <2>3. QED BY <2>1, <2>2, AloneKept DEF Counting
<1>4. ASSUME NEW t \in Pool, TakeFromQueue(t) PROVE FALSE
  BY <1>4 DEF TakeFromQueue, Alone, Working
<1>5. QED BY <1>2, <1>3, <1>4, AloneThread DEF Next, Command, Stopped

\* The pool is not entered while the batches run in sequence.
LEMMA InSequenceStep ==
  ASSUME [Next]_vars
  PROVE  /\ InSequence' = InSequence
         /\ InSequence /\ phase # "pool" => phase' # "pool"
<1> USE DEF governor, threads, plan, history, vars
<1>1. async' = async
  BY DEF Next, TimePasses, Command, Bootstrap, Submit, ExecutorFails, JoinPool, EndReduce, TakeInSequence,
     EndBatches, TakeFromQueue, Step, Check, Answers, CallFails, Garbled, ObserveCall, ObserveUsage, Stopped
<1>2. ASSUME InSequence, phase # "pool" PROVE phase' # "pool"
  <2>1. CASE Bootstrap
    BY <1>2, <2>1 DEF Bootstrap
  <2>2. CASE TimePasses \/ Submit \/ ExecutorFails \/ JoinPool \/ EndReduce \/ TakeInSequence
             \/ EndBatches \/ UNCHANGED vars
    BY <1>2, <2>2 DEF TimePasses, Submit, ExecutorFails, JoinPool, EndReduce, TakeInSequence, EndBatches
  <2>3. CASE \E t \in Pool : TakeFromQueue(t)
    BY <1>2, <2>3 DEF TakeFromQueue
  <2>4. ASSUME NEW t \in Threads, Step(t) PROVE phase' # "pool"
    BY <1>2, <2>4 DEF Step, Check, Answers, CallFails, Garbled, ObserveCall, ObserveUsage
  <2>5. QED BY <2>1, <2>2, <2>3, <2>4 DEF Next, Command, Stopped
<1>3. InSequence' = InSequence
  BY <1>1 DEF InSequence
<1> QED BY <1>2, <1>3

\* A request is spent by a call, and a call was checked.
LEMMA BufferStep ==
  ASSUME TypeOK, OneSide, Alone, [Next]_vars, untold # NoSignal, quota' < quota
  PROVE  quota + untold > Buffer
<1> USE DEF governor, threads, plan, history, vars
<1>1. quota \in Nat /\ ~(quota < quota)
  BY DEF TypeOK
<1>2. PICK t \in Threads : Answers(t) \/ CallFails(t) \/ Garbled(t)
  <2>1. ~UNCHANGED quota
    BY <1>1
  <2>2. QED BY <2>1 DEF Next, TimePasses, Command, Bootstrap, Submit, ExecutorFails, JoinPool, EndReduce,
       TakeInSequence, EndBatches, TakeFromQueue, Step, Check, ObserveCall, ObserveUsage, Stopped
<1>3. t = Main /\ pc[Main] \in {"call", "fallback"}
  BY <1>2 DEF Answers, CallFails, Garbled, OneSide, Alone, Threads
<1>4. QED BY <1>3 DEF Alone

-----------------------------------------------------------------------------
(* The tokens of a pool                                                    *)

\* What the threads still have to count.
Pending == [t \in Threads |-> IF pc[t] \in Counting THEN answer[t].tokens ELSE 0]

\* total[S] is the sum of amount over the threads of S.
IsSum(total, amount) ==
  /\ total \in [SUBSET Threads -> Nat]
  /\ total[{}] = 0
  /\ \A S \in SUBSET Threads : \A t \in Threads \ S : total[S \cup {t}] = total[S] + amount[t]

\* With the tokens that the threads still have to count, neither the total nor
\* what a thread has read of it passes what was spent.
Covered(total) ==
  /\ tokens + total[Threads] <= spent
  /\ \A t \in Threads : pc[t] = "add" => held[t] + total[Threads] <= spent

CoveredInv == \E total : IsSum(total, Pending) /\ Covered(total)

LEMMA PendingType == ASSUME TypeOK PROVE Pending \in [Threads -> Nat]
BY DEF TypeOK, Pending

\* When one amount changes, so do the sums that contain it.
Changed(total, t, by) == [S \in SUBSET Threads |-> IF t \in S THEN total[S] + by ELSE total[S]]

LEMMA SumChanges ==
  ASSUME NEW p \in [Threads -> Nat], NEW q \in [Threads -> Nat], NEW t \in Threads,
         \A u \in Threads \ {t} : q[u] = p[u],
         NEW total, IsSum(total, p)
  PROVE  /\ IsSum(Changed(total, t, q[t] - p[t]), q)
         /\ Changed(total, t, q[t] - p[t])[Threads] = total[Threads] + (q[t] - p[t])
<1> DEFINE by == q[t] - p[t]
           other == Changed(total, t, by)
<1>1. /\ total \in [SUBSET Threads -> Nat] /\ p[t] \in Nat /\ q[t] \in Nat
      /\ \A S \in SUBSET Threads : other[S] = IF t \in S THEN total[S] + by ELSE total[S]
  BY DEF IsSum, Changed
<1>2. ASSUME NEW S \in SUBSET Threads, t \in S PROVE total[S] + by \in Nat
  <2>1. S \ {t} \in SUBSET Threads /\ t \in Threads \ (S \ {t}) /\ (S \ {t}) \cup {t} = S
    BY <1>2
  <2>2. total[S] = total[S \ {t}] + p[t]
    BY <2>1 DEF IsSum
  <2>3. total[S \ {t}] \in Nat
    BY <1>1
  <2> QED BY <1>1, <2>2, <2>3
<1>3. other \in [SUBSET Threads -> Nat]
  BY <1>1, <1>2 DEF Changed
<1>4. other[{}] = 0
  BY <1>1 DEF IsSum
<1>5. by \in Int /\ by = q[t] - p[t]
  BY <1>1
<1>6. other[Threads] = total[Threads] + by
  BY <1>1
<1> HIDE DEF other, by
<1>7. ASSUME NEW S \in SUBSET Threads, NEW u \in Threads \ S
      PROVE  other[S \cup {u}] = other[S] + q[u]
  <2>1. /\ S \cup {u} \in SUBSET Threads /\ total[S \cup {u}] = total[S] + p[u]
        /\ total[S] \in Nat /\ p[u] \in Nat /\ q[u] \in Nat
    BY <1>1 DEF IsSum
  <2>2. /\ other[S \cup {u}] = IF t \in S \cup {u} THEN total[S \cup {u}] + by ELSE total[S \cup {u}]
        /\ other[S] = IF t \in S THEN total[S] + by ELSE total[S]
    BY <1>1, <2>1
  <2>3. CASE u = t
    BY <1>1, <1>5, <2>1, <2>2, <2>3
  <2>4. CASE u # t /\ t \in S
    BY <1>1, <1>5, <2>1, <2>2, <2>4
  <2>5. CASE u # t /\ t \notin S
    BY <2>1, <2>2, <2>5
  <2> QED BY <2>3, <2>4, <2>5
<1>8. IsSum(other, q)
  BY <1>3, <1>4, <1>7 DEF IsSum
<1> QED BY <1>6, <1>8 DEF other, by

LEMMA CoveredInit == Init => CoveredInv
<1> SUFFICES ASSUME Init PROVE CoveredInv
  OBVIOUS
<1> DEFINE none == [S \in SUBSET Threads |-> 0]
<1>1. \A t \in Threads : pc[t] = "idle" /\ Pending[t] = 0
  BY DEF Init, Pending, Counting
<1>2. none \in [SUBSET Threads -> Nat] /\ IsSum(none, Pending)
  BY <1>1 DEF IsSum
<1>3. tokens = spent /\ spent \in Nat
  BY TypeInit DEF Init, TypeOK
<1>4. none[Threads] = 0
  OBVIOUS
<1>5. Covered(none)
  BY <1>1, <1>3, <1>4 DEF Covered
<1> QED BY <1>2, <1>5 DEF CoveredInv

\* Steps that neither answer nor count.
LEMMA CoveredKept ==
  ASSUME CoveredInv, UNCHANGED <<tokens, held, answer, spent>>,
         \A t \in Threads : pc'[t] = pc[t] \/ (pc[t] \notin Counting /\ pc'[t] \notin Counting)
  PROVE  CoveredInv'
<1>1. PICK total : IsSum(total, Pending) /\ Covered(total)
  BY DEF CoveredInv
<1>2. Pending' = Pending
  BY DEF Pending, Counting
<1>3. Covered(total)'
  BY <1>1 DEF Covered, Counting
<1>4. IsSum(total, Pending')
  BY <1>1, <1>2
<1> QED BY <1>3, <1>4 DEF CoveredInv, IsSum

LEMMA CoveredAnswers ==
  ASSUME TypeOK, TypeOK', CoveredInv, NEW t \in Threads, Answers(t)
  PROVE  CoveredInv'
<1>1. PICK total : IsSum(total, Pending) /\ Covered(total)
  BY DEF CoveredInv
<1>2. PICK n \in Uses :
        /\ spent' = spent + n
        /\ answer' = [answer EXCEPT ![t] =
                        [tokens |-> n, remaining |-> IF Headers THEN quota - 1 ELSE Estimate]]
  BY DEF Answers
<1>3. /\ pc[t] \notin Counting /\ pc' = [pc EXCEPT ![t] = "count"]
      /\ UNCHANGED <<tokens, held>>
  BY DEF Answers, Counting, governor
<1>4. Pending[t] = 0 /\ Pending'[t] = n /\ \A u \in Threads \ {t} : Pending'[u] = Pending[u]
  BY <1>2, <1>3 DEF Pending, Counting, TypeOK
<1>5. Pending \in [Threads -> Nat] /\ Pending' \in [Threads -> Nat]
  BY PendingType DEF Pending, TypeOK
<1>6. PICK other : /\ IsSum(other, Pending')
                   /\ other[Threads] = total[Threads] + (Pending'[t] - Pending[t])
  <2> DEFINE sum == Changed(total, t, Pending'[t] - Pending[t])
  <2>1. IsSum(sum, Pending') /\ sum[Threads] = total[Threads] + (Pending'[t] - Pending[t])
    BY <1>1, <1>4, <1>5, SumChanges
  <2> QED BY <2>1
<1>7. /\ total[Threads] \in Nat /\ n \in Nat /\ tokens \in Nat /\ spent \in Nat
      /\ other[Threads] = total[Threads] + n
  <2>1. total[Threads] \in Nat
    BY <1>1 DEF IsSum
  <2> QED BY <1>4, <1>5, <1>6, <2>1 DEF TypeOK
<1>8. \A u \in Threads : pc'[u] = "add" => pc[u] = "add"
  BY <1>3 DEF TypeOK
<1>9. Covered(other)'
  <2>1. tokens' + other[Threads] <= spent'
    BY <1>1, <1>2, <1>3, <1>7 DEF Covered
  <2>2. ASSUME NEW u \in Threads, pc'[u] = "add" PROVE held'[u] + other[Threads] <= spent'
    <3>1. held[u] \in Nat /\ held[u] + total[Threads] <= spent
      BY <1>1, <1>8, <2>2 DEF Covered, TypeOK
    <3> QED BY <1>2, <1>3, <1>7, <3>1
  <2> QED BY <2>1, <2>2 DEF Covered
<1> QED BY <1>6, <1>9 DEF CoveredInv, IsSum

LEMMA CoveredReads ==
  ASSUME TypeOK, CoveredInv, NEW t \in Threads, ObserveCall(t)
  PROVE  CoveredInv'
<1>1. PICK total : IsSum(total, Pending) /\ Covered(total)
  BY DEF CoveredInv
<1>2. /\ pc[t] = "count" /\ pc' = [pc EXCEPT ![t] = "add"]
      /\ held' = [held EXCEPT ![t] = tokens]
      /\ UNCHANGED <<tokens, answer, spent>>
  BY DEF ObserveCall, history
<1>3. Pending' = Pending
  BY <1>2 DEF Pending, Counting, TypeOK
<1>4. Covered(total)'
  <2>1. ASSUME NEW u \in Threads, pc'[u] = "add" PROVE held'[u] + total[Threads] <= spent
    BY <1>1, <1>2, <2>1 DEF Covered, TypeOK
  <2> QED BY <1>1, <1>2, <2>1 DEF Covered
<1> QED BY <1>1, <1>3, <1>4 DEF CoveredInv, IsSum

LEMMA CoveredAdds ==
  ASSUME TypeOK, TypeOK', CoveredInv, NEW t \in Threads, ObserveUsage(t)
  PROVE  CoveredInv'
<1>1. PICK total : IsSum(total, Pending) /\ Covered(total)
  BY DEF CoveredInv
<1>2. /\ pc[t] = "add" /\ pc' = [pc EXCEPT ![t] = "idle"]
      /\ tokens' = held[t] + answer[t].tokens
      /\ UNCHANGED <<held, answer, spent>>
  BY DEF ObserveUsage, Finish, history
<1>3. /\ Pending[t] = answer[t].tokens /\ Pending'[t] = 0
      /\ \A u \in Threads \ {t} : Pending'[u] = Pending[u]
  BY <1>2 DEF Pending, Counting, TypeOK
<1>4. Pending \in [Threads -> Nat] /\ Pending' \in [Threads -> Nat]
  BY PendingType DEF Pending, TypeOK
<1>5. PICK other : /\ IsSum(other, Pending')
                   /\ other[Threads] = total[Threads] + (Pending'[t] - Pending[t])
  <2> DEFINE sum == Changed(total, t, Pending'[t] - Pending[t])
  <2>1. IsSum(sum, Pending') /\ sum[Threads] = total[Threads] + (Pending'[t] - Pending[t])
    BY <1>1, <1>3, <1>4, SumChanges, ZenonT(60)
  <2> QED BY <2>1
<1>6. /\ total[Threads] \in Nat /\ answer[t].tokens \in Nat /\ spent \in Nat /\ held[t] \in Nat
      /\ other[Threads] = total[Threads] - answer[t].tokens
  <2>1. total[Threads] \in Nat
    BY <1>1 DEF IsSum
  <2>2. answer[t].tokens \in Nat /\ spent \in Nat /\ held[t] \in Nat
    BY DEF TypeOK
  <2> QED BY <1>3, <1>5, <2>1, <2>2
<1>7. held[t] + total[Threads] <= spent
  BY <1>1, <1>2 DEF Covered
<1>8. Covered(other)'
  <2>1. tokens' + other[Threads] <= spent'
    BY <1>2, <1>6, <1>7
  <2>2. ASSUME NEW u \in Threads, pc'[u] = "add" PROVE held'[u] + other[Threads] <= spent'
    <3>1. pc[u] = "add" /\ held[u] \in Nat
      BY <1>2, <2>2 DEF TypeOK
    <3>2. held[u] + total[Threads] <= spent
      BY <1>1, <3>1 DEF Covered
    <3> QED BY <1>2, <1>6, <3>1, <3>2
  <2> QED BY <2>1, <2>2 DEF Covered
<1> QED BY <1>5, <1>8 DEF CoveredInv, IsSum

LEMMA CoveredStep == ASSUME TypeOK, TypeOK', CoveredInv, [Next]_vars PROVE CoveredInv'
<1> USE DEF governor, threads, plan, history, vars
<1>1. Main \in Threads /\ Pool \subseteq Threads
  BY DEF Threads
<1>2. CASE TimePasses \/ Bootstrap \/ Submit \/ ExecutorFails \/ JoinPool \/ EndReduce \/ UNCHANGED vars
  BY <1>2, CoveredKept DEF TimePasses, Bootstrap, Submit, ExecutorFails, JoinPool, EndReduce
<1>3. ASSUME NEW t \in Threads, NEW b, Free(t), Begin(t, b), UNCHANGED <<governor, history>>
      PROVE  CoveredInv'
  <2>1. \A u \in Threads : pc'[u] = pc[u] \/ (pc[u] \notin Counting /\ pc'[u] \notin Counting)
    BY <1>3 DEF Begin, Counting, TypeOK
  <2> QED BY <1>3, <2>1, CoveredKept DEF Begin
<1>4. CASE TakeInSequence
  BY <1>1, <1>3, <1>4 DEF TakeInSequence
<1>5. ASSUME NEW t \in Pool, TakeFromQueue(t) PROVE CoveredInv'
  BY <1>1, <1>3, <1>5 DEF TakeFromQueue
<1>6. CASE EndBatches
  <2>1. CASE UNCHANGED threads
    BY <1>6, <2>1, CoveredKept DEF EndBatches
  <2>2. CASE Begin(Main, Reduce)
    BY <1>1, <1>3, <1>6, <2>2 DEF EndBatches
  <2> QED BY <1>6, <2>1, <2>2 DEF EndBatches
<1>7. ASSUME NEW t \in Threads, Check(t) \/ CallFails(t) \/ Garbled(t) PROVE CoveredInv'
  <2>1. pc[t] \in Asking /\ UNCHANGED <<tokens, held, answer, spent>>
    BY <1>7 DEF Check, CallFails, Garbled, Asking
  <2>2. \/ pc' = pc
        \/ \E at \in {"idle", "call", "fallback"} : pc' = [pc EXCEPT ![t] = at]
    BY <1>7 DEF Check, CallFails, Garbled, AfterFailure, Finish
  <2>3. \A u \in Threads : pc'[u] = pc[u] \/ (pc[u] \notin Counting /\ pc'[u] \notin Counting)
    BY <2>1, <2>2 DEF Asking, Counting, TypeOK
  <2> QED BY <2>1, <2>3, CoveredKept
<1> QED
  BY <1>2, <1>4, <1>5, <1>6, <1>7, CoveredAnswers, CoveredReads, CoveredAdds
     DEF Next, Command, Step, Stopped

-----------------------------------------------------------------------------
(* The theorems                                                            *)

LEMMA InvInit == Init => Inv
<1> SUFFICES ASSUME Init PROVE Inv
  OBVIOUS
<1>1. TypeOK
  BY TypeInit
<1>2. OneSide
  BY LlmBudgetAssumption DEF LlmBudgetAssumption, Init, OneSide, Threads
<1>3. CallsBounded
  <2>1. InFlight = {}
    BY DEF Init, InFlight
  <2>2. Cardinality(InFlight) = 0 /\ Cardinality(Pool) \in Nat \ {0} /\ calls \in {0, 1}
    BY <1>1, <1>2, <2>1, FS_EmptySet, InFlightFacts DEF Init
  <2>3. QED BY <2>2, LlmBudgetAssumption DEF LlmBudgetAssumption, CallsBounded
<1>4. PaidInv
  BY <1>1 DEF Init, PaidInv, Ledger, OneHolder, Held, Unpaid, PaidAtMostOnce, Ahead, Fresh, Busy
<1>5. QED BY <1>1, <1>2, <1>3, <1>4 DEF Inv

LEMMA InvStep == Inv /\ [Next]_vars => Inv'
BY TypeStep, OneSideStep, CallsStep, PaidStep DEF Inv

\* The inductive invariant holds in every reachable state.
THEOREM Invariance == Spec => []Inv
BY InvInit, InvStep, PTL DEF Spec

\* Every variable of the batch stage keeps its type.
THEOREM TypeCorrect == Spec => []TypeOK
<1>1. Inv => TypeOK
  BY DEF Inv
<1>2. QED BY <1>1, Invariance, PTL

\* The overrun of RB_AI_MAX_LLM_CALLS_PER_RUN is bounded by the pool's other
\* threads, for every pool, plan, retry policy and provider.
THEOREM CapOverrun == Spec => []CallsBounded
<1>1. Inv => CallsBounded
  BY DEF Inv
<1>2. QED BY <1>1, Invariance, PTL

\* run_bounded_batch_tasks asks for no batch again whose answer it has, unless
\* the executor itself failed.
THEOREM NoBatchPaidTwice == Spec => []PaidOnce
<1>1. Inv => PaidOnce
  BY DEF Inv, PaidInv, Ledger, PaidAtMostOnce, PaidOnce
<1>2. QED BY <1>1, Invariance, PTL

\* Every outcome is in the report (LlmBudget!ReportIsExact): however the pool
\* ended, the recovery pass or the sequential one ran what was missing before
\* the reduce call is built, and async_batch_tasks_completed says so.
THEOREM ReportComplete == Spec => []ReportIsExact
<1>1. Init => ReportInv
  BY LlmBudgetAssumption DEF Init, ReportInv, Accounted, Tallied, ReportIsExact, LlmBudgetAssumption
<1>2. Inv => TypeOK /\ OneSide
  BY DEF Inv
<1>3. ReportInv => ReportIsExact
  BY DEF ReportInv
<1>4. QED BY <1>1, <1>2, <1>3, Invariance, ReportStep, PTL DEF Spec

\* While the batches run in sequence (the pool is off, or of one thread) nothing
\* disturbs the governor.
THEOREM AloneInvariance == Spec => [](InSequence => Alone)
<1> DEFINE Serially == InSequence => Alone /\ phase # "pool"
<1>1. Init => Serially
  BY AloneInit DEF Init
<1>2. TypeOK /\ OneSide /\ Serially /\ [Next]_vars => Serially'
  BY AloneStep, InSequenceStep
<1>3. Inv => TypeOK /\ OneSide
  BY DEF Inv
<1>4. Serially => (InSequence => Alone)
  OBVIOUS
<1> HIDE DEF Serially
<1>5. QED BY <1>1, <1>2, <1>3, <1>4, Invariance, PTL DEF Spec

\* llm_tokens_total of the governor is what the answers used
\* (LlmBudget!TokensCounted) where the pool is off or has one thread; with more
\* threads `tokens += ...` loses updates.
THEOREM TokensInSequence == Spec => []TokensCounted
<1>1. TypeOK /\ OneSide /\ (InSequence => Alone) => TokensCounted
  BY DEF TypeOK, OneSide, Alone, TokensCounted, Serial, Counting
<1>2. Inv => TypeOK /\ OneSide
  BY DEF Inv
<1>3. QED BY <1>1, <1>2, Invariance, AloneInvariance, PTL

\* llm_tokens_total never passes what the answers used
\* (LlmBudget!NeverOvercounted), for every pool: a thread that stores its total
\* has read it before its own answer was counted, so that it can lose what the
\* others have added since and count nothing twice.
THEOREM TokensNeverOvercounted == Spec => []NeverOvercounted
<1>1. TypeOK /\ CoveredInv => NeverOvercounted
  BY DEF TypeOK, CoveredInv, IsSum, Covered, NeverOvercounted
<1>2. TypeOK /\ TypeOK' /\ CoveredInv /\ [Next]_vars => CoveredInv'
  BY CoveredStep
<1>3. QED BY <1>1, <1>2, CoveredInit, TypeCorrect, PTL DEF Spec

\* In sequence no request that follows a signal of the provider takes the quota
\* below RB_AI_MIN_REMAINING_BUFFER by more than what failed calls have used
\* since that signal (LlmBudget!BufferKept), the governor that has heard of no
\* quota yet included.
THEOREM BufferInSequence == Spec => BufferKept
<1>1. TypeOK /\ OneSide /\ (InSequence => Alone) /\ [Next]_vars =>
        [InSequence /\ untold # NoSignal /\ quota' < quota => quota + untold > Buffer]_vars
  BY BufferStep
<1>2. Inv => TypeOK /\ OneSide
  BY DEF Inv
<1>3. QED BY <1>1, <1>2, Invariance, AloneInvariance, PTL DEF Spec, BufferKept
=============================================================================
