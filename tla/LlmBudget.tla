----------------------------- MODULE LlmBudget -----------------------------
(***************************************************************************)
(* The batch stage of /repobrain review and fix: the planned batches of a  *)
(* pull request are sent to GitHub Models by a small thread pool           *)
(* (async_batch.py) while one AIBudgetGovernor object, shared by the       *)
(* threads without a lock, decides before each call whether it may be made *)
(* and is told after each answer what it cost.                             *)
(*                                                                         *)
(* The governor's check, the call and the two halves of its bookkeeping    *)
(* are separate steps: CPython 3.11 may switch threads at any call, so     *)
(* `tokens += int(usage.get(...))` reads before the switch and writes      *)
(* after it, while `calls += 1` contains no call and is one step.          *)
(***************************************************************************)
EXTENDS Integers, FiniteSets, FiniteSetsExt

CONSTANTS
  Pool,          \* the threads of the executor, RB_ASYNC_BATCH_CONCURRENCY of them
  Main,          \* the thread that runs the command
  Planned,       \* number of batches the planner made
  BatchCap,      \* RB_LLM_BATCH_MAX_CALLS_PER_RUN
  MaxCalls,      \* RB_AI_MAX_LLM_CALLS_PER_RUN
  MaxTokens,     \* RB_AI_MAX_TOKENS_PER_RUN_LLM
  Buffer,        \* RB_AI_MIN_REMAINING_BUFFER
  ReduceFloor,   \* disable_reduce_when_remaining_lt
  ReduceOn,      \* RB_LLM_BATCH_REDUCE_ENABLE
  Conservative,  \* estimate_mode_conservative: no reduce call without a signal
  Retries,       \* retries of the preferred model: 3 for fix, 0 otherwise
  Fallback,      \* a fix tries the alternate model once more
  StageCost,     \* estimated tokens of the check before the stage
  Cost,          \* estimated tokens of a call, prompt and longest answer
  Uses,          \* tokens a call may really take
  Headers,       \* TRUE: answers carry x-ratelimit-remaining; FALSE: they may not
  Estimate,      \* what _estimate_remaining_from_model says then
  Quotas,        \* requests the provider grants at the start
  NoSignal,      \* llm_last_remaining is None
  MaxFaults      \* bound: failed calls, garbled answers, threads that do not start

ASSUME LlmBudgetAssumption ==
  /\ IsFiniteSet(Pool) /\ Pool # {} /\ Main \notin Pool
  /\ Planned \in Nat \ {0} /\ BatchCap \in Nat \ {0} /\ MaxCalls \in Nat \ {0}
  /\ MaxTokens \in Nat /\ Buffer \in Nat /\ ReduceFloor \in Nat
  /\ ReduceOn \in BOOLEAN /\ Conservative \in BOOLEAN
  /\ Fallback \in BOOLEAN /\ Headers \in BOOLEAN
  /\ Retries \in Nat /\ StageCost \in Nat /\ Cost \in Nat /\ Uses \subseteq Nat
  /\ Estimate \in Nat /\ Quotas \subseteq Nat /\ NoSignal \notin Nat /\ MaxFaults \in Nat

VARIABLES
  async,      \* RB_ASYNC_BATCH_ENABLE
  phase,      \* where the command is
  width,      \* number of batches it runs
  reduceOn,   \* the reduce call is still wanted
  submitted,  \* batches handed to the executor
  next,       \* the batch the next free thread takes
  todo,       \* batches a sequential pass still has to run
  result,     \* result[b]: what came of batch b; batch 0 is the reduce call
  completed,  \* async_batch_tasks_completed
  pc,         \* where each thread is
  task,       \* task[t]: the batch thread t works on
  failures,   \* failures[t]: failed attempts of the preferred model
  held,       \* held[t]: llm_tokens_total as t read it
  answer,     \* answer[t]: tokens and remaining requests of the answer
  calls, tokens, remaining,   \* llm_calls_count, llm_tokens_total, llm_last_remaining
  late,       \* the time budget is exceeded
  quota,      \* requests the provider still grants
  faults,
  untold,     \* history: requests that failed calls used since the quota was last told
  fellBack,   \* history: the executor failed and everything was run again
  spent,      \* history: tokens really taken
  paid        \* history: paid[b], answers received for batch b

governor == <<calls, tokens, remaining>>
threads  == <<pc, task, failures, held, answer>>
plan     == <<phase, width, reduceOn, submitted, next, todo>>
history  == <<untold, fellBack, spent, paid>>
vars     == <<async, governor, threads, plan, history, result, completed, late, quota, faults>>

Threads   == Pool \cup {Main}
Reduce    == 0
Tasks     == Reduce..Planned
Outcomes  == {"none", "used", "unused"}
NoAnswer  == [tokens |-> 0, remaining |-> NoSignal]

TypeOK ==
  /\ phase \in {"bootstrap", "pool", "drain", "sequence", "recover", "reduce", "done", "raised"}
  /\ width \in 0..Planned /\ submitted \in 0..Planned /\ next \in 1..(Planned + 1)
  /\ todo \subseteq 1..Planned
  /\ reduceOn \in BOOLEAN /\ late \in BOOLEAN /\ async \in BOOLEAN /\ fellBack \in BOOLEAN
  /\ result \in [Tasks -> Outcomes] /\ paid \in [Tasks -> Nat] /\ completed \in Nat
  /\ pc \in [Threads -> {"idle", "check", "call", "fallback", "count", "add"}]
  /\ task \in [Threads -> Tasks] /\ failures \in [Threads -> Nat] /\ held \in [Threads -> Nat]
  /\ answer \in [Threads -> [tokens : Nat, remaining : Nat \cup {NoSignal}]]
  /\ calls \in Nat /\ tokens \in Nat /\ spent \in Nat /\ quota \in Nat /\ faults \in Nat
  /\ remaining \in Nat \cup {NoSignal} /\ untold \in Nat \cup {NoSignal}

\* The stage begins with a fresh governor, or after one answer in the same run:
\* a fix whose first model answered 413 and whose alternate model answered.
Init ==
  /\ quota \in Quotas /\ async \in BOOLEAN
  /\ \/ untold = NoSignal /\ calls = 0 /\ remaining = NoSignal /\ tokens = 0
     \/ /\ calls = 1 /\ tokens \in Uses
        /\ IF Headers THEN untold = 0 /\ remaining = quota
                      ELSE untold = NoSignal /\ remaining = Estimate
  /\ spent = tokens
  /\ phase = "bootstrap" /\ width = 0 /\ reduceOn = FALSE
  /\ submitted = 0 /\ next = 1 /\ todo = {}
  /\ result = [b \in Tasks |-> "none"] /\ paid = [b \in Tasks |-> 0] /\ completed = 0
  /\ pc = [t \in Threads |-> "idle"] /\ task = [t \in Threads |-> Reduce]
  /\ failures = [t \in Threads |-> 0] /\ held = [t \in Threads |-> 0]
  /\ answer = [t \in Threads |-> NoAnswer]
  /\ late = FALSE /\ faults = 0 /\ fellBack = FALSE

-----------------------------------------------------------------------------
(* The governor                                                            *)

\* can_call_llm; stop_at_remaining adds nothing to the buffer test.
Allowed(cost) ==
  /\ ~late
  /\ calls < MaxCalls
  /\ tokens + cost <= MaxTokens
  /\ remaining # NoSignal => remaining > Buffer

\* perf_counter passes started_at + time_budget_s.
TimePasses ==
  /\ ~late
  /\ phase \notin {"done", "raised"}
  /\ late' = TRUE
  /\ UNCHANGED <<async, governor, threads, plan, history, result, completed, quota, faults>>

-----------------------------------------------------------------------------
(* Planning and the executor                                               *)

AtMost(a, b) == IF a < b THEN a ELSE b
AtLeast(a, b) == IF a > b THEN a ELSE b

\* The batches that fit: max_calls of the batch settings, and of the governor.
Batches ==
  LET fits == AtMost(Planned, BatchCap)
  IN  IF remaining = NoSignal THEN fits
      ELSE AtMost(fits, AtLeast(1, remaining - Buffer))

InSequence == ~async \/ Cardinality(Pool) = 1

\* The check before the stage; a single batch, or a pool that is off or of one
\* thread, runs in sequence.
Bootstrap ==
  /\ phase = "bootstrap"
  /\ IF Allowed(StageCost)
     THEN /\ width' = Batches
          /\ reduceOn' = (ReduceOn /\ IF remaining = NoSignal THEN ~Conservative
                                      ELSE remaining >= ReduceFloor)
          /\ IF Batches > 1 /\ ~InSequence
             THEN phase' = "pool" /\ todo' = {}
             ELSE phase' = "sequence" /\ todo' = 1..Batches
     ELSE phase' = "done" /\ UNCHANGED <<width, reduceOn, todo>>
  /\ UNCHANGED <<async, governor, threads, history, submitted, next, result, completed,
                 late, quota, faults>>

\* pool.submit, in batch order, while the first threads already run.
Submit ==
  /\ phase = "pool"
  /\ submitted < width
  /\ submitted' = submitted + 1
  /\ UNCHANGED <<async, governor, threads, history, phase, width, reduceOn, next, todo, result,
                 completed, late, quota, faults>>

\* A thread of the pool cannot be started.  The executor still works off what
\* was queued, the batch being submitted included, if it has any thread.
ExecutorFails ==
  /\ phase = "pool"
  /\ submitted < width /\ submitted < Cardinality(Pool)
  /\ faults < MaxFaults /\ faults' = faults + 1
  /\ phase' = "drain"
  /\ submitted' = IF submitted = 0 THEN 0 ELSE submitted + 1
  /\ fellBack' = TRUE
  /\ UNCHANGED <<async, governor, threads, width, reduceOn, next, todo, result, completed,
                 late, quota, untold, spent, paid>>

Free(t) == pc[t] = "idle"
Begin(t, b) ==
  /\ pc' = [pc EXCEPT ![t] = "check"]
  /\ task' = [task EXCEPT ![t] = b]
  /\ failures' = [failures EXCEPT ![t] = 0]
  /\ UNCHANGED <<held, answer>>

TakeFromQueue(t) ==
  /\ phase \in {"pool", "drain"}
  /\ t \in Pool /\ Free(t)
  /\ next <= submitted
  /\ Begin(t, next)
  /\ next' = next + 1
  /\ UNCHANGED <<async, governor, history, phase, width, reduceOn, submitted, todo, result,
                 completed, late, quota, faults>>

TakeInSequence ==
  /\ phase \in {"sequence", "recover"}
  /\ Free(Main)
  /\ \E b \in todo :
       /\ \A c \in todo : b <= c
       /\ Begin(Main, b)
       /\ todo' = todo \ {b}
  /\ UNCHANGED <<async, governor, history, phase, width, reduceOn, submitted, next, result,
                 completed, late, quota, faults>>

PoolIsQuiet == next > submitted /\ \A t \in Pool : Free(t)

Missing == {b \in 1..width : result[b] = "none"}

\* Mistake: recovery runs every batch again, not the failed ones.
JoinPool_RedoAll ==
  /\ phase \in {"pool", "drain"}
  /\ PoolIsQuiet
  /\ phase = "pool" => submitted = width
  /\ phase' = "recover"
  /\ todo' = 1..width
  /\ completed' = Cardinality({b \in 1..width : result[b] # "none"})
  /\ result' = [b \in Tasks |-> "none"]
  /\ UNCHANGED <<async, governor, threads, history, width, reduceOn, submitted, next, late, quota, faults>>

\* Mistake: the batches that raised are forgotten.
JoinPool_Forgets ==
  /\ phase \in {"pool", "drain"}
  /\ PoolIsQuiet
  /\ phase = "pool" => submitted = width
  /\ phase' = "recover"
  /\ todo' = {}
  /\ completed' = width
  /\ UNCHANGED <<async, governor, threads, history, width, reduceOn, submitted, next, result, late,
                 quota, faults>>

\* The with-block is left.  After task errors the missing batches are run in
\* sequence; after an executor error everything is run again.
JoinPool ==
  /\ phase \in {"pool", "drain"}
  /\ PoolIsQuiet
  /\ \/ /\ phase = "pool" /\ submitted = width
        /\ phase' = "recover"
        /\ todo' = Missing
        /\ completed' = width - Cardinality(Missing)
        /\ UNCHANGED result
     \/ /\ phase = "drain"
        /\ phase' = "sequence"
        /\ todo' = 1..width
        /\ result' = [b \in Tasks |-> "none"]
        /\ UNCHANGED completed
  /\ UNCHANGED <<async, governor, threads, history, width, reduceOn, submitted, next, late, quota, faults>>

AnyUsed == \E b \in 1..width : result[b] = "used"

\* All batches are in: the reduce call follows if there is something to reduce.
\* A sequential pass reports as completed what it was given.
EndBatches ==
  /\ phase \in {"sequence", "recover"}
  /\ todo = {} /\ Free(Main)
  /\ completed' = IF phase = "sequence" THEN width ELSE completed
  /\ IF reduceOn /\ width > 1 /\ AnyUsed
     THEN phase' = "reduce" /\ Begin(Main, Reduce)
     ELSE phase' = "done" /\ UNCHANGED threads
  /\ UNCHANGED <<async, governor, history, width, reduceOn, submitted, next, todo, result,
                 late, quota, faults>>

EndReduce ==
  /\ phase = "reduce" /\ Free(Main)
  /\ phase' = "done"
  /\ UNCHANGED <<async, governor, threads, history, width, reduceOn, submitted, next, todo, result,
                 completed, late, quota, faults>>

-----------------------------------------------------------------------------
(* One task: check, call, bookkeeping                                      *)

\* The task returns what it has; in the recovery pass that counts as completed.
Finish(t, outcome) ==
  /\ pc' = [pc EXCEPT ![t] = "idle"]
  /\ result' = [result EXCEPT ![task[t]] = outcome]
  /\ completed' = IF phase = "recover" THEN completed + 1 ELSE completed

\* Mistake: the check does not look at the calls already counted.
CheckPasses_NoCap == ~late /\ tokens + Cost <= MaxTokens

CheckPasses == Allowed(Cost)

Check(t) ==
  /\ pc[t] = "check"
  /\ \/ CheckPasses /\ pc' = [pc EXCEPT ![t] = "call"] /\ UNCHANGED <<result, completed>>
     \/ ~CheckPasses /\ Finish(t, "unused")
  /\ UNCHANGED <<async, governor, task, failures, held, answer, plan, history, late, quota, faults>>

\* The provider answers the preferred or the alternate model.
Answers(t) ==
  /\ pc[t] \in {"call", "fallback"}
  /\ quota > 0
  /\ quota' = quota - 1
  /\ \E n \in Uses :
       /\ spent' = spent + n
       /\ answer' = [answer EXCEPT ![t] =
                       [tokens |-> n, remaining |-> IF Headers THEN quota - 1 ELSE Estimate]]
  /\ paid' = [paid EXCEPT ![task[t]] = @ + 1]
  /\ pc' = [pc EXCEPT ![t] = "count"]
  /\ UNCHANGED <<async, governor, task, failures, held, plan, untold, fellBack, result, completed,
                 late, faults>>

\* Mistake: an exhausted fix starts over with its preferred model.
AfterFailure_StartsOver(t, transient) ==
  \/ /\ transient /\ pc[t] = "call" /\ failures[t] < Retries
     /\ failures' = [failures EXCEPT ![t] = @ + 1]
     /\ UNCHANGED <<pc, result, completed>>
  \/ /\ ~(transient /\ failures[t] < Retries) /\ pc[t] = "call" /\ Fallback
     /\ pc' = [pc EXCEPT ![t] = "fallback"]
     /\ UNCHANGED <<failures, result, completed>>
  \/ /\ pc[t] = "fallback"
     /\ pc' = [pc EXCEPT ![t] = "call"]
     /\ failures' = [failures EXCEPT ![t] = 0]
     /\ UNCHANGED <<result, completed>>
  \/ /\ pc[t] = "call" /\ ~Fallback /\ ~(transient /\ failures[t] < Retries)
     /\ Finish(t, "unused") /\ UNCHANGED failures

\* A transient failure is retried while attempts are left; then the alternate
\* model is tried once; then the task gives up and tells the governor nothing.
AfterFailure(t, transient) ==
  LET again == transient /\ pc[t] = "call" /\ failures[t] < Retries
      other == ~again /\ pc[t] = "call" /\ Fallback
  IN  \/ /\ again
         /\ failures' = [failures EXCEPT ![t] = @ + 1]
         /\ UNCHANGED <<pc, result, completed>>
      \/ /\ other
         /\ pc' = [pc EXCEPT ![t] = "fallback"]
         /\ UNCHANGED <<failures, result, completed>>
      \/ ~again /\ ~other /\ Finish(t, "unused") /\ UNCHANGED failures

\* What failed calls have used and no answer has told.
Untold(used) == IF untold = NoSignal THEN NoSignal ELSE untold + used

\* 429 when the quota is gone, or a network or server error, which may have
\* used a request all the same.
CallFails(t) ==
  /\ pc[t] \in {"call", "fallback"}
  /\ \/ quota = 0 /\ AfterFailure(t, TRUE) /\ UNCHANGED <<quota, untold, faults>>
     \/ /\ faults < MaxFaults /\ faults' = faults + 1
        /\ quota' \in {quota, quota - 1} \cap Nat /\ untold' = Untold(quota - quota')
        /\ \E transient \in BOOLEAN : AfterFailure(t, transient)
  /\ UNCHANGED <<async, governor, task, held, answer, plan, fellBack, spent, paid, late>>

\* A 200 answer whose body is no JSON: response.json() raises past the handlers
\* of GitHubModelsError, out of the task, and in the main thread out of the run.
Garbled(t) ==
  /\ pc[t] \in {"call", "fallback"}
  /\ quota > 0 /\ quota' = quota - 1 /\ untold' = Untold(1)
  /\ faults < MaxFaults /\ faults' = faults + 1
  /\ pc' = [pc EXCEPT ![t] = "idle"]
  /\ phase' = IF t = Main THEN "raised" ELSE phase
  /\ UNCHANGED <<async, governor, task, failures, held, answer, fellBack, spent, paid, width, reduceOn,
                 submitted, next, todo, result, completed, late>>

\* observe_llm_signal up to the first switch: one more call, the total is read.
ObserveCall(t) ==
  /\ pc[t] = "count"
  /\ calls' = calls + 1
  /\ held' = [held EXCEPT ![t] = tokens]
  /\ pc' = [pc EXCEPT ![t] = "add"]
  /\ UNCHANGED <<async, tokens, remaining, task, failures, answer, plan, history, result, completed,
                 late, quota, faults>>

\* Mistake: only the first signal of a run is kept.
ObserveUsage_FirstSignal(t) ==
  /\ pc[t] = "add"
  /\ tokens' = held[t] + answer[t].tokens
  /\ remaining' = IF remaining = NoSignal THEN answer[t].remaining ELSE remaining
  /\ untold' = IF Headers THEN 0 ELSE NoSignal
  /\ Finish(t, "used")
  /\ UNCHANGED <<async, calls, task, failures, held, answer, plan, fellBack, spent, paid,
                 late, quota, faults>>

\* Mistake: the estimate is added to the total, not what the answer used.
ObserveUsage_Estimate(t) ==
  /\ pc[t] = "add"
  /\ tokens' = held[t] + Cost
  /\ remaining' = answer[t].remaining
  /\ untold' = IF Headers THEN 0 ELSE NoSignal
  /\ Finish(t, "used")
  /\ UNCHANGED <<async, calls, task, failures, held, answer, plan, fellBack, spent, paid,
                 late, quota, faults>>

\* Mistake: the estimate is given back, though the check did not charge it.
ObserveUsage_Refunds(t) ==
  /\ pc[t] = "add"
  /\ tokens' = held[t] + answer[t].tokens - Cost
  /\ remaining' = answer[t].remaining
  /\ untold' = IF Headers THEN 0 ELSE NoSignal
  /\ Finish(t, "used")
  /\ UNCHANGED <<async, calls, task, failures, held, answer, plan, fellBack, spent, paid,
                 late, quota, faults>>

\* ... and the rest of it: the new total is stored, the quota overwritten.
ObserveUsage(t) ==
  /\ pc[t] = "add"
  /\ tokens' = held[t] + answer[t].tokens
  /\ remaining' = answer[t].remaining
  /\ untold' = IF Headers THEN 0 ELSE NoSignal
  /\ Finish(t, "used")
  /\ UNCHANGED <<async, calls, task, failures, held, answer, plan, fellBack, spent, paid,
                 late, quota, faults>>

Step(t) ==
  \/ Check(t)
  \/ Answers(t)
  \/ CallFails(t)
  \/ Garbled(t)
  \/ ObserveCall(t)
  \/ ObserveUsage(t)

Command ==
  \/ Bootstrap
  \/ Submit
  \/ ExecutorFails
  \/ TakeInSequence
  \/ JoinPool
  \/ EndBatches
  \/ EndReduce

\* The command is over.
Stopped ==
  /\ phase \in {"done", "raised"}
  /\ UNCHANGED vars

Next ==
  \/ TimePasses
  \/ Command
  \/ \E t \in Pool : TakeFromQueue(t)
  \/ \E t \in Threads : Step(t)
  \/ Stopped

Spec == Init /\ [][Next]_vars

\* Threads are scheduled and every request has a timeout of 5 + 30 seconds.
FairSpec ==
  /\ Spec
  /\ WF_vars(Command)
  /\ \A t \in Pool : WF_vars(TakeFromQueue(t))
  /\ \A t \in Threads : WF_vars(Step(t))
-----------------------------------------------------------------------------
(* Properties                                                              *)

InFlight == {t \in Threads : pc[t] \in {"call", "fallback", "count"}}

\* The cap is checked before a call and counted after it, so with a pool the
\* calls made and under way may pass max_llm_calls_per_run, but by no more than
\* the other threads of the pool, whatever they and the provider do.
CallsBounded == calls + Cardinality(InFlight) <= MaxCalls + Cardinality(Pool) - 1

\* A batch whose answer arrived is not asked again by the recovery pass; only
\* an executor error makes run_bounded_batch_tasks start over.
PaidOnce == ~fellBack => \A b \in Tasks : paid[b] <= 1

\* However the pool ended (task errors, a thread that would not start, retries,
\* a spent budget), every batch has an outcome when the reduce call is built
\* and async_batch_tasks_completed is the number of batches.
ReportIsExact ==
  phase \in {"reduce", "done"} /\ width > 0 => Missing = {} /\ completed = width

\* The stage ends, whatever fails: the retry loops are bounded and no task waits
\* for another.
Terminates == <>(phase \in {"done", "raised"})

\* Batches in sequence: the run report (llm_tokens_total of the governor's final
\* state) is what the answers used.
TokensCounted == phase = "done" /\ InSequence => tokens = spent

\* An update of the total that meets another may be lost, but no token is ever
\* counted that no answer used, so that the pool does not stop too early.
NeverOvercounted == tokens <= spent

\* Batches in sequence: from the first answer that told the quota on, a request
\* is spent only if the quota last told is above RB_AI_MIN_REMAINING_BUFFER: it
\* may be spent below the buffer by just so many requests as failed calls have
\* used since and no answer told, because the governor hears of the quota from
\* answers only and checks before a batch, not before its retries.
BufferKept ==
  [][InSequence /\ untold # NoSignal /\ quota' < quota => quota + untold > Buffer]_vars
=============================================================================
