------------------------------ MODULE ReviewFix ------------------------------
(***************************************************************************)
(* review and fix.  A pull request is read, reviewed and verified, an      *)
(* engine routes the command and may hand over a patch of its own, targets *)
(* are picked for a fix, and the language model is asked: in one call, or  *)
(* in batches whose answers are merged.  What comes of it passes the gates *)
(* that decide whether patch.diff is written, and is told in the audit and *)
(* as the conclusion of the check.                                         *)
(***************************************************************************)
EXTENDS Naturals, FiniteSets

CONSTANTS
  Files,        \* files that a pull request may change
  Stray,        \* a file outside of it
  Invocations,  \* commands with their scope and configuration
  Contents,     \* what pull requests change, file by file
  Reports,      \* what the verification may report
  Engines,      \* what an engine may answer
  Diffs,        \* what the model may write
  MaxTargets,   \* cfg.llm.patch_max_target_files
  MaxBatches    \* bound: batches that are planned

Routes == {"FAST", "DEEP", "REVIEW", "REFUSE", "WAIT", "BLOCK"}
Modes  == {"retrieval_only", "retrieval_plus_llm", "verification_first", "refuse"}
Checks == {"ruff", "pytest"}
Statuses == {"PASS", "FAIL", "NOT_RUN"}

\* A diff: the files that its headers name, those that it deletes without a
\* header of git or renames away, which the validator does not see, and the
\* template words in it.  The guard and the validator know different words; the
\* validator also turns away what is no diff at all.
Marks    == {"guard", "validator"}
NoDiff   == [named |-> {}, gone |-> {}, marks |-> {}]
DiffType == [named : SUBSET (Files \cup {Stray}), gone : SUBSET (Files \cup {Stray}), marks : SUBSET Marks]

\* A changed file: what its path says of it, what its patch holds, and whether
\* the query names it.  "doc" is a path that no fix may touch.
FileType == [path : SUBSET {"doc", "workflow", "manifest", "sensitive"},
             patch : SUBSET {"conflict", "secret"}, named : BOOLEAN]

\* build_pr_review: the risk items a file raises.
Raised(file) == (file.path \ {"doc"}) \cup file.patch

\* Risks of a name are drivers of the risk, and the words for a possible secret
\* never carry the strong indicator the validator asks for.
Drivers == {"workflow", "manifest", "sensitive"}
Wording == {"secret"}

\* validate_review_findings
ConfirmedFindings(file) == Raised(file) \ (Drivers \cup Wording)

\* A pull request as it is reviewed: documents are never targets, findings name
\* files, and some are confirmed.
Reviewed(c) ==
  [content |-> c, files |-> DOMAIN c,
   docs |-> {f \in DOMAIN c : "doc" \in c[f].path},
   cited |-> {f \in DOMAIN c : Raised(c[f]) # {}},
   confirmed |-> {f \in DOMAIN c : ConfirmedFindings(c[f]) # {}},
   matched |-> {f \in DOMAIN c : c[f].named}]
NoPull == Reviewed([f \in {} |-> [path |-> {}, patch |-> {}, named |-> FALSE]])
Pulls  == {NoPull} \cup {Reviewed(c) : c \in Contents}

\* The engine is an environment: only a blocking route overrules its mode.
EngineType == [route : Routes, mode : Modes, diff : DiffType]
NoEngine   == [route |-> "REVIEW", mode |-> "retrieval_only", diff |-> NoDiff]

ASSUME ReviewFixAssumption ==
  /\ Stray \notin Files
  /\ Invocations \subseteq
       [cmd : {"review", "fix"},
        scope : {"issue", "noNumber", "closed", "open"},
        dry : BOOLEAN,
        mutation : BOOLEAN,   \* the words ask to apply, commit or push
        require : BOOLEAN,    \* patch_require_localized_evidence
        batches : BOOLEAN,    \* batch mode is enabled for the command
        force : BOOLEAN,
        policy : BOOLEAN,     \* _llm_runtime_policy allows the model
        dynamic : BOOLEAN,    \* trusted, and dynamic checks are allowed
        verify : BOOLEAN,     \* RB_REQUIRE_VERIFY_FOR_PATCH
        strict : BOOLEAN]     \* RB_FAIL_ON_NOT_RUN
  /\ \A c \in Contents : DOMAIN c \subseteq Files /\ c \in [DOMAIN c -> FileType]
  /\ Reports \subseteq [Checks -> Statuses]
  /\ Engines \subseteq EngineType
  /\ \A e \in Engines :
       /\ e.route = "WAIT" => e.mode = "verification_first"
       /\ e.route \in {"REFUSE", "BLOCK"} => e.mode = "refuse"
  /\ Diffs \subseteq DiffType /\ \A d \in Diffs : d.named \cup d.gone # {}
  /\ MaxTargets \in Nat \ {0} /\ MaxBatches \in Nat

VARIABLES
  inv,        \* the invocation
  pc,
  pr,         \* the files read, and which of them the review or the query names
  checks,     \* verification_report
  engine,     \* the engine's route, mode and own patch
  targets,    \* changed_files: for a fix what select_patch_targets leaves
  text,       \* the text of the single call
  provider,   \* llm_provider_http_status and llm_provider_error_type
  batch,      \* batch_result
  patch,      \* patch_text, with the way it came
  verdict,    \* no_patch_response, patch_guard_triggered, conflicts
  generation, \* review_generation_result or patch_generation_result
  class,      \* patch_governance_class
  route,      \* route_final of the audit
  check,      \* conclusion of the check run
  written,    \* artifacts/patch.diff
  asks        \* history: texts the language model was asked for, each in one
              \* call of _maybe_generate_llm_text with what it tries again

seen    == <<inv, pr, checks, engine, targets>>
asked   == <<text, provider, batch, asks>>
settled == <<patch, verdict>>
told    == <<generation, class, route, check, written>>
vars == <<pc, seen, asked, settled, told>>

NoPatch == [from |-> "none", diff |-> NoDiff]

\* Texts of the model.
NoText  == [kind |-> "none", diff |-> NoDiff]
Garbled == {[kind |-> k, diff |-> NoDiff] : k \in {"NO_PATCH", "prose", "other"}}
Texts   == [kind : {"diff"}, diff : Diffs] \cup Garbled

\* The batches planned, those still to answer, whether one was answered, and
\* what they brought.
BatchType == [size : 0..MaxBatches, left : 0..MaxBatches, used : BOOLEAN,
              parts : 0..MaxBatches, diff : DiffType, noPatch : BOOLEAN]
NoBatch   == [size |-> 0, left |-> 0, used |-> FALSE, parts |-> 0, diff |-> NoDiff, noPatch |-> FALSE]
NoVerdict == [noPatch |-> FALSE, guard |-> FALSE, invalid |-> FALSE, conflict |-> FALSE]

TypeOK ==
  /\ inv \in Invocations
  /\ pc \in {"scope", "verify", "engine", "target", "decide", "call", "answered", "compact",
             "batches", "reduce", "extract", "validate", "settle", "conclude", "done"}
  /\ pr \in Pulls
  /\ checks \in [Checks -> Statuses]
  /\ engine \in Engines \cup {NoEngine}
  /\ targets \subseteq Files
  /\ text \in Texts \cup {NoText}
  /\ provider \in {"none", "too_large", "error"}
  /\ batch \in BatchType
  /\ patch \in [from : {"none", "engine", "batches", "call"}, diff : DiffType]
  /\ verdict \in [noPatch : BOOLEAN, guard : BOOLEAN, invalid : BOOLEAN, conflict : BOOLEAN]
  /\ generation \in {"n/a", "single_call", "batch_mode", "compacted_retry_ok", "batch_retry_after_413",
                     "provider_failed", "valid_patch", "no_patch", "patch_validation_failed"}
  /\ class \in {"not_applicable", "patchable", "risk_too_high", "not_localized", "insufficient_evidence",
                "safe_default"}
  /\ route \in Routes /\ check \in {"none", "success", "neutral", "failure"}
  /\ written \in BOOLEAN /\ asks \in Nat

Init ==
  /\ inv \in Invocations /\ pc = "scope"
  /\ pr = NoPull /\ checks = [c \in Checks |-> "NOT_RUN"] /\ engine = NoEngine /\ targets = {}
  /\ text = NoText /\ provider = "none" /\ batch = NoBatch /\ asks = 0
  /\ patch = NoPatch /\ verdict = NoVerdict
  /\ generation = "n/a" /\ class = "not_applicable" /\ route = "REVIEW" /\ check = "none"
  /\ written = FALSE

Fix == inv.cmd = "fix"

-----------------------------------------------------------------------------
(* The pull request                                                        *)

\* Outside of an open pull request the command answers WAIT.  A closed one is
\* skipped: the check is neutral.
OutOfScope ==
  /\ pc = "scope"
  /\ \/ inv.scope \in {"issue", "noNumber"}
     \/ (inv.scope = "closed" /\ ~inv.dry)
  /\ route' = "WAIT"
  /\ check' = IF inv.scope = "closed" THEN "neutral" ELSE "none"
  /\ pc' = "done"
  /\ UNCHANGED <<seen, asked, settled, generation, class, written>>

\* A dry run sees no files and does not ask whether the request is open.
ReadPull ==
  /\ pc = "scope"
  /\ inv.scope = "open" \/ (inv.scope = "closed" /\ inv.dry)
  /\ pr' \in IF inv.dry THEN {NoPull} ELSE Pulls
  /\ pc' = "verify"
  /\ UNCHANGED <<inv, checks, engine, targets, asked, settled, told>>

\* run_verification: ruff reads, pytest executes.
Verify ==
  /\ pc = "verify"
  /\ checks' \in Reports
  /\ ~inv.dynamic => checks'["pytest"] = "NOT_RUN"
  /\ pc' = "engine"
  /\ UNCHANGED <<inv, pr, engine, targets, asked, settled, told>>

AskEngine ==
  /\ pc = "engine"
  /\ engine' \in Engines /\ route' = engine'.route
  /\ pc' = "target"
  /\ UNCHANGED <<inv, pr, checks, targets, asked, settled, generation, class, check, written>>

-----------------------------------------------------------------------------
(* Patch targets (patch_targeting.py)                                      *)

\* localized_signals
Signals == (pr.cited \cup pr.matched) \ pr.docs

\* What _should_block_fix_patch_without_localized_evidence asks for.
Localized(selected) == selected # {} /\ pr.confirmed \cap selected # {}

\* select_patch_targets: the most likely files, or without them and where no
\* evidence is required, files of context.
Selections ==
  UNION {LET pool == IF likely = {} /\ ~inv.require THEN pr.files \ pr.docs ELSE likely
             kept == IF Cardinality(pool) > MaxTargets THEN MaxTargets ELSE Cardinality(pool)
         IN  IF inv.require /\ Signals = {} THEN {{}}
             ELSE {s \in SUBSET pool : Cardinality(s) = kept} :
         likely \in {l \in SUBSET (pr.files \ pr.docs) : pr.cited \ pr.docs \subseteq l}}

Target ==
  /\ pc = "target"
  /\ IF Fix
       THEN \E selected \in Selections :
              targets' = IF inv.require /\ ~Localized(selected) THEN {} ELSE selected
       ELSE targets' = pr.files
  /\ pc' = "decide"
  /\ UNCHANGED <<inv, pr, checks, engine, asked, settled, told>>

\* no_localized_patch_target
NoTarget == Fix /\ inv.require /\ ~Localized(targets)

-----------------------------------------------------------------------------
(* The language model                                                      *)

ModelAllowed == engine.mode = "retrieval_plus_llm" /\ inv.policy

\* _should_use_batch_mode_for_review and, for a review whose context is too
\* large, _review_context_needs_batch.
UsesBatches(large) ==
  \/ /\ inv.batches /\ engine.route \notin {"WAIT", "REFUSE", "BLOCK"}
     /\ inv.force \/ large \/ (IF Fix THEN Cardinality(targets) > 1 ELSE engine.route = "DEEP")
  \/ ~Fix /\ large

\* Mistake: a plan without batches is begun.
BeginBatches_Empty ==
  \/ /\ batch' = NoBatch /\ pc' = "extract"
  \/ /\ ModelAllowed
     /\ \E n \in 0..MaxBatches : batch' = [NoBatch EXCEPT !.size = n, !.left = n]
     /\ pc' = "batches"

\* _run_batch_llm_review_fix up to its first call: without a model, a budget
\* or a batch, no batch is used.
BeginBatches ==
  \/ /\ batch' = NoBatch /\ pc' = "extract"
  \/ /\ ModelAllowed
     /\ \E n \in 1..MaxBatches : batch' = [NoBatch EXCEPT !.size = n, !.left = n]
     /\ pc' = "batches"

Decide ==
  /\ pc = "decide"
  /\ IF NoTarget THEN pc' = "extract" /\ UNCHANGED <<batch, generation>>
     ELSE \E large \in BOOLEAN :
            IF UsesBatches(large)
              THEN BeginBatches /\ generation' = IF Fix THEN "n/a" ELSE "batch_mode"
              ELSE pc' = "call" /\ UNCHANGED batch /\ generation' = IF Fix THEN "n/a" ELSE "single_call"
  /\ UNCHANGED <<seen, text, provider, asks, settled, class, route, check, written>>

\* What _maybe_generate_llm_text asks before it calls.
MayCall == ModelAllowed

\* _maybe_generate_llm_text: it is skipped, by its rules or by the governor; it
\* fails; or it answers.  A fix tries a second model, and then the status of
\* the first is kept with the text of the second.
Answer(failure, answer) ==
  \/ failure = "none" /\ answer = NoText /\ UNCHANGED asks
  \/ /\ MayCall /\ asks' = asks + 1
     /\ \/ failure = "none" /\ answer \in Texts \cup {NoText}
        \/ failure # "none" /\ answer \in (IF Fix THEN Texts ELSE {}) \cup {NoText}

Call ==
  /\ pc = "call"
  /\ \E p \in {"none", "too_large", "error"}, t \in Texts \cup {NoText} :
       /\ Answer(p, t)
       /\ text' = t /\ provider' = p
  /\ pc' = "answered"
  /\ UNCHANGED <<seen, batch, settled, told>>

\* Mistake: what was too large is asked again.
AfterCall_Again ==
  /\ pc = "answered"
  /\ pc' = IF provider = "too_large" THEN "call" ELSE "extract"
  /\ UNCHANGED <<seen, asked, settled, told>>

\* A review that was too large is compacted, a fix that was is cut in batches;
\* the batches bring their own meta.  A failure without a status is not told
\* of a review.
AfterCall ==
  /\ pc = "answered"
  /\ IF provider # "too_large"
       THEN pc' = "extract" /\ UNCHANGED <<batch, provider>>
     ELSE IF ~Fix THEN pc' = "compact" /\ UNCHANGED <<batch, provider>>
     ELSE IF inv.batches THEN BeginBatches /\ provider' = "none"
     ELSE pc' = "extract" /\ UNCHANGED <<batch, provider>>
  /\ generation' \in IF ~Fix /\ text = NoText /\ provider = "error"
                       THEN {"provider_failed", generation} ELSE {generation}
  /\ UNCHANGED <<seen, text, asks, settled, class, route, check, written>>

\* The compacted call answers, or the review is cut in batches after all.
Compact ==
  /\ pc = "compact"
  /\ \E p \in {"none", "too_large", "error"}, t \in Texts \cup {NoText} :
       /\ Answer(p, t)
       /\ IF t # NoText
            THEN text' = t /\ provider' = p /\ generation' = "compacted_retry_ok" /\ pc' = "extract"
                 /\ UNCHANGED batch
            ELSE BeginBatches /\ provider' = "none" /\ generation' = "batch_retry_after_413"
                 /\ UNCHANGED text
  /\ UNCHANGED <<seen, settled, class, route, check, written>>

\* _merge_patch_parts
Joined(d, e) ==
  [named |-> d.named \cup e.named, gone |-> d.gone \cup e.gone, marks |-> d.marks \cup e.marks]

\* One batch is answered, in any order: a diff is a part of the patch.  A
\* failure leaves nothing, not even its reason.  After the last, answers of
\* several batches are reduced, unless the configuration or the governor is
\* against it.
BatchAnswers ==
  /\ pc = "batches"
  /\ \E p \in {"none", "too_large", "error"}, t \in Texts \cup {NoText}, answered \in BOOLEAN :
       /\ Answer(p, t)
       /\ t # NoText => answered
       /\ answered => asks' # asks
       /\ LET part == Fix /\ t.kind = "diff"
          IN  batch' = [batch EXCEPT
                !.left = @ - 1,
                !.used = @ \/ answered,
                !.parts = IF part THEN @ + 1 ELSE @,
                !.diff = IF part THEN Joined(@, t.diff) ELSE @,
                !.noPatch = @ \/ t.kind = "NO_PATCH"]
  /\ \/ batch.left # 1 /\ pc' = "batches"
     \/ batch.left = 1 /\ pc' = "extract"
     \/ batch.left = 1 /\ batch'.size > 1 /\ batch'.used /\ pc' = "reduce"
  /\ UNCHANGED <<seen, text, provider, settled, told>>

\* The summaries of the batches are asked to be put in one: words for the
\* reader, never a patch.
Reduce ==
  /\ pc = "reduce"
  /\ \E p \in {"none", "too_large", "error"}, t \in Texts \cup {NoText} : Answer(p, t)
  /\ pc' = "extract"
  /\ UNCHANGED <<seen, text, provider, batch, settled, told>>

-----------------------------------------------------------------------------
(* From answers to a patch                                                 *)

\* _apply_fix_localization_gate, and the same for the parts.
Gate(diff) == IF NoTarget THEN NoDiff ELSE diff

\* evaluate_patch_payload
Guarded(t) == t.kind = "prose" \/ "guard" \in t.diff.marks

\* The parts of the batches win over the engine's patch, that over the text;
\* only the text meets the guard.  Parts whose ranges overlap are merged all
\* the same and remembered as a conflict.
Extract ==
  /\ pc = "extract" /\ Fix
  /\ \E conflict \in BOOLEAN :
       LET merged == Gate(batch.diff)
           own    == Gate(engine.diff)
           guard  == merged = NoDiff /\ own = NoDiff /\ Guarded(text)
           found  == IF merged # NoDiff THEN [from |-> "batches", diff |-> merged]
                     ELSE IF own # NoDiff THEN [from |-> "engine", diff |-> own]
                     ELSE IF text.kind = "diff" /\ ~guard THEN [from |-> "call", diff |-> text.diff]
                     ELSE NoPatch
       IN  /\ conflict => merged # NoDiff
           /\ patch' = found
           /\ verdict' = [verdict EXCEPT
                !.guard = guard, !.conflict = conflict,
                !.noPatch = \/ NoTarget \/ guard
                            \/ merged = NoDiff /\ own = NoDiff /\ text.kind = "NO_PATCH"
                            \/ found = NoPatch /\ batch.noPatch /\ batch.parts = 0]
  /\ pc' = "validate"
  /\ UNCHANGED <<seen, asked, told>>

\* Mistake: one file of the request among the named is enough.
Grounded_Some(diff) ==
  /\ "validator" \notin diff.marks /\ diff.named # {}
  /\ targets # {} => diff.named \cap targets # {}

\* validate_patch_grounding: the headers name a file, and each that they name
\* is a target; where there are no targets, any file will do.
Grounded(diff) ==
  /\ "validator" \notin diff.marks /\ diff.named # {}
  /\ targets # {} => diff.named \subseteq targets

\* The validation, and then the request to mutate, which clears the patch.
Validate ==
  /\ pc = "validate"
  /\ LET bad == patch # NoPatch /\ ~Grounded(patch.diff)
     IN  /\ patch' = IF bad \/ inv.mutation THEN NoPatch ELSE patch
         /\ verdict' = [verdict EXCEPT !.invalid = bad /\ ~inv.mutation,
                                       !.noPatch = @ \/ inv.mutation]
  /\ pc' = "settle"
  /\ UNCHANGED <<seen, asked, told>>

\* The status of patch_validation_payload; nothing to extract is a failure.
Status ==
  IF patch # NoPatch THEN "valid_patch"
  ELSE IF verdict.invalid THEN "patch_validation_failed"
  ELSE IF verdict.noPatch THEN "no_patch"
  ELSE IF provider # "none" THEN "provider_failed" ELSE "patch_validation_failed"

\* Mistake: a patch without a target is not patchable.
Class_Localized(status) ==
  IF status \in {"patch_validation_failed", "provider_failed"} \/ verdict.guard THEN "risk_too_high"
  ELSE IF targets = {} THEN "not_localized"
  ELSE IF status = "valid_patch" THEN "patchable" ELSE "safe_default"

\* build_patch_governance_contract.  The summary of the verification is a
\* sentence, which it reads as "partial": its verification class never comes.
Class(status) ==
  IF status = "valid_patch" THEN "patchable"
  ELSE IF verdict.guard \/ status \in {"patch_validation_failed", "provider_failed"} THEN "risk_too_high"
  ELSE IF targets = {} THEN "not_localized"
  ELSE IF Signals = {} THEN "insufficient_evidence" ELSE "safe_default"

\* patch.diff, the status, its class, and WAIT for parts in conflict.
Settle ==
  /\ pc = "settle"
  /\ written' = (patch # NoPatch)
  /\ route' = IF patch # NoPatch /\ verdict.conflict THEN "WAIT" ELSE route
  /\ generation' = Status
  /\ class' = Class(Status)
  /\ pc' = "conclude"
  /\ UNCHANGED <<seen, asked, settled, check>>

\* A review stops here.
EndReview ==
  /\ pc = "extract" /\ ~Fix
  /\ pc' = "conclude"
  /\ UNCHANGED <<seen, asked, settled, told>>

-----------------------------------------------------------------------------
(* The check run (quality_gates.py, checks_md.py)                          *)

Ran(status) == \E c \in Checks : checks[c] = status

\* compute_conclusion
BaseConclusion ==
  IF route = "BLOCK" THEN "failure"
  ELSE IF route \in {"REFUSE", "WAIT"} THEN "neutral"
  ELSE IF Ran("FAIL") THEN "failure"
  ELSE IF Ran("NOT_RUN")
    THEN IF (Fix /\ inv.verify) \/ inv.strict THEN "failure" ELSE "neutral"
  ELSE "success"

\* map_check_conclusion: a fix by its result, a review by its route and checks.
Conclusion ==
  IF Fix THEN IF generation = "valid_patch" THEN "success"
              ELSE IF generation = "no_patch" THEN "neutral" ELSE "failure"
  ELSE IF route \in {"WAIT", "REFUSE", "BLOCK"} THEN "neutral"
  ELSE BaseConclusion

Conclude ==
  /\ pc = "conclude"
  /\ check' = Conclusion
  /\ pc' = "done"
  /\ UNCHANGED <<seen, asked, settled, generation, class, route, written>>

Next == \/ OutOfScope \/ ReadPull \/ Verify \/ AskEngine \/ Target
        \/ Decide \/ Call \/ AfterCall \/ Compact \/ BatchAnswers \/ Reduce
        \/ Extract \/ Validate \/ Settle \/ EndReview \/ Conclude

Spec == Init /\ [][Next]_vars

-----------------------------------------------------------------------------
(* Properties                                                              *)

\* A patch.diff that is written is a fix's, of a request that did not ask to
\* mutate, and without template words; its headers name files, and only
\* targets where there are any; where evidence is required the patch of a
\* target holds conflict markers: a risky name or the wording of a secret never
\* justifies a patch.  This holds whether the engine, the single call or batches
\* brought it, also after a call that was too large.  It is not said of the
\* files that the patch takes away without naming them: the validator does not
\* look at those.
WrittenPatchIsGrounded ==
  written => /\ Fix /\ ~inv.mutation
             /\ "validator" \notin patch.diff.marks
             /\ patch.from = "call" => "guard" \notin patch.diff.marks
             /\ patch.diff.named # {}
             /\ targets # {} => patch.diff.named \subseteq targets
             /\ inv.require => \E f \in pr.files \cap targets : "conflict" \in pr.content[f].patch

\* What RB_REQUIRE_VERIFY_FOR_PATCH asks for: every check has passed.
Verified == \A c \in Checks : checks[c] = "PASS"

\* patch.diff, the patch result, the governance class and the conclusion of the
\* check, which four places compute, tell one story: there is a patch if and
\* only if it is told as valid and as patchable, no fix is green without one,
\* a fix with one is green unless verification is required of it and missing,
\* and parts in conflict wait.
VerdictsAgree ==
  pc = "done" /\ generation # "n/a" /\ Fix =>
    /\ written <=> generation = "valid_patch"
    /\ written <=> class = "patchable"
    /\ check = "success" => written
    /\ written /\ (inv.verify => Verified) => check = "success"
    /\ written /\ verdict.conflict => route = "WAIT"

\* Where verification is required of a patch, a fix succeeds only with every
\* check passed (docs/env_reference.md:73).
SuccessIsVerified == pc = "done" /\ Fix /\ inv.verify /\ check = "success" => Verified

\* A fix that tells of no patch was given none: the words ask to mutate, there
\* is no target, the guard turned the text away or the model said so.  A model
\* that failed or was never asked is not told as one.
NoPatchIsAnswered ==
  generation = "no_patch" =>
    inv.mutation \/ NoTarget \/ verdict.guard \/ text.kind = "NO_PATCH" \/ batch.noPatch

\* However a command is retried, the model is asked for one text, for its
\* compacted form if it is a review, once for each batch that was planned, and
\* where they are several once to reduce their answers; it is never asked when
\* the mode or the policy forbids it or a fix has no target.  What one asking
\* tries again inside is bounded in LlmBudget.
ModelIsAskedSparingly ==
  /\ asks <= (IF Fix THEN 1 ELSE 2) + batch.size + (IF batch.size > 1 THEN 1 ELSE 0)
  /\ asks > 0 => ModelAllowed /\ ~NoTarget
=============================================================================
