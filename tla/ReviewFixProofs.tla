--------------------------- MODULE ReviewFixProofs ---------------------------
(***************************************************************************)
(* Proofs about ReviewFix: type correctness, and from an invariant of each *)
(* stage that what is written is grounded, that its verdicts agree, where  *)
(* a missing patch comes from, and how often the model is asked.           *)
(***************************************************************************)
EXTENDS ReviewFix, TLAPS

\* The facts about constants that steps use.
LEMMA Bounds ==
  /\ Reports \subseteq [Checks -> Statuses]
  /\ Engines \subseteq EngineType
  /\ Diffs \subseteq DiffType
  /\ MaxBatches \in Nat
BY ReviewFixAssumption

\* What is read of a pull request names its own files only, and what the
\* validation confirms are conflict markers.
LEMMA PullFacts ==
  ASSUME NEW p \in Pulls
  PROVE  /\ p.files \subseteq Files
         /\ \A f \in p.confirmed : f \in p.files /\ "conflict" \in p.content[f].patch
<1>1. CASE p = NoPull
  BY <1>1 DEF NoPull, Reviewed
<1>2. CASE \E c \in Contents : p = Reviewed(c)
  <2>1. PICK c \in Contents : p = Reviewed(c)
    BY <1>2
  <2>2. DOMAIN c \subseteq Files /\ c \in [DOMAIN c -> FileType]
    BY ReviewFixAssumption
  <2>3. /\ p.files = DOMAIN c /\ p.content = c
        /\ p.confirmed = {f \in DOMAIN c : ConfirmedFindings(c[f]) # {}}
    BY <2>1 DEF Reviewed
  <2>4. ASSUME NEW f \in DOMAIN c, ConfirmedFindings(c[f]) # {} PROVE "conflict" \in c[f].patch
    <3>1. /\ c[f].path \subseteq {"doc", "workflow", "manifest", "sensitive"}
          /\ c[f].patch \subseteq {"conflict", "secret"}
      BY <2>2, <2>4 DEF FileType
    <3>2. QED BY <2>4, <3>1 DEF ConfirmedFindings, Raised, Drivers, Wording
  <2>5. QED BY <2>2, <2>3, <2>4
<1>3. QED BY <1>1, <1>2 DEF Pulls

LEMMA NoDiffType == NoDiff \in DiffType
BY DEF NoDiff, DiffType

LEMMA TextType == ASSUME NEW t \in Texts \cup {NoText} PROVE t.diff \in DiffType
BY Bounds, NoDiffType DEF Texts, NoText, Garbled

LEMMA JoinedType ==
  ASSUME NEW d \in DiffType, NEW e \in DiffType PROVE Joined(d, e) \in DiffType
BY DEF Joined, DiffType

\* A selection of targets holds files of the request.
LEMMA SelectionsType == ASSUME NEW s \in Selections PROVE s \subseteq pr.files
<1>1. PICK likely \in {l \in SUBSET (pr.files \ pr.docs) : pr.cited \ pr.docs \subseteq l} :
        s \in (LET pool == IF likely = {} /\ ~inv.require THEN pr.files \ pr.docs ELSE likely
                   kept == IF Cardinality(pool) > MaxTargets THEN MaxTargets ELSE Cardinality(pool)
               IN  IF inv.require /\ Signals = {} THEN {{}}
                   ELSE {x \in SUBSET pool : Cardinality(x) = kept})
  BY Zenon DEF Selections
<1>2. s = {} \/ s \subseteq (IF likely = {} /\ ~inv.require THEN pr.files \ pr.docs ELSE likely)
  BY <1>1
<1>3. QED BY <1>2

-----------------------------------------------------------------------------
(* Type correctness                                                        *)

\* A batch that is waited for is there, and each brings one part at most.
BatchInv == /\ batch.left + batch.parts <= MaxBatches
            /\ pc = "batches" => batch.left >= 1
            /\ pc = "reduce" => batch.left = 0 /\ batch.size > 1

TypeInv == TypeOK /\ BatchInv

LEMMA TypeInit == Init => TypeInv
<1>1. SUFFICES ASSUME Init PROVE TypeInv
  OBVIOUS
<1>2. NoDiff \in DiffType /\ NoPull \in Pulls /\ MaxBatches \in Nat
  BY Bounds, NoDiffType DEF Pulls
<1>3. batch \in BatchType
  BY <1>1, <1>2 DEF Init, NoBatch, BatchType
<1>4. patch \in [from : {"none", "engine", "batches", "call"}, diff : DiffType]
  BY <1>1, <1>2 DEF Init, NoPatch
<1>5. verdict \in [noPatch : BOOLEAN, guard : BOOLEAN, invalid : BOOLEAN, conflict : BOOLEAN]
  BY <1>1 DEF Init, NoVerdict
<1>6. checks \in [Checks -> Statuses]
  BY <1>1 DEF Init, Checks, Statuses
<1>7. TypeOK
  BY <1>1, <1>2, <1>3, <1>4, <1>5, <1>6 DEF Init, TypeOK, Routes
<1>8. BatchInv
  BY <1>1, <1>2 DEF Init, BatchInv, NoBatch
<1>9. QED BY <1>7, <1>8 DEF TypeInv

\* The plan of batches has its type.
LEMMA BeginType == ASSUME TypeOK, BeginBatches
                   PROVE  /\ batch' \in BatchType
                          /\ pc' \in {"extract", "batches"}
                          /\ BatchInv'
<1>1. CASE batch' = NoBatch /\ pc' = "extract"
  BY <1>1, Bounds, NoDiffType DEF NoBatch, BatchInv, BatchType
<1>2. CASE /\ \E n \in 1..MaxBatches : batch' = [NoBatch EXCEPT !.size = n, !.left = n]
           /\ pc' = "batches"
  <2>1. PICK n \in 1..MaxBatches : batch' = [NoBatch EXCEPT !.size = n, !.left = n]
    BY <1>2
  <2>2. batch' = [size |-> n, left |-> n, used |-> FALSE, parts |-> 0, diff |-> NoDiff, noPatch |-> FALSE]
    BY <2>1 DEF NoBatch
  <2>3. n \in 0..MaxBatches /\ 0 \in 0..MaxBatches /\ n + 0 <= MaxBatches /\ n >= 1
    BY Bounds
  <2>4. QED BY <1>2, <2>2, <2>3, NoDiffType DEF BatchInv, BatchType
<1>3. QED BY <1>1, <1>2 DEF BeginBatches

\* Calls stay a number.
LEMMA AnswerType ==
  ASSUME TypeOK, NEW p, NEW t, Answer(p, t) PROVE asks' \in Nat /\ t \in Texts \cup {NoText}
BY DEF TypeOK, Answer

LEMMA TypeNext == TypeInv /\ [Next]_vars => TypeInv'
<1>1. SUFFICES ASSUME TypeInv, [Next]_vars PROVE TypeInv'
  OBVIOUS
<1>a. TypeOK /\ BatchInv
  BY <1>1 DEF TypeInv
<1> USE DEF seen, asked, settled, told
<1>2. CASE OutOfScope
  BY <1>a, <1>2 DEF OutOfScope, TypeInv, TypeOK, BatchInv, Routes
<1>3. CASE ReadPull
  <2>1. pr' \in Pulls BY <1>3 DEF ReadPull, Pulls
  <2>2. QED BY <1>a, <1>3, <2>1 DEF ReadPull, TypeInv, TypeOK, BatchInv
<1>4. CASE Verify
  BY <1>a, <1>4, Bounds DEF Verify, TypeInv, TypeOK, BatchInv
<1>5. CASE AskEngine
  <2>1. engine' \in Engines /\ route' \in Routes BY <1>5, Bounds DEF AskEngine, EngineType
  <2>2. QED BY <1>a, <1>5, <2>1 DEF AskEngine, TypeInv, TypeOK, BatchInv
<1>6. CASE Target
  <2>1. pr.files \subseteq Files BY <1>a, PullFacts DEF TypeOK
  <2>2. targets' \subseteq Files BY <1>6, <2>1, SelectionsType DEF Target
  <2>3. QED BY <1>a, <1>6, <2>2 DEF Target, TypeInv, TypeOK, BatchInv
<1>7. CASE Decide
  <2>1. CASE NoTarget BY <1>a, <1>7, <2>1 DEF Decide, TypeInv, TypeOK, BatchInv
  <2>2. CASE ~NoTarget
    <3>1. PICK large \in BOOLEAN :
            IF UsesBatches(large)
              THEN BeginBatches /\ generation' = IF Fix THEN "n/a" ELSE "batch_mode"
              ELSE pc' = "call" /\ UNCHANGED batch /\ generation' = IF Fix THEN "n/a" ELSE "single_call"
      BY <1>7, <2>2 DEF Decide
    <3>2. /\ batch' \in BatchType
          /\ pc' \in {"extract", "batches", "call"}
          /\ BatchInv'
      <4>1. CASE UsesBatches(large) BY <1>a, <3>1, <4>1, BeginType
      <4>2. CASE ~UsesBatches(large) BY <1>a, <3>1, <4>2 DEF TypeOK, BatchInv
      <4>3. QED BY <4>1, <4>2
    <3>3. generation' \in {"n/a", "batch_mode", "single_call"} BY <3>1
    <3>4. QED BY <1>a, <1>7, <3>2, <3>3 DEF Decide, TypeInv, TypeOK
  <2>3. QED BY <2>1, <2>2
<1>8. CASE Call
  <2>1. PICK p \in {"none", "too_large", "error"}, t \in Texts \cup {NoText} :
          Answer(p, t) /\ text' = t /\ provider' = p
    BY <1>8 DEF Call
  <2>2. asks' \in Nat BY <1>a, <2>1, AnswerType
  <2>3. QED BY <1>a, <1>8, <2>1, <2>2 DEF Call, TypeInv, TypeOK, BatchInv
<1>9. CASE AfterCall
  <2>1. /\ batch' \in BatchType
        /\ pc' \in {"extract", "batches", "compact"}
        /\ provider' \in {"none", "too_large", "error"}
        /\ BatchInv'
    <3>1. CASE BeginBatches /\ provider' = "none" BY <1>a, <3>1, BeginType
    <3>2. CASE pc' \in {"extract", "compact"} /\ UNCHANGED <<batch, provider>>
      BY <1>a, <3>2 DEF TypeOK, BatchInv
    <3>3. QED BY <1>9, <3>1, <3>2 DEF AfterCall
  <2>2. generation' \in {"provider_failed", generation} BY <1>9 DEF AfterCall
  <2>3. QED BY <1>a, <1>9, <2>1, <2>2 DEF AfterCall, TypeInv, TypeOK
<1>10. CASE Compact
  <2>1. PICK p \in {"none", "too_large", "error"}, t \in Texts \cup {NoText} :
          /\ Answer(p, t)
          /\ IF t # NoText
               THEN text' = t /\ provider' = p /\ generation' = "compacted_retry_ok" /\ pc' = "extract"
                    /\ UNCHANGED batch
               ELSE BeginBatches /\ provider' = "none" /\ generation' = "batch_retry_after_413"
                    /\ UNCHANGED text
    BY <1>10 DEF Compact
  <2>2. asks' \in Nat BY <1>a, <2>1, AnswerType
  <2>3. /\ batch' \in BatchType
        /\ pc' \in {"extract", "batches"}
        /\ BatchInv'
    <3>1. CASE t # NoText BY <1>a, <2>1, <3>1 DEF TypeOK, BatchInv
    <3>2. CASE t = NoText BY <1>a, <2>1, <3>2, BeginType
    <3>3. QED BY <3>1, <3>2
  <2>4. /\ text' \in Texts \cup {NoText} /\ provider' \in {"none", "too_large", "error"}
        /\ generation' \in {"compacted_retry_ok", "batch_retry_after_413"}
    BY <1>a, <2>1 DEF TypeOK
  <2>5. QED BY <1>a, <1>10, <2>2, <2>3, <2>4 DEF Compact, TypeInv, TypeOK
<1>11. CASE BatchAnswers
  <2>1. PICK p \in {"none", "too_large", "error"}, t \in Texts \cup {NoText}, answered \in BOOLEAN :
          /\ Answer(p, t)
          /\ LET part == Fix /\ t.kind = "diff"
             IN  batch' = [batch EXCEPT
                   !.left = @ - 1,
                   !.used = @ \/ answered,
                   !.parts = IF part THEN @ + 1 ELSE @,
                   !.diff = IF part THEN Joined(@, t.diff) ELSE @,
                   !.noPatch = @ \/ t.kind = "NO_PATCH"]
    BY <1>11 DEF BatchAnswers
  <2>2. asks' \in Nat BY <1>a, <2>1, AnswerType
  <2>3. Joined(batch.diff, t.diff) \in DiffType BY <1>a, TextType, JoinedType DEF TypeOK, BatchType
  <2>4. /\ batch.left >= 1 /\ batch.left + batch.parts <= MaxBatches
        /\ batch.left \in Nat /\ batch.size \in 0..MaxBatches /\ batch.parts \in Nat
    BY <1>a, <1>11 DEF BatchInv, BatchAnswers, TypeOK, BatchType
  <2>5. batch' \in BatchType
    <3>1. /\ batch.left - 1 \in 0..MaxBatches /\ batch.parts + 1 \in 0..MaxBatches
          /\ batch.parts \in 0..MaxBatches /\ batch.diff \in DiffType /\ batch.noPatch \in BOOLEAN
          /\ batch.used \in BOOLEAN
      BY <1>a, <2>4, Bounds DEF TypeOK, BatchType
    <3>2. batch = [size |-> batch.size, left |-> batch.left, used |-> batch.used, parts |-> batch.parts,
                   diff |-> batch.diff, noPatch |-> batch.noPatch]
      BY <1>a DEF TypeOK, BatchType
    <3>3. batch' = [size |-> batch.size, left |-> batch.left - 1, used |-> batch.used \/ answered,
                    parts |-> IF Fix /\ t.kind = "diff" THEN batch.parts + 1 ELSE batch.parts,
                    diff |-> IF Fix /\ t.kind = "diff" THEN Joined(batch.diff, t.diff) ELSE batch.diff,
                    noPatch |-> batch.noPatch \/ t.kind = "NO_PATCH"]
      BY <2>1, <3>2
    <3>4. QED BY <3>1, <3>3, <2>3, <2>4 DEF BatchType
  <2>6. batch'.left = batch.left - 1 /\ batch'.left + batch'.parts <= MaxBatches
    BY <1>a, <2>1, <2>4, Bounds DEF TypeOK, BatchType
  <2>7. /\ pc' \in {"batches", "extract", "reduce"}
        /\ pc' = "batches" => batch.left # 1
        /\ pc' = "reduce" => batch.left = 1 /\ batch'.size > 1
    BY <1>11 DEF BatchAnswers
  <2>8. BatchInv' BY <2>4, <2>6, <2>7 DEF BatchInv
  <2>9. QED BY <1>a, <1>11, <2>2, <2>5, <2>7, <2>8 DEF BatchAnswers, TypeInv, TypeOK
<1>r. CASE Reduce
  <2>1. asks' \in Nat BY <1>a, <1>r, AnswerType DEF Reduce
  <2>2. QED BY <1>a, <1>r, <2>1 DEF Reduce, TypeInv, TypeOK, BatchInv
<1>12. CASE Extract
  <2>1. PICK conflict \in BOOLEAN :
          LET merged == Gate(batch.diff)
              own    == Gate(engine.diff)
              guard  == merged = NoDiff /\ own = NoDiff /\ Guarded(text)
              found  == IF merged # NoDiff THEN [from |-> "batches", diff |-> merged]
                        ELSE IF own # NoDiff THEN [from |-> "engine", diff |-> own]
                        ELSE IF text.kind = "diff" /\ ~guard THEN [from |-> "call", diff |-> text.diff]
                        ELSE NoPatch
          IN  /\ conflict => merged # NoDiff
              /\ patch' = found
              /\ verdict' = [verdict EXCEPT
                   !.guard = guard, !.conflict = conflict,
                   !.noPatch = \/ NoTarget \/ guard
                               \/ merged = NoDiff /\ own = NoDiff /\ text.kind = "NO_PATCH"
                               \/ found = NoPatch /\ batch.noPatch /\ batch.parts = 0]
    BY <1>12 DEF Extract
  <2>2. Gate(batch.diff) \in DiffType /\ Gate(engine.diff) \in DiffType /\ text.diff \in DiffType
    BY <1>a, Bounds, NoDiffType, TextType DEF TypeOK, Gate, EngineType, NoEngine, BatchType
  <2>3. patch' \in [from : {"none", "engine", "batches", "call"}, diff : DiffType]
    BY <2>1, <2>2, NoDiffType DEF NoPatch
  <2>4. verdict' \in [noPatch : BOOLEAN, guard : BOOLEAN, invalid : BOOLEAN, conflict : BOOLEAN]
    BY <1>a, <2>1 DEF TypeOK
  <2>5. QED BY <1>a, <1>12, <2>3, <2>4 DEF Extract, TypeInv, TypeOK, BatchInv
<1>13. CASE Validate
  <2>1. patch' \in [from : {"none", "engine", "batches", "call"}, diff : DiffType]
    BY <1>a, <1>13, NoDiffType DEF Validate, NoPatch, TypeOK
  <2>2. inv.mutation \in BOOLEAN BY <1>a, ReviewFixAssumption DEF TypeOK
  <2>3. verdict' \in [noPatch : BOOLEAN, guard : BOOLEAN, invalid : BOOLEAN, conflict : BOOLEAN]
    BY <1>a, <1>13, <2>2 DEF Validate, TypeOK
  <2>4. QED BY <1>a, <1>13, <2>1, <2>3 DEF Validate, TypeInv, TypeOK, BatchInv
<1>14. CASE Settle
  <2>1. /\ Status \in {"valid_patch", "no_patch", "provider_failed", "patch_validation_failed"}
        /\ Class(Status) \in {"patchable", "risk_too_high", "not_localized", "insufficient_evidence",
                              "safe_default"}
    BY DEF Status, Class
  <2>2. route' \in Routes BY <1>a, <1>14 DEF Settle, TypeOK, Routes
  <2>3. QED BY <1>a, <1>14, <2>1, <2>2 DEF Settle, TypeInv, TypeOK, BatchInv
<1>15. CASE EndReview
  BY <1>a, <1>15 DEF EndReview, TypeInv, TypeOK, BatchInv
<1>16. CASE Conclude
  <2>1. Conclusion \in {"success", "neutral", "failure"} BY DEF Conclusion, BaseConclusion
  <2>2. QED BY <1>a, <1>16, <2>1 DEF Conclude, TypeInv, TypeOK, BatchInv
<1>17. CASE UNCHANGED vars
  BY <1>a, <1>17 DEF vars, TypeInv, TypeOK, BatchInv
<1>18. QED
  BY <1>1, <1>2, <1>3, <1>4, <1>5, <1>6, <1>7, <1>8, <1>9, <1>10, <1>11, <1>12, <1>13, <1>14, <1>15,
     <1>16, <1>17, <1>r DEF Next

-----------------------------------------------------------------------------
(* The stages                                                              *)

\* Before the model is asked there is no text and no call; a text is asked for
\* only if there is a target, and asks are made only if they are allowed.
Early == {"scope", "verify", "engine", "target", "decide"}

\* Texts that are asked for in one piece, and the reduction of batches: as
\* planned, and as it still may come.
Singles    == IF Fix THEN 1 ELSE 2
Reductions == IF batch.size > 1 THEN 1 ELSE 0
ToReduce   == IF pc \in {"batches", "reduce"} THEN Reductions ELSE 0

AskedInv ==
  /\ pc \in Early => text = NoText /\ asks = 0
  /\ pc \in Early \cup {"call", "answered", "compact"} => batch.left = 0 /\ batch.size = 0
  /\ pc \in {"call", "answered", "compact", "batches", "reduce"} \/ text # NoText \/ asks > 0 => ~NoTarget
  /\ asks > 0 => ModelAllowed
  /\ pc = "call" => asks = 0
  /\ pc = "answered" => asks <= 1
  /\ pc = "compact" => asks <= 1 /\ ~Fix
  /\ asks + batch.left + ToReduce <= Singles + batch.size + Reductions

\* A patch that was found comes from a stage that has a target, and after the
\* validation it is grounded.
PatchInv ==
  /\ pc \notin {"validate", "settle", "conclude", "done"} => patch = NoPatch /\ verdict = NoVerdict
  /\ pc \notin {"conclude", "done"} => ~written
  /\ written => patch # NoPatch
  /\ patch # NoPatch => /\ Fix /\ ~NoTarget
                        /\ patch.from = "call" => "guard" \notin patch.diff.marks
  /\ patch # NoPatch /\ pc # "validate" => Grounded(patch.diff) /\ ~inv.mutation

\* Where the flag of no patch may come from.
NoPatchInv ==
  verdict.noPatch =>
    \/ NoTarget \/ verdict.guard \/ text.kind = "NO_PATCH" \/ batch.noPatch
    \/ inv.mutation /\ pc # "validate"

\* What is told of a fix once its patch is settled.
ToldInv ==
  /\ pc \notin {"conclude", "done"} => generation \notin {"valid_patch", "no_patch", "patch_validation_failed"}
  /\ Fix /\ pc \notin {"conclude", "done"} => generation = "n/a"
  /\ generation = "no_patch" => verdict.noPatch
  /\ Fix /\ generation # "n/a" => /\ written <=> generation = "valid_patch"
                                  /\ written <=> class = "patchable"
                                  /\ written /\ verdict.conflict => route = "WAIT"
  /\ Fix /\ pc = "done" /\ generation # "n/a" => check = Conclusion

StageInv == TypeInv /\ AskedInv /\ PatchInv /\ NoPatchInv /\ ToldInv

\* What is said of the command, its targets and the engine stays.
LEMMA SeenSame ==
  ASSUME UNCHANGED seen
  PROVE  /\ Fix' = Fix /\ NoTarget' = NoTarget /\ ModelAllowed' = ModelAllowed
         /\ \A d \in DiffType : Grounded(d)' = Grounded(d)
BY DEF seen, Fix, NoTarget, Localized, ModelAllowed, Grounded

LEMMA StageInit == Init => StageInv
<1>1. SUFFICES ASSUME Init PROVE StageInv
  OBVIOUS
<1>2. TypeInv BY <1>1, TypeInit
<1>3. AskedInv /\ PatchInv /\ NoPatchInv /\ ToldInv
  BY <1>1, Bounds DEF Init, AskedInv, PatchInv, NoPatchInv, ToldInv, Early, NoBatch, NoVerdict, Singles, Reductions,
                     ToReduce
<1>4. QED BY <1>2, <1>3 DEF StageInv

\* A plan of batches adds no call.
LEMMA BeginLeft ==
  ASSUME TypeInv, BeginBatches
  PROVE  /\ batch'.size \in 0..MaxBatches /\ batch'.left = batch'.size
         /\ batch'.parts = 0 /\ ~batch'.noPatch
         /\ pc' \in {"extract", "batches"}
<1>0. pc' \in {"extract", "batches"}
  BY DEF BeginBatches
<1>1. CASE batch' = NoBatch
  <2>1. batch'.size = 0 /\ batch'.left = 0 /\ batch'.parts = 0 /\ ~batch'.noPatch
    BY <1>1 DEF NoBatch
  <2>2. QED BY <1>0, <2>1, Bounds
<1>2. CASE \E n \in 1..MaxBatches : batch' = [NoBatch EXCEPT !.size = n, !.left = n]
  <2>1. PICK n \in 1..MaxBatches : batch' = [NoBatch EXCEPT !.size = n, !.left = n]
    BY <1>2
  <2>2. batch'.size = n /\ batch'.left = n /\ batch'.parts = 0 /\ ~batch'.noPatch
    BY <2>1 DEF NoBatch
  <2>3. n \in 0..MaxBatches BY Bounds
  <2>4. QED BY <1>0, <2>2, <2>3
<1>3. QED BY <1>1, <1>2 DEF BeginBatches

\* What the plan adds to the bound covers its batches and the reduction.
LEMMA PlanCovered ==
  ASSUME NEW a \in Nat, TypeInv, BeginBatches, Fix' = Fix, a <= Singles
  PROVE  a + batch'.left + ToReduce' <= Singles' + batch'.size + Reductions'
<1>1. batch'.size \in Nat /\ batch'.left = batch'.size
  BY BeginLeft, Bounds
<1>2. Reductions' \in {0, 1} /\ ToReduce' \in {0, Reductions'} /\ Singles' = Singles /\ Singles \in Nat
  BY DEF Reductions, ToReduce, Singles
<1>3. ToReduce' <= Reductions'
  BY <1>2
<1>4. QED BY <1>1, <1>2, <1>3

\* Without a plan, what was asked so far is covered by the single texts.
LEMMA NoPlanCovered ==
  ASSUME NEW a \in Nat, a <= Singles, Fix' = Fix, batch'.left = 0, batch'.size = 0
  PROVE  a + batch'.left + ToReduce' <= Singles' + batch'.size + Reductions'
<1>1. Reductions' = 0
  BY DEF Reductions
<1>2. ToReduce' = 0
  BY <1>1 DEF ToReduce
<1>3. Singles' = Singles /\ Singles \in Nat
  BY DEF Singles
<1>4. QED BY <1>1, <1>2, <1>3

LEMMA AskedNext == TypeInv /\ AskedInv /\ [Next]_vars => AskedInv'
<1>1. SUFFICES ASSUME TypeInv, AskedInv, [Next]_vars PROVE AskedInv'
  OBVIOUS
<1>n. /\ asks \in Nat /\ MaxBatches \in Nat /\ batch.left \in 0..MaxBatches /\ batch.size \in 0..MaxBatches
  BY <1>1, Bounds DEF TypeInv, TypeOK, BatchType
<1> USE DEF Early, Singles, Reductions, ToReduce
<1>2. CASE OutOfScope
  BY <1>1, <1>n, <1>2 DEF OutOfScope, AskedInv, seen, asked, Fix, NoTarget, Localized, ModelAllowed
<1>3. CASE ReadPull
  BY <1>1, <1>n, <1>3 DEF ReadPull, AskedInv, asked, Fix
<1>4. CASE Verify
  BY <1>1, <1>n, <1>4 DEF Verify, AskedInv, asked, Fix
<1>5. CASE AskEngine
  BY <1>1, <1>n, <1>5 DEF AskEngine, AskedInv, asked, Fix
<1>6. CASE Target
  BY <1>1, <1>n, <1>6 DEF Target, AskedInv, asked, Fix
<1>7. CASE Decide
  <2>1. /\ Fix' = Fix /\ NoTarget' = NoTarget /\ ModelAllowed' = ModelAllowed
        /\ text = NoText /\ asks = 0 /\ text' = text /\ asks' = asks
    BY <1>1, <1>7, SeenSame DEF Decide, AskedInv
  <2>2. /\ pc' \in {"extract", "call", "batches"}
        /\ pc' # "extract" => ~NoTarget
        /\ pc' = "call" => batch'.left = 0 /\ batch'.size = 0
        /\ asks' + batch'.left + ToReduce' <= Singles' + batch'.size + Reductions'
    <3>1. CASE NoTarget
      <4>1. batch' = batch /\ pc' = "extract" BY <1>7, <3>1 DEF Decide
      <4>2. QED BY <1>1, <1>7, <1>n, <2>1, <4>1 DEF AskedInv, Decide
    <3>2. CASE ~NoTarget /\ BeginBatches
      <4>1. asks <= Singles BY <2>1
      <4>2. QED BY <1>1, <1>n, <2>1, <3>2, <4>1, BeginLeft, PlanCovered
    <3>3. CASE ~NoTarget /\ pc' = "call" /\ UNCHANGED batch
      BY <1>1, <1>7, <1>n, <2>1, <3>3 DEF AskedInv, Decide
    <3>4. QED BY <1>7, <3>1, <3>2, <3>3 DEF Decide
  <2>4. QED BY <2>1, <2>2 DEF AskedInv
<1>8. CASE Call
  <2>1. PICK p \in {"none", "too_large", "error"}, t \in Texts \cup {NoText} :
          Answer(p, t) /\ text' = t /\ provider' = p
    BY <1>8 DEF Call
  <2>2. /\ Fix' = Fix /\ NoTarget' = NoTarget /\ ModelAllowed' = ModelAllowed
        /\ asks = 0 /\ batch' = batch /\ batch.left = 0 /\ batch.size = 0 /\ ~NoTarget
        /\ pc' = "answered"
    BY <1>1, <1>8, SeenSame DEF Call, AskedInv
  <2>3. asks' = 0 \/ (asks' = 1 /\ ModelAllowed)
    BY <2>1, <2>2 DEF Answer, MayCall
  <2>4. QED BY <2>2, <2>3, <1>n DEF AskedInv
<1>9. CASE AfterCall
  <2>1. /\ Fix' = Fix /\ NoTarget' = NoTarget /\ ModelAllowed' = ModelAllowed
        /\ asks <= 1 /\ asks' = asks /\ text' = text /\ ~NoTarget
        /\ asks > 0 => ModelAllowed
    BY <1>1, <1>9, SeenSame DEF AfterCall, AskedInv
  <2>2. /\ pc' \in {"extract", "compact", "batches"}
        /\ pc' = "compact" => batch'.left = 0 /\ batch'.size = 0 /\ ~Fix
        /\ asks' + batch'.left + ToReduce' <= Singles' + batch'.size + Reductions'
    <3>1. CASE BeginBatches
      <4>1. asks <= Singles BY <2>1, <1>n
      <4>2. pc' \in {"extract", "batches"} BY <1>1, <3>1, BeginLeft
      <4>3. QED BY <1>1, <1>n, <2>1, <3>1, <4>1, <4>2, PlanCovered
    <3>2. CASE ~BeginBatches
      <4>1. batch' = batch /\ pc' \in {"extract", "compact"} /\ (pc' = "compact" => ~Fix)
        BY <1>9, <3>2 DEF AfterCall
      <4>2. QED BY <1>1, <1>9, <1>n, <2>1, <4>1 DEF AfterCall, AskedInv
    <3>3. QED BY <3>1, <3>2
  <2>3. QED BY <2>1, <2>2, <1>n DEF AskedInv
<1>10. CASE Compact
  <2>1. PICK p \in {"none", "too_large", "error"}, t \in Texts \cup {NoText} :
          /\ Answer(p, t)
          /\ IF t # NoText
               THEN text' = t /\ provider' = p /\ generation' = "compacted_retry_ok" /\ pc' = "extract"
                    /\ UNCHANGED batch
               ELSE BeginBatches /\ provider' = "none" /\ generation' = "batch_retry_after_413"
                    /\ UNCHANGED text
    BY <1>10 DEF Compact
  <2>2. /\ Fix' = Fix /\ NoTarget' = NoTarget /\ ModelAllowed' = ModelAllowed
        /\ asks <= 1 /\ ~Fix /\ ~NoTarget /\ (asks > 0 => ModelAllowed)
    BY <1>1, <1>10, SeenSame DEF Compact, AskedInv
  <2>3. asks' \in Nat /\ asks' <= 2 /\ (asks' > 0 => ModelAllowed)
    BY <2>1, <2>2, <1>n DEF Answer, MayCall
  <2>4. /\ pc' \in {"extract", "batches"}
        /\ asks' + batch'.left + ToReduce' <= Singles' + batch'.size + Reductions'
    <3>1. CASE t # NoText
      <4>1. batch' = batch /\ pc' = "extract" BY <2>1, <3>1
      <4>2. batch.left = 0 /\ batch.size = 0 BY <1>1, <1>10 DEF Compact, AskedInv
      <4>3. batch'.left = 0 /\ batch'.size = 0 BY <4>1, <4>2
      <4>4. asks' \in Nat /\ asks' <= Singles BY <2>2, <2>3
      <4>5. QED BY <2>2, <4>1, <4>3, <4>4, NoPlanCovered
    <3>2. CASE t = NoText
      <4>1. BeginBatches BY <2>1, <3>2
      <4>2. asks' <= Singles BY <2>2, <2>3
      <4>3. QED BY <1>1, <2>2, <2>3, <4>1, <4>2, BeginLeft, PlanCovered
    <3>3. QED BY <3>1, <3>2
  <2>5. QED BY <2>2, <2>3, <2>4, <1>n DEF AskedInv
<1>11. CASE BatchAnswers
  <2>1. PICK p \in {"none", "too_large", "error"}, t \in Texts \cup {NoText}, answered \in BOOLEAN :
          /\ Answer(p, t)
          /\ LET part == Fix /\ t.kind = "diff"
             IN  batch' = [batch EXCEPT
                   !.left = @ - 1,
                   !.used = @ \/ answered,
                   !.parts = IF part THEN @ + 1 ELSE @,
                   !.diff = IF part THEN Joined(@, t.diff) ELSE @,
                   !.noPatch = @ \/ t.kind = "NO_PATCH"]
    BY <1>11 DEF BatchAnswers
  <2>2. /\ Fix' = Fix /\ NoTarget' = NoTarget /\ ModelAllowed' = ModelAllowed
        /\ ~NoTarget /\ (asks > 0 => ModelAllowed) /\ text' = text
        /\ pc' \in {"extract", "batches", "reduce"}
        /\ asks + batch.left + Reductions <= Singles + batch.size + Reductions
    BY <1>1, <1>11, SeenSame DEF BatchAnswers, AskedInv
  <2>3. batch'.left = batch.left - 1 /\ batch'.size = batch.size
    BY <1>1, <2>1 DEF TypeInv, TypeOK, BatchType
  <2>4. asks' \in Nat /\ asks' <= asks + 1 /\ (asks' > 0 => ModelAllowed)
    BY <2>1, <2>2, <1>n DEF Answer, MayCall
  <2>5. asks' + batch'.left + ToReduce' <= Singles' + batch'.size + Reductions'
    BY <2>2, <2>3, <2>4, <1>n
  <2>6. QED BY <2>2, <2>4, <2>5 DEF AskedInv
<1>r. CASE Reduce
  <2>1. PICK p \in {"none", "too_large", "error"}, t \in Texts \cup {NoText} : Answer(p, t)
    BY <1>r DEF Reduce
  <2>2. /\ Fix' = Fix /\ NoTarget' = NoTarget /\ ModelAllowed' = ModelAllowed
        /\ ~NoTarget /\ (asks > 0 => ModelAllowed) /\ text' = text /\ batch' = batch /\ pc' = "extract"
        /\ batch.left = 0 /\ batch.size > 1
        /\ asks + 1 <= Singles + batch.size + 1
    BY <1>1, <1>r, <1>n, SeenSame DEF Reduce, AskedInv, TypeInv, BatchInv
  <2>3. asks' \in Nat /\ asks' <= asks + 1 /\ (asks' > 0 => ModelAllowed)
    BY <2>1, <2>2, <1>n DEF Answer, MayCall
  <2>4. ToReduce' = 0 /\ Reductions' = 1 /\ Singles' = Singles BY <2>2
  <2>5. asks' + batch'.left + ToReduce' <= Singles' + batch'.size + Reductions'
    <3>1. Singles \in Nat OBVIOUS
    <3>2. QED BY <2>2, <2>3, <2>4, <3>1, <1>n
  <2>6. QED BY <2>2, <2>3, <2>5 DEF AskedInv
<1>12. CASE Extract \/ Validate \/ Settle \/ EndReview \/ Conclude
  <2>1. /\ Fix' = Fix /\ NoTarget' = NoTarget /\ ModelAllowed' = ModelAllowed
        /\ text' = text /\ asks' = asks /\ batch' = batch
        /\ pc' \in {"validate", "settle", "conclude", "done"}
    BY <1>12, SeenSame DEF Extract, Validate, Settle, EndReview, Conclude, asked
  <2>2. asks' + batch'.left + ToReduce' <= Singles' + batch'.size + Reductions'
    <3>1. asks + batch.left + ToReduce <= Singles + batch.size + Reductions BY <1>1 DEF AskedInv
    <3>2. ToReduce' = 0 /\ Reductions' = Reductions /\ Singles' = Singles /\ ToReduce \in Nat
      BY <2>1
    <3>3. Reductions \in Nat /\ Singles \in Nat OBVIOUS
    <3>4. QED BY <2>1, <3>1, <3>2, <3>3, <1>n
  <2>3. QED BY <1>1, <2>1, <2>2 DEF AskedInv
<1>13. CASE UNCHANGED vars
  <2>1. /\ Fix' = Fix /\ NoTarget' = NoTarget /\ ModelAllowed' = ModelAllowed
        /\ text' = text /\ asks' = asks /\ batch' = batch /\ pc' = pc
    BY <1>13, SeenSame DEF vars, asked
  <2>2. QED BY <1>1, <2>1 DEF AskedInv
<1>14. QED
  BY <1>1, <1>2, <1>3, <1>4, <1>5, <1>6, <1>7, <1>8, <1>9, <1>10, <1>11, <1>12, <1>13, <1>r DEF Next

\* The steps before a patch is looked for.
Before == \/ OutOfScope \/ ReadPull \/ Verify \/ AskEngine \/ Target
          \/ Decide \/ Call \/ AfterCall \/ Compact \/ BatchAnswers \/ Reduce \/ EndReview

LEMMA BeforeSettled ==
  ASSUME Before, TypeInv, PatchInv
  PROVE  /\ patch' = NoPatch /\ verdict' = NoVerdict /\ ~written'
         /\ pc \notin {"validate", "settle", "conclude", "done"}
         /\ pc' \in {"done", "conclude"} => ~Fix \/ OutOfScope
<1>1. /\ UNCHANGED settled /\ UNCHANGED written
      /\ pc \notin {"validate", "settle", "conclude", "done"}
  BY DEF Before, OutOfScope, ReadPull, Verify, AskEngine, Target, Decide, Call, AfterCall, Compact,
         BatchAnswers, Reduce, EndReview, told
<1>2. patch = NoPatch /\ verdict = NoVerdict /\ ~written
  BY <1>1 DEF PatchInv
<1>3. pc' \in {"done", "conclude"} => ~Fix \/ OutOfScope
  <2>1. CASE EndReview BY <2>1 DEF EndReview
  <2>2. CASE BeginBatches BY <2>2 DEF BeginBatches
  <2>3. CASE ~EndReview /\ ~BeginBatches
    BY <2>3 DEF Before, ReadPull, Verify, AskEngine, Target, Decide, Call, AfterCall, Compact, BatchAnswers, Reduce
  <2>4. QED BY <2>1, <2>2, <2>3
<1>4. QED BY <1>1, <1>2, <1>3 DEF settled

\* What Extract finds.
LEMMA Extracted ==
  ASSUME TypeInv, AskedInv, PatchInv, Extract
  PROVE  /\ patch' # NoPatch => /\ ~NoTarget
                                /\ patch'.from = "call" => "guard" \notin patch'.diff.marks
         /\ verdict'.noPatch => NoTarget \/ verdict'.guard \/ text.kind = "NO_PATCH" \/ batch.noPatch
         /\ verdict'.invalid = FALSE
<1>1. PICK conflict \in BOOLEAN :
        LET merged == Gate(batch.diff)
            own    == Gate(engine.diff)
            guard  == merged = NoDiff /\ own = NoDiff /\ Guarded(text)
            found  == IF merged # NoDiff THEN [from |-> "batches", diff |-> merged]
                      ELSE IF own # NoDiff THEN [from |-> "engine", diff |-> own]
                      ELSE IF text.kind = "diff" /\ ~guard THEN [from |-> "call", diff |-> text.diff]
                      ELSE NoPatch
        IN  /\ conflict => merged # NoDiff
            /\ patch' = found
            /\ verdict' = [verdict EXCEPT
                 !.guard = guard, !.conflict = conflict,
                 !.noPatch = \/ NoTarget \/ guard
                             \/ merged = NoDiff /\ own = NoDiff /\ text.kind = "NO_PATCH"
                             \/ found = NoPatch /\ batch.noPatch /\ batch.parts = 0]
  BY DEF Extract
<1>2. verdict = NoVerdict
  BY DEF Extract, PatchInv
<1>3. Gate(batch.diff) # NoDiff => ~NoTarget
  BY DEF Gate
<1>4. Gate(engine.diff) # NoDiff => ~NoTarget
  BY DEF Gate
<1>5. text.kind = "diff" => ~NoTarget
  BY DEF AskedInv, NoText
<1>6. patch' # NoPatch => ~NoTarget
  BY <1>1, <1>3, <1>4, <1>5
<1>7. patch' # NoPatch /\ patch'.from = "call" => "guard" \notin patch'.diff.marks
  BY <1>1 DEF Guarded
<1>8. /\ verdict'.noPatch => NoTarget \/ verdict'.guard \/ text.kind = "NO_PATCH" \/ batch.noPatch
      /\ verdict'.invalid = FALSE
  BY <1>1, <1>2 DEF NoVerdict
<1>9. QED BY <1>6, <1>7, <1>8

LEMMA PatchNext == TypeInv /\ AskedInv /\ PatchInv /\ [Next]_vars => PatchInv'
<1>1. SUFFICES ASSUME TypeInv, AskedInv, PatchInv, [Next]_vars PROVE PatchInv'
  OBVIOUS
<1>2. CASE Before
  BY <1>1, <1>2, BeforeSettled DEF PatchInv
<1>3. CASE Extract
  <2>1. Fix' = Fix /\ NoTarget' = NoTarget /\ Fix /\ pc' = "validate" /\ ~written /\ written' = written
    BY <1>1, <1>3, SeenSame DEF Extract, PatchInv, told
  <2>2. QED BY <1>1, <1>3, <2>1, Extracted DEF PatchInv
<1>4. CASE Validate
  <2>1. /\ Fix' = Fix /\ NoTarget' = NoTarget /\ inv' = inv /\ pc' = "settle" /\ ~written /\ written' = written
        /\ patch.diff \in DiffType
    BY <1>1, <1>4, SeenSame DEF Validate, PatchInv, told, seen, TypeInv, TypeOK
  <2>2. patch' # NoPatch => patch' = patch /\ Grounded(patch.diff) /\ ~inv.mutation
    BY <1>4 DEF Validate
  <2>3. patch' # NoPatch => (Grounded(patch.diff))'
    BY <1>4, <2>2 DEF Validate, Grounded, seen
  <2>4. QED BY <1>1, <2>1, <2>2, <2>3 DEF PatchInv
<1>5. CASE Settle \/ Conclude
  <2>1. /\ Fix' = Fix /\ NoTarget' = NoTarget /\ inv' = inv /\ patch' = patch /\ targets' = targets
        /\ pc' \in {"conclude", "done"} /\ pc \in {"settle", "conclude"}
    BY <1>1, <1>5, SeenSame DEF Settle, Conclude, seen, settled
  <2>2. written' => patch # NoPatch
    <3>1. Settle => (written' => patch # NoPatch)
      BY Zenon DEF Settle
    <3>2. Conclude => written' = written
      BY DEF Conclude
    <3>3. QED BY <1>1, <1>5, <3>1, <3>2 DEF PatchInv
  <2>3. (Grounded(patch.diff))' = Grounded(patch.diff)
    BY <2>1 DEF Grounded
  <2>4. QED BY <1>1, <2>1, <2>2, <2>3 DEF PatchInv
<1>6. CASE UNCHANGED vars
  <2>1. Fix' = Fix /\ NoTarget' = NoTarget /\ inv' = inv /\ patch' = patch /\ targets' = targets
        /\ pc' = pc /\ written' = written /\ verdict' = verdict
    BY <1>6, SeenSame DEF vars, seen, settled, told
  <2>2. (Grounded(patch.diff))' = Grounded(patch.diff)
    BY <2>1 DEF Grounded
  <2>3. QED BY <1>1, <2>1, <2>2 DEF PatchInv
<1>7. QED BY <1>1, <1>2, <1>3, <1>4, <1>5, <1>6 DEF Next, Before

LEMMA NoPatchNext == TypeInv /\ AskedInv /\ PatchInv /\ NoPatchInv /\ [Next]_vars => NoPatchInv'
<1>1. SUFFICES ASSUME TypeInv, AskedInv, PatchInv, NoPatchInv, [Next]_vars PROVE NoPatchInv'
  OBVIOUS
<1>2. CASE Before
  BY <1>1, <1>2, BeforeSettled DEF NoPatchInv, NoVerdict
<1>3. CASE Extract
  <2>1. NoTarget' = NoTarget /\ text' = text /\ batch' = batch
    BY <1>3, SeenSame DEF Extract, asked
  <2>2. QED BY <1>1, <1>3, <2>1, Extracted DEF NoPatchInv
<1>4. CASE Validate
  <2>1. NoTarget' = NoTarget /\ text' = text /\ batch' = batch /\ inv' = inv /\ pc' = "settle"
    BY <1>4, SeenSame DEF Validate, asked, seen
  <2>2. verdict'.noPatch => verdict.noPatch \/ inv.mutation
    BY <1>1, <1>4 DEF Validate, TypeInv, TypeOK
  <2>3. verdict'.guard = verdict.guard
    BY <1>1, <1>4 DEF Validate, TypeInv, TypeOK
  <2>4. QED BY <1>1, <1>4, <2>1, <2>2, <2>3 DEF NoPatchInv, Validate
<1>5. CASE Settle \/ Conclude \/ UNCHANGED vars
  <2>1. /\ NoTarget' = NoTarget /\ text' = text /\ batch' = batch /\ inv' = inv /\ verdict' = verdict
        /\ pc' = "validate" => pc = "validate"
    BY <1>5, SeenSame DEF Settle, Conclude, asked, seen, settled, vars
  <2>2. QED BY <1>1, <2>1 DEF NoPatchInv
<1>6. QED BY <1>1, <1>2, <1>3, <1>4, <1>5 DEF Next, Before

\* The status is that of a patch if and only if there is one, and so is its class.
LEMMA StatusClass ==
  ASSUME TypeInv
  PROVE  /\ Status \in {"valid_patch", "no_patch", "provider_failed", "patch_validation_failed"}
         /\ Status = "valid_patch" <=> patch # NoPatch
         /\ Class(Status) = "patchable" <=> patch # NoPatch
         /\ Status = "no_patch" => verdict.noPatch
BY DEF Status, Class

LEMMA ToldNext == TypeInv /\ AskedInv /\ PatchInv /\ ToldInv /\ [Next]_vars => ToldInv'
<1>1. SUFFICES ASSUME TypeInv, AskedInv, PatchInv, ToldInv, [Next]_vars PROVE ToldInv'
  OBVIOUS
<1>2. CASE OutOfScope
  <2>1. Fix' = Fix /\ generation' = generation /\ verdict' = verdict /\ pc = "scope" /\ pc' = "done"
    BY <1>2, SeenSame DEF OutOfScope, settled
  <2>2. generation \notin {"valid_patch", "no_patch", "patch_validation_failed"} /\ (Fix => generation = "n/a")
    BY <1>1, <2>1 DEF ToldInv
  <2>3. QED BY <2>1, <2>2 DEF ToldInv
<1>3. CASE Before /\ ~OutOfScope
  <2>1. /\ Fix' = Fix /\ verdict' = verdict
        /\ pc \notin {"validate", "settle", "conclude", "done"}
        /\ pc' \in {"done", "conclude"} => ~Fix
    <3>1. Fix' = Fix /\ verdict' = verdict
      BY <1>3 DEF Before, ReadPull, Verify, AskEngine, Target, Decide, Call, AfterCall, Compact, BatchAnswers, Reduce,
                  EndReview, settled, seen, Fix
    <3>2. QED BY <1>1, <1>3, <3>1, BeforeSettled
  <2>2. generation \notin {"valid_patch", "no_patch", "patch_validation_failed"} /\ (Fix => generation = "n/a")
    BY <1>1, <2>1 DEF ToldInv
  <2>3. /\ generation' \notin {"valid_patch", "no_patch", "patch_validation_failed"}
        /\ Fix => generation' = "n/a"
    <3>1. CASE Decide
      BY <1>1, <3>1, <2>2, Zenon DEF Decide
    <3>2. CASE AfterCall
      BY <1>1, <3>2, <2>2 DEF AfterCall
    <3>3. CASE Compact
      <4>1. generation' \in {"compacted_retry_ok", "batch_retry_after_413"} BY <3>3, Zenon DEF Compact
      <4>2. ~Fix BY <1>1, <3>3 DEF Compact, AskedInv
      <4>3. QED BY <4>1, <4>2
    <3>4. CASE ReadPull \/ Verify \/ AskEngine \/ Target \/ Call \/ BatchAnswers \/ Reduce \/ EndReview
      BY <3>4, <2>2 DEF ReadPull, Verify, AskEngine, Target, Call, BatchAnswers, Reduce, EndReview, told
    <3>5. QED BY <1>3, <3>1, <3>2, <3>3, <3>4 DEF Before
  <2>4. QED BY <2>1, <2>3 DEF ToldInv
<1>4. CASE Extract \/ Validate
  <2>1. /\ Fix' = Fix /\ generation' = generation /\ pc \in {"extract", "validate"}
        /\ pc' \in {"validate", "settle"}
    BY <1>4, SeenSame DEF Extract, Validate, told
  <2>2. generation \notin {"valid_patch", "no_patch", "patch_validation_failed"} /\ (Fix => generation = "n/a")
    BY <1>1, <2>1 DEF ToldInv
  <2>3. QED BY <2>1, <2>2 DEF ToldInv
<1>5. CASE Settle
  <2>1. /\ Fix' = Fix /\ patch' = patch /\ verdict' = verdict /\ pc' = "conclude"
        /\ generation' = Status /\ class' = Class(Status) /\ written' = (patch # NoPatch)
        /\ route' = IF patch # NoPatch /\ verdict.conflict THEN "WAIT" ELSE route
    BY <1>5, SeenSame DEF Settle, settled
  <2>2. QED BY <1>1, <2>1, StatusClass DEF ToldInv
<1>6. CASE Conclude
  <2>1. /\ Fix' = Fix /\ verdict' = verdict /\ pc = "conclude" /\ pc' = "done"
        /\ generation' = generation /\ class' = class /\ route' = route /\ written' = written
        /\ check' = Conclusion
    BY <1>6, SeenSame DEF Conclude, settled
  <2>2. inv' = inv /\ checks' = checks
    BY <1>6 DEF Conclude, seen
  <2>3. Conclusion' = Conclusion
    BY <2>1, <2>2 DEF Conclusion, BaseConclusion, Ran, Fix
  <2>4. QED BY <1>1, <2>1, <2>3 DEF ToldInv
<1>7. CASE UNCHANGED vars
  <2>1. /\ Fix' = Fix /\ verdict' = verdict /\ pc' = pc /\ check' = check /\ inv' = inv /\ checks' = checks
        /\ generation' = generation /\ class' = class /\ route' = route /\ written' = written
    BY <1>7, SeenSame DEF vars, settled, told, seen
  <2>2. Conclusion' = Conclusion
    BY <2>1 DEF Conclusion, BaseConclusion, Ran, Fix
  <2>3. QED BY <1>1, <2>1, <2>2 DEF ToldInv
<1>8. QED BY <1>1, <1>2, <1>3, <1>4, <1>5, <1>6, <1>7 DEF Next, Before

LEMMA StageNext == StageInv /\ [Next]_vars => StageInv'
BY TypeNext, AskedNext, PatchNext, NoPatchNext, ToldNext DEF StageInv

LEMMA Stages == Spec => []StageInv
BY StageInit, StageNext, PTL DEF Spec

-----------------------------------------------------------------------------
(* The results                                                             *)

\* Every variable keeps its type.
THEOREM TypeCorrect == Spec => []TypeOK
<1>1. StageInv => TypeOK
  BY DEF StageInv, TypeInv
<1>2. QED BY Stages, <1>1, PTL

\* A patch that is written is grounded, whichever way it came.
THEOREM WrittenIsGrounded == Spec => []WrittenPatchIsGrounded
<1>1. StageInv => WrittenPatchIsGrounded
  <2>1. SUFFICES ASSUME StageInv, written PROVE WrittenPatchIsGrounded
    BY DEF WrittenPatchIsGrounded
  <2>2. /\ Fix /\ ~NoTarget /\ Grounded(patch.diff) /\ ~inv.mutation
        /\ patch.from = "call" => "guard" \notin patch.diff.marks
    BY <2>1 DEF StageInv, PatchInv
  <2>3. inv.require => \E f \in pr.files \cap targets : "conflict" \in pr.content[f].patch
    <3>1. pr \in Pulls BY <2>1 DEF StageInv, TypeInv, TypeOK
    <3>2. inv.require => pr.confirmed \cap targets # {} BY <2>2 DEF NoTarget, Localized
    <3>3. QED BY <3>1, <3>2, PullFacts
  <2>4. QED BY <2>2, <2>3 DEF WrittenPatchIsGrounded, Grounded
<1>2. QED BY Stages, <1>1, PTL

\* The file, the status, the class and the check of a fix agree.
THEOREM FourVerdicts == Spec => []VerdictsAgree
<1>1. StageInv => VerdictsAgree
  <2>1. SUFFICES ASSUME StageInv, pc = "done", generation # "n/a", Fix PROVE VerdictsAgree
    BY DEF VerdictsAgree
  <2>2. /\ written <=> generation = "valid_patch"
        /\ written <=> class = "patchable"
        /\ written /\ verdict.conflict => route = "WAIT"
        /\ check = Conclusion
    BY <2>1 DEF StageInv, ToldInv
  <2>3. check = "success" <=> generation = "valid_patch"
    BY <2>1, <2>2 DEF Conclusion
  <2>4. QED BY <2>2, <2>3 DEF VerdictsAgree
<1>2. QED BY Stages, <1>1, PTL

\* A fix without a patch says so for a reason of its own.
THEOREM NoPatchHasReason == Spec => []NoPatchIsAnswered
<1>1. StageInv => NoPatchIsAnswered
  BY DEF StageInv, ToldInv, NoPatchInv, NoPatchIsAnswered
<1>2. QED BY Stages, <1>1, PTL

\* The model is asked a bounded number of times, and only where it may be.
THEOREM CallsAreBounded == Spec => []ModelIsAskedSparingly
<1>1. StageInv => ModelIsAskedSparingly
  <2>1. SUFFICES ASSUME StageInv PROVE ModelIsAskedSparingly
    OBVIOUS
  <2>2. asks \in Nat /\ batch.left \in Nat /\ batch.size \in Nat
    BY <2>1, Bounds DEF StageInv, TypeInv, TypeOK, BatchType
  <2>3. ToReduce \in Nat /\ asks + batch.left + ToReduce <= Singles + batch.size + Reductions
    BY <2>1 DEF StageInv, AskedInv, ToReduce, Reductions
  <2>4. asks <= (IF Fix THEN 1 ELSE 2) + batch.size + (IF batch.size > 1 THEN 1 ELSE 0)
    BY <2>2, <2>3 DEF Singles, Reductions
  <2>5. QED BY <2>1, <2>4 DEF ModelIsAskedSparingly, StageInv, AskedInv
<1>2. QED BY Stages, <1>1, PTL
=============================================================================
