--------------------------- MODULE HarnessRunProofs ---------------------------
(* What holds of HarnessRun for every value of its constants.              *)
EXTENDS HarnessRun, SequenceTheorems, TLAPS

USE DEF gitVars, reviewFile, history, vars

----------------------------------------------------------------------------
(* Types.                                                                  *)

LEMMA FingerprintType == ASSUME CheckoutOK PROVE Fingerprint \in Fingerprints /\ head \in Nat
  BY DEF CheckoutOK, Fingerprint, Fingerprints

LEMMA DeltaType == ASSUME NEW a, NEW b PROVE SnapshotDelta(a, b) \in SUBSET Paths
  BY DEF SnapshotDelta

LEMMA InitTypeOK == Init => TypeOK
<1> SUFFICES ASSUME Init PROVE TypeOK
  OBVIOUS
<1> USE DEF Init
<1>1. CheckoutOK
  BY DEF CheckoutOK
<1>2. RunOK
  BY RunAssumption DEF RunOK, RunRecord, Phases, OpenPhases
<1>3. ReviewOK
  BY DEF ReviewOK
<1>4. ActiveOK
  BY DEF ActiveOK, Idle
<1>5. QED
  BY <1>1, <1>2, <1>3, <1>4 DEF TypeOK

Statuses == {"running", "completed", "failed", "interrupted"}

(* A stage that ends keeps the shape of its record and of state.json.      *)
LEMMA EndedType ==
  ASSUME RunOK, NEW k \in DOMAIN run.stages,
         NEW status \in Statuses, NEW kind \in FailureKinds
  PROVE  /\ Ended(k, status, kind) \in RunRecord
         /\ Len(Ended(k, status, kind).stages) <= MaxStages
<1> DEFINE stage == [run.stages[k] EXCEPT !.status = status, !.kind = kind]
           updated == [run.stages EXCEPT ![k] = stage]
<1>1. run.stages \in Seq(StageRecord) /\ run.stages[k] \in StageRecord
  BY DEF RunOK, RunRecord
<1>2. stage \in StageRecord
  BY <1>1 DEF StageRecord, Statuses
<1> HIDE DEF stage
<1>3. updated \in Seq(StageRecord) /\ Len(updated) = Len(run.stages)
  BY <1>1, <1>2, ExceptSeq
<1>4. Ended(k, status, kind) = [run EXCEPT !.stages = updated,
                                           !.terminal = IF Revived(k) THEN None ELSE @]
  BY DEF Ended, RunOK, RunRecord, stage
<1> HIDE DEF updated
<1>5. run \in RunRecord /\ Len(run.stages) <= MaxStages
  BY DEF RunOK
<1>6. [run EXCEPT !.stages = updated, !.terminal = IF Revived(k) THEN None ELSE @] \in RunRecord
  BY <1>3, <1>5 DEF RunRecord
<1>7. Ended(k, status, kind).stages = updated
  BY <1>4, <1>5 DEF RunRecord
<1>8. QED
  BY <1>3, <1>4, <1>5, <1>6, <1>7

LEMMA PublishType ==
  ASSUME ActiveOK, NEW s \in Servers, NEW k \in StageIds, Publish(s, k) PROVE ActiveOK'
  BY DEF ActiveOK, Publish

LEMMA NewStageType ==
  ASSUME RunOK, NEW profile \in {"critic", "implement"}, NEW status \in Statuses,
         NEW kind \in FailureKinds, NEW retryOf \in Nat
  PROVE  NewStage(profile, status, kind, retryOf) \in StageRecord
<1>1. /\ run.fp \in {None} \cup Fingerprints
      /\ run.identity \in {None} \cup Nat
      /\ run.cycle + 1 \in Nat
  BY DEF RunOK, RunRecord
<1>2. QED
  BY <1>1 DEF NewStage, StageRecord, Statuses

(* A handler that adds a stage changes only these fields.                  *)
LEMMA AddStageType ==
  ASSUME RunOK, Len(run.stages) < MaxStages, NEW stage \in StageRecord,
         NEW retries \in 0..MaxCriticRetries, NEW phase \in Phases,
         NEW terminal \in {None} \cup TerminalRecord,
         run' = [run EXCEPT !.stages = Append(@, stage), !.retries = retries,
                            !.phase = phase, !.terminal = terminal]
  PROVE  RunOK'
<1>1. run \in RunRecord /\ run.stages \in Seq(StageRecord) /\ Len(run.stages) \in Nat
  BY DEF RunOK, RunRecord
<1> DEFINE stages == Append(run.stages, stage)
<1>2. stages \in Seq(StageRecord) /\ Len(stages) = Len(run.stages) + 1
  BY <1>1
<1>3. run' = [run EXCEPT !.stages = stages, !.retries = retries,
                         !.phase = phase, !.terminal = terminal]
  BY <1>1 DEF RunRecord
<1> HIDE DEF stages
<1>4. run' \in RunRecord
  BY <1>1, <1>2, <1>3 DEF RunRecord
<1>5. run'.stages = stages
  BY <1>1, <1>3 DEF RunRecord
<1>6. QED
  BY <1>1, <1>2, <1>4, <1>5, RunAssumption DEF RunOK

LEMMA StartStageType ==
  ASSUME RunOK, ActiveOK, NEW s \in Servers, NEW profile \in {"critic", "implement"},
         NEW retryOf \in Nat, retryOf # 0 => run.retries < MaxCriticRetries,
         StartStage(s, profile, retryOf)
  PROVE  RunOK' /\ ActiveOK'
<1>1. /\ run \in RunRecord
      /\ Len(run.stages) \in Nat
      /\ run.terminal \in {None} \cup TerminalRecord
      /\ run.phase \in Phases
      /\ run.retries \in 0..MaxCriticRetries
  BY DEF RunOK, RunRecord
<1>2. Stopped("failed") \in TerminalRecord
  BY DEF Stopped, TerminalRecord, TerminalPhases
<1> DEFINE stage == NewStage(profile, "running", "none", retryOf)
           retries == IF retryOf # 0 THEN run.retries + 1 ELSE run.retries
<1>3. retries \in 0..MaxCriticRetries
  BY <1>1, RunAssumption
<1>4. stage \in StageRecord
  BY NewStageType DEF Statuses, FailureKinds
<1>5. CASE Launch(s, stage, retryOf # 0)
  <2> DEFINE phase == IF stage.profile = "critic" THEN "reviewing" ELSE run.phase
  <2>1. phase \in Phases
    BY <1>1 DEF Phases, OpenPhases
  <2>2. Len(run.stages) + 1 \in StageIds /\ Len(run.stages) < MaxStages
    BY <1>1, <1>5, RunAssumption DEF Launch, StageIds
  <2>3. run' = [run EXCEPT !.stages = Append(@, stage), !.retries = retries,
                           !.phase = phase, !.terminal = run.terminal]
    BY <1>1, <1>5 DEF Launch, RunRecord
  <2> HIDE DEF phase, stage, retries
  <2>4. RunOK'
    BY <1>1, <1>3, <1>4, <2>1, <2>2, <2>3, AddStageType
  <2>5. QED
    BY <1>5, <2>2, <2>4 DEF Launch, ActiveOK
<1>6. CASE LaunchFails(stage, retryOf # 0)
  <2> DEFINE failed == [stage EXCEPT !.status = "failed", !.kind = "launch_error"]
  <2>1. failed \in StageRecord
    BY <1>4 DEF StageRecord, FailureKinds
  <2>2. run' = [run EXCEPT !.stages = Append(@, failed), !.retries = retries,
                           !.phase = "failed", !.terminal = Stopped("failed")]
    BY <1>1, <1>6 DEF LaunchFails, RunRecord
  <2>3. Len(run.stages) < MaxStages /\ "failed" \in Phases
    BY <1>6 DEF LaunchFails, Phases, TerminalPhases
  <2> HIDE DEF failed, stage, retries
  <2>4. RunOK'
    BY <1>2, <1>3, <2>1, <2>2, <2>3, AddStageType
  <2>5. QED
    BY <1>6, <2>4 DEF LaunchFails, ActiveOK
<1>7. CASE CooldownSkips(profile)
  <2> DEFINE skipped == NewStage(profile, "failed", "anthropic_limit", 0)
             phase == IF profile = "critic" THEN "reviewing" ELSE "failed"
             terminal == IF profile = "critic" THEN run.terminal ELSE Stopped("failed")
  <2>1. skipped \in StageRecord
    BY NewStageType DEF Statuses, FailureKinds
  <2>2. phase \in Phases /\ terminal \in {None} \cup TerminalRecord
    BY <1>1, <1>2 DEF Phases, OpenPhases, TerminalPhases
  <2>3. run' = [run EXCEPT !.stages = Append(@, skipped), !.retries = run.retries,
                           !.phase = phase, !.terminal = terminal]
    BY <1>1, <1>7 DEF CooldownSkips, RunRecord
  <2>4. Len(run.stages) < MaxStages
    BY <1>7 DEF CooldownSkips
  <2> HIDE DEF skipped, phase, terminal
  <2>5. RunOK'
    BY <1>1, <2>1, <2>2, <2>3, <2>4, AddStageType
  <2>6. QED
    BY <1>7, <2>5 DEF CooldownSkips, ActiveOK
<1>8. QED
  BY <1>5, <1>6, <1>7 DEF StartStage

LEMMA CheckoutFrame == Next => Checkout \/ UNCHANGED <<writer, gitVars>>
<1> SUFFICES ASSUME Next PROVE Checkout \/ UNCHANGED <<writer, gitVars>>
  OBVIOUS
<1>1. ASSUME NEW p \in Paths, NEW c \in Contents, Edit(p, c)
      PROVE  Checkout \/ UNCHANGED <<writer, gitVars>>
  BY <1>1 DEF Checkout
<1>2. CASE Commit
  BY <1>2 DEF Checkout
<1>3. ASSUME NEW h \in DOMAIN commits, Reset(h)
      PROVE  Checkout \/ UNCHANGED <<writer, gitVars>>
  BY <1>3 DEF Checkout
<1>4. ASSUME NEW s \in Servers, NEW closeout \in BOOLEAN, PlanChecks(s, closeout)
      PROVE  Checkout \/ UNCHANGED <<writer, gitVars>>
  BY <1>4 DEF PlanChecks
<1>5. ASSUME NEW s \in Servers, ExhaustCorrections(s)
      PROVE  Checkout \/ UNCHANGED <<writer, gitVars>>
  BY <1>5 DEF ExhaustCorrections
<1>6. ASSUME NEW s \in Servers, NEW name \in Checks, NEW ok \in BOOLEAN, RecordCheck(s,
             name, ok)
      PROVE  Checkout \/ UNCHANGED <<writer, gitVars>>
  BY <1>6 DEF RecordCheck
<1>7. ASSUME NEW s \in Servers, StartCritic(s)
      PROVE  Checkout \/ UNCHANGED <<writer, gitVars>>
  BY <1>7 DEF StartCritic, StartStage
<1>8. ASSUME NEW s \in Servers, NEW k \in DOMAIN run.stages, RetryCritic(s, k)
      PROVE  Checkout \/ UNCHANGED <<writer, gitVars>>
  BY <1>8 DEF RetryCritic, StartStage
<1>9. ASSUME NEW s \in Servers, StartImplement(s)
      PROVE  Checkout \/ UNCHANGED <<writer, gitVars>>
  BY <1>9 DEF StartImplement, StartStage
<1>10. ASSUME NEW s \in Servers, NEW k \in StageIds, CancelStage(s, k)
       PROVE  Checkout \/ UNCHANGED <<writer, gitVars>>
  BY <1>10 DEF CancelStage
<1>11. ASSUME NEW s \in Servers, ResolveFindings(s)
       PROVE  Checkout \/ UNCHANGED <<writer, gitVars>>
  BY <1>11 DEF ResolveFindings
<1>12. ASSUME NEW s \in Servers, NEW forms \in SUBSET FindingForms, NEW question \in
              BOOLEAN, SupplyReview(s, forms, question)
       PROVE  Checkout \/ UNCHANGED <<writer, gitVars>>
  BY <1>12 DEF SupplyReview
<1>13. ASSUME NEW s \in Servers, NEW forms \in SUBSET FindingForms, NEW question \in
              BOOLEAN, SupplyReviewCrash(s, forms, question)
       PROVE  Checkout \/ UNCHANGED <<writer, gitVars>>
  BY <1>13 DEF SupplyReviewCrash, CrashAfterReviewSaved
<1>14. ASSUME NEW s \in Servers, NEW status \in TerminalPhases, Finish(s, status)
       PROVE  Checkout \/ UNCHANGED <<writer, gitVars>>
  BY <1>14 DEF Finish
<1>15. ASSUME NEW s \in Servers, FinishRefused(s)
       PROVE  Checkout \/ UNCHANGED <<writer, gitVars>>
  BY <1>15 DEF FinishRefused
<1>16. ASSUME NEW s \in Servers, Recover(s) PROVE Checkout \/ UNCHANGED <<writer, gitVars>>
  BY <1>16 DEF Recover
<1>17. ASSUME NEW s \in Servers, Crash(s) PROVE Checkout \/ UNCHANGED <<writer, gitVars>>
  BY <1>17 DEF Crash
<1>18. ASSUME NEW s \in Servers, NEW k \in StageIds, NEW forms \in SUBSET FindingForms, NEW
              question \in BOOLEAN, CriticCompletesCrash(s, k, forms, question)
       PROVE  Checkout \/ UNCHANGED <<writer, gitVars>>
  BY <1>18 DEF CriticCompletesCrash, CrashAfterReviewSaved
<1>19. ASSUME NEW s \in Servers, NEW k \in StageIds, StageEnds(s, k)
       PROVE  Checkout \/ UNCHANGED <<writer, gitVars>>
  BY <1>19 DEF StageEnds, EndsPreserved, StageFails, CriticStale, CriticCompletes,
      ImplementCompletes, StageInterrupted, CallbackLost
<1>20. QED
  BY <1>1, <1>2, <1>3, <1>4, <1>5, <1>6, <1>7, <1>8, <1>9, <1>10, <1>11, <1>12, <1>13,
       <1>14, <1>15, <1>16, <1>17, <1>18, <1>19 DEF Next, Checkout, Handler, ServerCrash

LEMMA CheckoutTypeOK == CheckoutOK /\ Next => CheckoutOK'
<1> SUFFICES ASSUME CheckoutOK, Next PROVE CheckoutOK'
  OBVIOUS
<1> USE DEF CheckoutOK
<1>1. ASSUME NEW p \in Paths, NEW c \in Contents, Edit(p, c) PROVE CheckoutOK'
  BY <1>1 DEF Edit, Tree
<1>2. CASE Commit
  BY <1>2 DEF Commit
<1>3. ASSUME NEW h \in DOMAIN commits, Reset(h) PROVE CheckoutOK'
  BY <1>3 DEF Reset
<1>4. CASE UNCHANGED <<writer, gitVars>>
  BY <1>4
<1>5. QED
  BY <1>1, <1>2, <1>3, <1>4, CheckoutFrame DEF Checkout

LEMMA PlanType ==
  ASSUME TypeOK, NEW s \in Servers, NEW closeout \in BOOLEAN, PlanChecks(s, closeout)
  PROVE  RunOK'
<1>1. run \in RunRecord /\ Len(run.stages) <= MaxStages
  BY DEF TypeOK, RunOK
<1>2. Fingerprint \in Fingerprints /\ head \in Nat
  BY FingerprintType DEF TypeOK
<1> DEFINE corrections == IF ChargesCorrection(closeout) THEN run.corrections + 1
                                                         ELSE run.corrections
           summary == IF run.identity = head THEN run.summary ELSE None
           passed == IF run.identity = head THEN run.passed
                     ELSE {r \in run.passed : r.fp # Fingerprint}
           record == IF closeout
                     THEN [source |-> review.fp, fp |-> Fingerprint,
                           paths |-> SnapshotDelta(run.reviewSnapshot, Fingerprint)]
                     ELSE None
<1>3. corrections \in 0..MaxCorrectionPasses
  BY <1>1, RunAssumption DEF RunRecord, PlanChecks
<1>4. summary \in {None} \cup Fingerprints
  BY <1>1 DEF RunRecord
<1>5. passed \in SUBSET [fp : Fingerprints, name : Checks]
  BY <1>1 DEF RunRecord
<1>6. record \in {None} \cup CloseoutRecord
  <2>1. CASE closeout
    <3>1. review \in ReviewRecord
      BY <2>1 DEF TypeOK, ReviewOK, PlanChecks, PlanAccepted, CloseoutPermitted
    <3>2. review.fp \in Fingerprints
      BY <3>1 DEF ReviewRecord
    <3>3. QED
      BY <1>2, <2>1, <3>2, DeltaType DEF CloseoutRecord
  <2>2. CASE ~closeout
    BY <2>2
  <2>3. QED
    BY <2>1, <2>2
<1>7. run' = [run EXCEPT !.phase = "checking", !.corrections = corrections,
                         !.fp = Fingerprint, !.identity = head, !.summary = summary,
                         !.passed = passed, !.closeout = record]
  BY <1>1 DEF PlanChecks, RunRecord
<1> HIDE DEF corrections, summary, passed, record
<1>8. "checking" \in Phases
  BY DEF Phases, OpenPhases
<1>9. QED
  BY <1>1, <1>2, <1>3, <1>4, <1>5, <1>6, <1>7, <1>8 DEF RunOK, RunRecord

LEMMA RecordCheckType ==
  ASSUME TypeOK, NEW s \in Servers, NEW name \in Checks, NEW ok \in BOOLEAN,
         RecordCheck(s, name, ok)
  PROVE  RunOK'
<1>1. run \in RunRecord /\ Len(run.stages) <= MaxStages
  BY DEF TypeOK, RunOK
<1>2. run.fp \in Fingerprints /\ head \in Nat
  BY FingerprintType DEF TypeOK, RecordCheck, TreeChecked
<1> DEFINE others == {r \in run.passed : ~(r.fp = run.fp /\ r.name = name)}
           passed == IF ok THEN others \cup {[fp |-> run.fp, name |-> name]}
                           ELSE others
<1>3. passed \in SUBSET [fp : Fingerprints, name : Checks]
  BY <1>1, <1>2 DEF RunRecord
<1>4. run' = [run EXCEPT !.passed = passed]
  BY DEF RecordCheck
<1> HIDE DEF passed, others
<1>5. QED
  BY <1>1, <1>3, <1>4 DEF RunOK, RunRecord

----------------------------------------------------------------------------
(* What a step can do to review.json: nothing, add resolutions to the      *)
(* review it holds, or replace that review by one of the present checkout. *)

Origins == {"claude", "codex", "codex_fallback"}

ReviewRecorded ==
  \E forms \in SUBSET FindingForms, question \in BOOLEAN, origin \in Origins :
    \E given :
      /\ RecordReview(Reported(forms), question, origin, Fingerprint, head, given)
      /\ \A id \in DOMAIN given : given[id] \in ResolutionForms

ReviewStep ==
  \/ UNCHANGED <<reviewFile, history>>
  \/ \E s \in Servers : ResolveFindings(s)
  \/ ReviewRecorded

LEMMA ReviewFrame == Next => ReviewStep
<1> SUFFICES ASSUME Next PROVE ReviewStep
  OBVIOUS
<1>1. ASSUME NEW p \in Paths, NEW c \in Contents, Edit(p, c) PROVE ReviewStep
  BY <1>1 DEF Edit, ReviewStep
<1>2. CASE Commit
  BY <1>2 DEF Commit, ReviewStep
<1>3. ASSUME NEW h \in DOMAIN commits, Reset(h) PROVE ReviewStep
  BY <1>3 DEF Reset, ReviewStep
<1>4. ASSUME NEW s \in Servers, NEW closeout \in BOOLEAN, PlanChecks(s, closeout)
      PROVE  ReviewStep
  BY <1>4 DEF PlanChecks, ReviewStep
<1>5. ASSUME NEW s \in Servers, ExhaustCorrections(s) PROVE ReviewStep
  BY <1>5 DEF ExhaustCorrections, ReviewStep
<1>6. ASSUME NEW s \in Servers, NEW name \in Checks, NEW ok \in BOOLEAN, RecordCheck(s,
             name, ok)
      PROVE  ReviewStep
  BY <1>6 DEF RecordCheck, ReviewStep
<1>7. ASSUME NEW s \in Servers, StartCritic(s) PROVE ReviewStep
  BY <1>7 DEF StartCritic, StartStage, ReviewStep
<1>8. ASSUME NEW s \in Servers, NEW k \in DOMAIN run.stages, RetryCritic(s, k)
      PROVE  ReviewStep
  BY <1>8 DEF RetryCritic, StartStage, ReviewStep
<1>9. ASSUME NEW s \in Servers, StartImplement(s) PROVE ReviewStep
  BY <1>9 DEF StartImplement, StartStage, ReviewStep
<1>10. ASSUME NEW s \in Servers, NEW k \in StageIds, CancelStage(s, k) PROVE ReviewStep
  BY <1>10 DEF CancelStage, ReviewStep
<1>11. ASSUME NEW s \in Servers, ResolveFindings(s) PROVE ReviewStep
  BY <1>11 DEF ReviewStep
<1>12. ASSUME NEW s \in Servers, NEW forms \in SUBSET FindingForms, NEW question \in
              BOOLEAN, SupplyReview(s, forms, question)
       PROVE  ReviewStep
  <2> DEFINE fresh == Reported(forms)
  <2>1. run.fp = Fingerprint /\ run.identity = head
    BY <1>12 DEF SupplyReview, SuppliedReviewAllowed, ResolutionAllowed, EvidenceFresh, TreeChecked
  <2>2. PICK given \in ResolutionsOf(fresh \cup Carried(fresh)) :
          RecordReview(fresh, question, SuppliedOrigin, run.fp, run.identity, given)
    BY <1>12 DEF SupplyReview
  <2>3. \A id \in DOMAIN given : given[id] \in ResolutionForms
    BY <2>2 DEF ResolutionsOf
  <2>4. SuppliedOrigin \in Origins
    BY DEF SuppliedOrigin, Origins
  <2>5. QED
    BY <2>1, <2>2, <2>3, <2>4 DEF ReviewStep, ReviewRecorded
<1>13. ASSUME NEW s \in Servers, NEW forms \in SUBSET FindingForms, NEW question \in
              BOOLEAN, SupplyReviewCrash(s, forms, question)
       PROVE  ReviewStep
  <2> DEFINE fresh == Reported(forms)
  <2>1. run.fp = Fingerprint /\ run.identity = head
    BY <1>13 DEF SupplyReviewCrash, SuppliedReviewAllowed, ResolutionAllowed, EvidenceFresh, TreeChecked
  <2>2. PICK given \in ResolutionsOf(fresh \cup Carried(fresh)) :
          RecordReview(fresh, question, SuppliedOrigin, run.fp, run.identity, given)
    BY <1>13 DEF SupplyReviewCrash
  <2>3. \A id \in DOMAIN given : given[id] \in ResolutionForms
    BY <2>2 DEF ResolutionsOf
  <2>4. SuppliedOrigin \in Origins
    BY DEF SuppliedOrigin, Origins
  <2>5. QED
    BY <2>1, <2>2, <2>3, <2>4 DEF ReviewStep, ReviewRecorded
<1>14. ASSUME NEW s \in Servers, NEW status \in TerminalPhases, Finish(s, status)
       PROVE  ReviewStep
  BY <1>14 DEF Finish, ReviewStep
<1>15. ASSUME NEW s \in Servers, FinishRefused(s) PROVE ReviewStep
  BY <1>15 DEF FinishRefused, ReviewStep
<1>16. ASSUME NEW s \in Servers, Recover(s) PROVE ReviewStep
  BY <1>16 DEF Recover, ReviewStep
<1>17. ASSUME NEW s \in Servers, Crash(s) PROVE ReviewStep
  BY <1>17 DEF Crash, ReviewStep
<1>18. ASSUME NEW s \in Servers, NEW k \in StageIds, NEW forms \in SUBSET FindingForms, NEW
              question \in BOOLEAN, CriticCompletesCrash(s, k, forms, question)
       PROVE  ReviewStep
  <2>1. RecordReview(Reported(forms), question, "claude", Fingerprint, head, << >>)
    BY <1>18 DEF CriticCompletesCrash, DescribesCheckout
  <2>2. QED
    BY <2>1 DEF ReviewStep, ReviewRecorded, Origins
<1>19. ASSUME NEW s \in Servers, NEW k \in StageIds, StageEnds(s, k) PROVE ReviewStep
  <2>1. ASSUME NEW forms \in SUBSET FindingForms, NEW question \in BOOLEAN,
               CriticCompletes(s, k, forms, question)
        PROVE  ReviewStep
    <3>1. RecordReview(Reported(forms), question, "claude", Fingerprint, head, << >>)
      BY <2>1 DEF CriticCompletes, DescribesCheckout
    <3>2. QED
      BY <3>1 DEF ReviewStep, ReviewRecorded, Origins
  <2>2. ASSUME ~\E forms \in SUBSET FindingForms, question \in BOOLEAN :
                  CriticCompletes(s, k, forms, question)
        PROVE  UNCHANGED <<reviewFile, history>>
    BY <1>19, <2>2 DEF StageEnds, EndsPreserved, StageFails, CriticStale, ImplementCompletes,
      StageInterrupted, CallbackLost
  <2>3. QED
    BY <2>1, <2>2 DEF ReviewStep
<1>20. QED
  BY <1>1, <1>2, <1>3, <1>4, <1>5, <1>6, <1>7, <1>8, <1>9, <1>10, <1>11, <1>12, <1>13,
       <1>14, <1>15, <1>16, <1>17, <1>18, <1>19 DEF Next, Checkout, Handler, ServerCrash
----------------------------------------------------------------------------
(* state.json keeps its shape, action by action.                           *)

LEMMA StopType ==
  ASSUME RunOK, NEW status \in TerminalPhases,
         run' = [run EXCEPT !.phase = status, !.terminal = Stopped(status)]
  PROVE  RunOK'
<1>1. Stopped(status) \in TerminalRecord /\ status \in Phases
  BY DEF Stopped, TerminalRecord, Phases
<1>2. QED
  BY <1>1 DEF RunOK, RunRecord

LEMMA ResolvedType ==
  ASSUME NEW base \in RunRecord, NEW current, current.fp \in Fingerprints, NEW given
  PROVE  Resolved(base, current, given) \in RunRecord
         /\ Resolved(base, current, given).stages = base.stages
<1>1. /\ Stopped("needs_human") \in TerminalRecord
      /\ {"needs_human", "correcting", "reviewing"} \subseteq Phases
  BY DEF Stopped, TerminalRecord, TerminalPhases, Phases, OpenPhases
<1> DEFINE stop == \/ current.question
                   \/ UnresolvedHigh(current.findings, given) /\ MaxCorrectionPasses = 0
           phase == IF stop THEN "needs_human"
                    ELSE IF AcceptedUnresolved(given) THEN "correcting" ELSE "reviewing"
           terminal == IF stop THEN Stopped("needs_human") ELSE base.terminal
           fp == current.fp
<1>2. phase \in Phases /\ terminal \in {None} \cup TerminalRecord
  BY <1>1 DEF RunRecord
<1>3. Resolved(base, current, given) =
        [base EXCEPT !.summary = fp, !.phase = phase, !.terminal = terminal]
  BY DEF Resolved, RunRecord
<1> HIDE DEF stop, phase, terminal
<1>4. QED
  BY <1>2, <1>3 DEF RunRecord

LEMMA StageIdsType == RunOK => DOMAIN run.stages \subseteq StageIds /\ DOMAIN run.stages \subseteq Nat
<1> SUFFICES ASSUME RunOK PROVE DOMAIN run.stages \subseteq StageIds /\ DOMAIN run.stages \subseteq Nat
  OBVIOUS
<1>1. DOMAIN run.stages = 1..Len(run.stages) /\ Len(run.stages) \in Nat
  BY DEF RunOK, RunRecord
<1>2. QED
  BY <1>1, RunAssumption DEF RunOK, StageIds

LEMMA RecoverType == ASSUME RunOK, NEW s \in Servers, Recover(s) PROVE RunOK'
<1> DEFINE interrupted == [k \in DOMAIN run.stages |->
             IF k \in Orphans(s) THEN [run.stages[k] EXCEPT !.status = "interrupted"]
             ELSE run.stages[k]]
           terminal == [status |-> "interrupted", recovered |-> Orphans(s)]
<1>1. run \in RunRecord /\ run.stages \in Seq(StageRecord) /\ Len(run.stages) <= MaxStages
  BY DEF RunOK, RunRecord
<1>2. ASSUME NEW k \in DOMAIN run.stages PROVE interrupted[k] \in StageRecord
  <2>1. run.stages[k] \in StageRecord
    BY <1>1
  <2>2. [run.stages[k] EXCEPT !.status = "interrupted"] \in StageRecord
    BY <2>1 DEF StageRecord
  <2>3. QED
    BY <2>1, <2>2
<1>3. interrupted \in Seq(StageRecord) /\ Len(interrupted) = Len(run.stages)
  <2>1. DOMAIN run.stages = 1..Len(run.stages) /\ Len(run.stages) \in Nat
    BY <1>1
  <2>2. interrupted \in [1..Len(run.stages) -> StageRecord]
    BY <1>2, <2>1
  <2> HIDE DEF interrupted
  <2>3. QED
    BY <2>1, <2>2
<1>4. terminal \in TerminalRecord /\ "interrupted" \in Phases
  BY StageIdsType DEF TerminalRecord, TerminalPhases, Phases, Orphans
<1>5. run' = [run EXCEPT !.stages = interrupted, !.phase = "interrupted", !.terminal = terminal]
  BY <1>1 DEF Recover, RunRecord
<1> HIDE DEF interrupted, terminal
<1>6. QED
  BY <1>1, <1>3, <1>4, <1>5 DEF RunOK, RunRecord

LEMMA StageEndsType ==
  ASSUME TypeOK, NEW s \in Servers, NEW k \in StageIds, StageEnds(s, k) PROVE RunOK'
<1> USE DEF TypeOK
<1>1. k \in DOMAIN run.stages
  BY DEF StageEnds
<1>2. \A status \in Statuses, kind \in FailureKinds :
        /\ Ended(k, status, kind) \in RunRecord
        /\ Len(Ended(k, status, kind).stages) <= MaxStages
  BY <1>1, EndedType
<1>3. ASSUME NEW status \in Statuses, NEW kind \in FailureKinds, EndsPreserved(s, k, status, kind)
      PROVE  RunOK'
  BY <1>2, <1>3 DEF EndsPreserved, RunOK
<1>4. ASSUME NEW status \in Statuses, NEW kind \in FailureKinds, NEW phase \in Phases,
             NEW terminal \in {None} \cup TerminalRecord,
             run' = [Ended(k, status, kind) EXCEPT !.phase = phase, !.terminal = terminal]
      PROVE  RunOK'
  BY <1>2, <1>4 DEF RunOK, RunRecord
<1>5. ASSUME NEW status \in Statuses, NEW kind \in FailureKinds, NEW phase \in Phases,
             run' = [Ended(k, status, kind) EXCEPT !.phase = phase]
      PROVE  RunOK'
  BY <1>2, <1>5 DEF RunOK, RunRecord
<1>6. /\ {"writing", "checking", "reviewing", "failed", "interrupted"} \subseteq Phases
      /\ {"failed", "interrupted"} \subseteq TerminalPhases
      /\ {"completed", "failed", "interrupted"} \subseteq Statuses
      /\ ProviderKinds \cup {"none", "stale_review"} \subseteq FailureKinds
      /\ \A status \in TerminalPhases : Stopped(status) \in TerminalRecord
  BY DEF Phases, OpenPhases, TerminalPhases, Statuses, ProviderKinds, FailureKinds,
    TransientKinds, Stopped, TerminalRecord
<1>7. ASSUME NEW kind \in ProviderKinds, StageFails(s, k, kind) PROVE RunOK'
  <2> DEFINE phase == PhaseAfterFailure(k, kind)
             ended == Ended(k, "failed", kind)
             terminal == IF phase = "failed" THEN Stopped("failed") ELSE ended.terminal
  <2>1. phase \in Phases
    BY <1>6 DEF PhaseAfterFailure
  <2>2. ended \in RunRecord
    BY <1>2, <1>6
  <2>3. terminal \in {None} \cup TerminalRecord
    BY <1>6, <2>2 DEF RunRecord
  <2>4. run' = [ended EXCEPT !.phase = phase, !.terminal = terminal]
    BY <1>7, <2>2 DEF StageFails, RunRecord
  <2> HIDE DEF phase, terminal
  <2>5. QED
    BY <1>4, <1>6, <2>1, <2>3, <2>4
<1>8. CASE CriticStale(s, k)
  BY <1>5, <1>6, <1>8 DEF CriticStale
<1>9. ASSUME NEW forms \in SUBSET FindingForms, NEW question \in BOOLEAN,
             CriticCompletes(s, k, forms, question)
      PROVE  RunOK'
  <2> DEFINE ended == Ended(k, "completed", "none")
             fp == run.stages[k].fp
             cycle == ended.cycle + 1
  <2>1. fp \in Fingerprints
    BY <1>9, FingerprintType DEF CriticCompletes, DescribesCheckout
  <2>2. ended \in RunRecord /\ Len(ended.stages) <= MaxStages
    BY <1>2, <1>6
  <2>3. cycle \in Nat
    BY <2>2 DEF RunRecord
  <2>4. run' = [ended EXCEPT !.cycle = cycle, !.reviewSnapshot = fp, !.closeout = None,
                             !.summary = fp, !.phase = "reviewing"]
    BY <1>9, <2>2 DEF CriticCompletes, RunRecord
  <2> HIDE DEF ended, fp, cycle
  <2>5. QED
    BY <1>6, <2>1, <2>2, <2>3, <2>4 DEF RunOK, RunRecord
<1>10. CASE ImplementCompletes(s, k)
  BY <1>5, <1>6, <1>10 DEF ImplementCompletes
<1>11. CASE StageInterrupted(s, k)
  BY <1>4, <1>6, <1>11 DEF StageInterrupted
<1>12. CASE CallbackLost(s, k)
  BY <1>12 DEF CallbackLost, RunOK
<1>13. QED
  BY <1>3, <1>6, <1>7, <1>8, <1>9, <1>10, <1>11, <1>12 DEF StageEnds

LEMMA RunTypeOK == TypeOK /\ Next => RunOK'
<1> SUFFICES ASSUME TypeOK, Next PROVE RunOK'
  OBVIOUS
<1> USE DEF TypeOK
<1>1. ASSUME NEW p \in Paths, NEW c \in Contents, Edit(p, c) PROVE RunOK'
  BY <1>1 DEF Edit, RunOK
<1>2. CASE Commit
  BY <1>2 DEF Commit, RunOK
<1>3. ASSUME NEW h \in DOMAIN commits, Reset(h) PROVE RunOK'
  BY <1>3 DEF Reset, RunOK
<1>4. ASSUME NEW s \in Servers, NEW closeout \in BOOLEAN, PlanChecks(s, closeout)
      PROVE  RunOK'
  BY <1>4, PlanType
<1>5. ASSUME NEW s \in Servers, ExhaustCorrections(s) PROVE RunOK'
  BY <1>5, StopType DEF ExhaustCorrections, TerminalPhases
<1>6. ASSUME NEW s \in Servers, NEW name \in Checks, NEW ok \in BOOLEAN, RecordCheck(s,
             name, ok)
      PROVE  RunOK'
  BY <1>6, RecordCheckType
<1>7. ASSUME NEW s \in Servers, StartCritic(s) PROVE RunOK'
  BY <1>7, StartStageType DEF StartCritic
<1>8. ASSUME NEW s \in Servers, NEW k \in DOMAIN run.stages, RetryCritic(s, k) PROVE RunOK'
  <2>1. k \in Nat
    BY <1>8 DEF RunOK, RunRecord
  <2>2. QED
    BY <1>8, <2>1, StartStageType DEF RetryCritic
<1>9. ASSUME NEW s \in Servers, StartImplement(s) PROVE RunOK'
  BY <1>9, StartStageType DEF StartImplement
<1>10. ASSUME NEW s \in Servers, NEW k \in StageIds, CancelStage(s, k) PROVE RunOK'
  BY <1>10 DEF CancelStage, RunOK
<1>11. ASSUME NEW s \in Servers, ResolveFindings(s) PROVE RunOK'
  <2>1. review.fp \in Fingerprints
    BY <1>11 DEF ResolveFindings, ReviewOK, ReviewRecord
  <2>2. run' = Resolved(run, review, resolutions')
    BY <1>11 DEF ResolveFindings
  <2>3. QED
    BY <2>1, <2>2, ResolvedType DEF RunOK
<1>12. ASSUME NEW s \in Servers, NEW forms \in SUBSET FindingForms, NEW question \in
              BOOLEAN, SupplyReview(s, forms, question)
       PROVE  RunOK'
  <2> DEFINE cycle == run.cycle + 1
             fp == run.fp
             base == [run EXCEPT !.cycle = cycle, !.reviewSnapshot = fp]
  <2>1. run.fp = Fingerprint
    BY <1>12 DEF SupplyReview, SuppliedReviewAllowed, ResolutionAllowed, TreeChecked
  <2>2. cycle \in Nat /\ fp \in Fingerprints
    BY <2>1, FingerprintType DEF RunOK, RunRecord
  <2>3. run' = Resolved(base, review', resolutions')
    BY <1>12 DEF SupplyReview, RunOK, RunRecord
  <2>4. review'.fp \in Fingerprints
    BY <1>12, <2>1, FingerprintType DEF SupplyReview, RecordReview
  <2> HIDE DEF cycle, fp
  <2>5. base \in RunRecord /\ base.stages = run.stages
    BY <2>2 DEF RunOK, RunRecord
  <2> HIDE DEF base
  <2>6. run' \in RunRecord /\ run'.stages = base.stages
    BY <2>3, <2>4, <2>5, ResolvedType
  <2>7. QED
    BY <2>5, <2>6 DEF RunOK
<1>13. ASSUME NEW s \in Servers, NEW forms \in SUBSET FindingForms, NEW question \in
              BOOLEAN, SupplyReviewCrash(s, forms, question)
       PROVE  RunOK'
  BY <1>13 DEF SupplyReviewCrash, CrashAfterReviewSaved, RunOK
<1>14. ASSUME NEW s \in Servers, NEW status \in TerminalPhases, Finish(s, status)
       PROVE  RunOK'
  BY <1>14, StopType DEF Finish
<1>15. ASSUME NEW s \in Servers, FinishRefused(s) PROVE RunOK'
  BY <1>15, StopType DEF FinishRefused, TerminalPhases
<1>16. ASSUME NEW s \in Servers, Recover(s) PROVE RunOK'
  BY <1>16, RecoverType
<1>17. ASSUME NEW s \in Servers, Crash(s) PROVE RunOK'
  BY <1>17 DEF Crash, RunOK
<1>18. ASSUME NEW s \in Servers, NEW k \in StageIds, NEW forms \in SUBSET FindingForms, NEW
              question \in BOOLEAN, CriticCompletesCrash(s, k, forms, question)
       PROVE  RunOK'
  BY <1>18 DEF CriticCompletesCrash, CrashAfterReviewSaved, RunOK
<1>19. ASSUME NEW s \in Servers, NEW k \in StageIds, StageEnds(s, k) PROVE RunOK'
  BY <1>19, StageEndsType
<1>20. QED
  BY <1>1, <1>2, <1>3, <1>4, <1>5, <1>6, <1>7, <1>8, <1>9, <1>10, <1>11, <1>12, <1>13,
       <1>14, <1>15, <1>16, <1>17, <1>18, <1>19 DEF Next, Checkout, Handler, ServerCrash
----------------------------------------------------------------------------
(* review.json and _stages keep their shape.                               *)

LEMMA ReportedType ==
  ASSUME NEW forms \in SUBSET FindingForms, reports \in Seq(ReportRecord)
  PROVE  Reported(forms) \subseteq FindingRecord
<1>1. Len(reports) \in Nat
  OBVIOUS
<1>2. ASSUME NEW form \in forms
      PROVE  /\ form.name \in Names /\ form.file \in Paths
             /\ form.severity \in {"P0", "P1", "P2", "P3"}
             /\ [name |-> form.name, prior |-> << >>] \in [name : Names, prior : Seq(Nat)]
  BY RunAssumption DEF Names
<1>3. ASSUME NEW form \in forms
      PROVE  [id |-> [name |-> form.name, prior |-> << >>], severity |-> form.severity,
              file |-> form.file, uid |-> <<form.name, Len(reports)>>] \in FindingRecord
  <2> DEFINE id == [name |-> form.name, prior |-> << >>]
             uid == <<form.name, Len(reports)>>
  <2>1. id \in [name : Names, prior : Seq(Nat)] /\ uid \in Names \X Nat
    BY <1>1, <1>2
  <2> HIDE DEF id, uid
  <2>2. QED
    BY <1>2, <2>1 DEF FindingRecord, id, uid
<1>4. QED
  BY <1>3 DEF Reported

LEMMA CarriedType ==
  ASSUME review \in {None} \cup ReviewRecord, reports \in Seq(ReportRecord), NEW fresh
  PROVE  Carried(fresh) \subseteq FindingRecord
<1>1. CASE review = None
  BY <1>1 DEF Carried
<1>2. CASE review # None
  <2>1. review.findings \subseteq FindingRecord /\ Len(reports) \in Nat
    BY <1>2 DEF ReviewRecord
  <2>2. ASSUME NEW f \in FindingRecord
        PROVE  [f EXCEPT !.id.prior = Append(@, Len(reports))] \in FindingRecord
    <3>1. Append(f.id.prior, Len(reports)) \in Seq(Nat)
      BY <2>1 DEF FindingRecord
    <3>2. QED
      BY <3>1 DEF FindingRecord
  <2>3. Unsettled \subseteq FindingRecord
    BY <2>1 DEF Unsettled
  <2> DEFINE Renamed(f) == IF \E g \in fresh : g.id = f.id
                           THEN [f EXCEPT !.id.prior = Append(@, Len(reports))] ELSE f
  <2>4. \A f \in Unsettled : Renamed(f) \in FindingRecord
    BY <2>2, <2>3
  <2>5. Carried(fresh) = {Renamed(f) : f \in Unsettled}
    BY <1>2 DEF Carried
  <2> HIDE DEF Renamed
  <2>6. QED
    BY <2>4, <2>5
<1>3. QED
  BY <1>1, <1>2

LEMMA RecordedType ==
  ASSUME TypeOK, NEW forms \in SUBSET FindingForms, NEW question \in BOOLEAN, NEW origin \in Origins,
         NEW given, RecordReview(Reported(forms), question, origin, Fingerprint, head, given)
  PROVE  review' \in ReviewRecord
<1>1. Fingerprint \in Fingerprints /\ head \in Nat /\ run.cycle + 1 \in Nat
  BY FingerprintType DEF TypeOK, RunOK, RunRecord
<1>2. Reported(forms) \cup Carried(Reported(forms)) \in SUBSET FindingRecord
  BY ReportedType, CarriedType DEF TypeOK, ReviewOK
<1>3. QED
  BY <1>1, <1>2 DEF RecordReview, ReviewRecord, Origins

LEMMA ReviewTypeOK == TypeOK /\ Next => ReviewOK'
<1> SUFFICES ASSUME TypeOK, Next PROVE ReviewOK'
  OBVIOUS
<1> USE DEF TypeOK, ReviewOK
<1>1. CASE UNCHANGED <<reviewFile, history>>
  BY <1>1
<1>2. ASSUME NEW s \in Servers, ResolveFindings(s) PROVE ReviewOK'
  <2>1. PICK new \in ResolutionsOf(review.findings) : resolutions' = Merged(resolutions, new)
    BY <1>2 DEF ResolveFindings
  <2>2. \A id \in DOMAIN new : new[id] \in ResolutionForms
    BY DEF ResolutionsOf
  <2>3. \A id \in DOMAIN resolutions' : resolutions'[id] \in ResolutionForms
    BY <2>1, <2>2 DEF Merged
  <2>4. QED
    BY <1>2, <2>3 DEF ResolveFindings
<1>3. ASSUME NEW forms \in SUBSET FindingForms, NEW question \in BOOLEAN, NEW origin \in Origins,
             NEW given,
             RecordReview(Reported(forms), question, origin, Fingerprint, head, given),
             \A id \in DOMAIN given : given[id] \in ResolutionForms
      PROVE  ReviewOK'
  <2>1. review' \in ReviewRecord
    BY <1>3, RecordedType
  <2>2. [fp |-> Fingerprint, head |-> head, origin |-> origin] \in ReportRecord
    BY FingerprintType DEF ReportRecord, Origins
  <2>3. reports' \in Seq(ReportRecord)
    BY <1>3, <2>2 DEF RecordReview
  <2>4. QED
    BY <1>3, <2>1, <2>3 DEF RecordReview
<1>4. QED
  BY <1>1, <1>2, <1>3, ReviewFrame DEF ReviewStep, ReviewRecorded

LEMMA ActiveTypeOK == TypeOK /\ Next => ActiveOK'
<1> SUFFICES ASSUME TypeOK, Next PROVE ActiveOK'
  OBVIOUS
<1> USE DEF TypeOK
<1>1. ASSUME NEW p \in Paths, NEW c \in Contents, Edit(p, c) PROVE ActiveOK'
  BY <1>1 DEF Edit, ActiveOK
<1>2. CASE Commit
  BY <1>2 DEF Commit, ActiveOK
<1>3. ASSUME NEW h \in DOMAIN commits, Reset(h) PROVE ActiveOK'
  BY <1>3 DEF Reset, ActiveOK
<1>4. ASSUME NEW s \in Servers, NEW closeout \in BOOLEAN, PlanChecks(s, closeout)
      PROVE  ActiveOK'
  BY <1>4 DEF PlanChecks, ActiveOK
<1>5. ASSUME NEW s \in Servers, ExhaustCorrections(s) PROVE ActiveOK'
  BY <1>5 DEF ExhaustCorrections, ActiveOK
<1>6. ASSUME NEW s \in Servers, NEW name \in Checks, NEW ok \in BOOLEAN, RecordCheck(s,
             name, ok)
      PROVE  ActiveOK'
  BY <1>6 DEF RecordCheck, ActiveOK
<1>7. ASSUME NEW s \in Servers, StartCritic(s) PROVE ActiveOK'
  BY <1>7, StartStageType DEF StartCritic
<1>8. ASSUME NEW s \in Servers, NEW k \in DOMAIN run.stages, RetryCritic(s, k)
      PROVE  ActiveOK'
  <2>1. k \in Nat
    BY <1>8 DEF RunOK, RunRecord
  <2>2. QED
    BY <1>8, <2>1, StartStageType DEF RetryCritic
<1>9. ASSUME NEW s \in Servers, StartImplement(s) PROVE ActiveOK'
  BY <1>9, StartStageType DEF StartImplement
<1>10. ASSUME NEW s \in Servers, NEW k \in StageIds, CancelStage(s, k) PROVE ActiveOK'
  BY <1>10 DEF CancelStage, ActiveOK
<1>11. ASSUME NEW s \in Servers, ResolveFindings(s) PROVE ActiveOK'
  BY <1>11 DEF ResolveFindings, ActiveOK
<1>12. ASSUME NEW s \in Servers, NEW forms \in SUBSET FindingForms, NEW question \in
              BOOLEAN, SupplyReview(s, forms, question)
       PROVE  ActiveOK'
  BY <1>12 DEF SupplyReview, ActiveOK
<1>13. ASSUME NEW s \in Servers, NEW forms \in SUBSET FindingForms, NEW question \in
              BOOLEAN, SupplyReviewCrash(s, forms, question)
       PROVE  ActiveOK'
  BY <1>13 DEF SupplyReviewCrash, CrashAfterReviewSaved, ActiveOK, Idle
<1>14. ASSUME NEW s \in Servers, NEW status \in TerminalPhases, Finish(s, status)
       PROVE  ActiveOK'
  BY <1>14 DEF Finish, ActiveOK
<1>15. ASSUME NEW s \in Servers, FinishRefused(s) PROVE ActiveOK'
  BY <1>15 DEF FinishRefused, ActiveOK
<1>16. ASSUME NEW s \in Servers, Recover(s) PROVE ActiveOK'
  BY <1>16 DEF Recover, ActiveOK
<1>17. ASSUME NEW s \in Servers, Crash(s) PROVE ActiveOK'
  BY <1>17 DEF Crash, ActiveOK, Idle
<1>18. ASSUME NEW s \in Servers, NEW k \in StageIds, NEW forms \in SUBSET FindingForms, NEW
              question \in BOOLEAN, CriticCompletesCrash(s, k, forms, question)
       PROVE  ActiveOK'
  BY <1>18 DEF CriticCompletesCrash, CrashAfterReviewSaved, ActiveOK, Idle
<1>19. ASSUME NEW s \in Servers, NEW k \in StageIds, StageEnds(s, k) PROVE ActiveOK'
  <2>1. Publish(s, k)
    BY <1>19 DEF StageEnds, EndsPreserved, StageFails, CriticStale, CriticCompletes,
      ImplementCompletes, StageInterrupted, CallbackLost
  <2>2. QED
    BY <1>19, <2>1, PublishType
<1>20. QED
  BY <1>1, <1>2, <1>3, <1>4, <1>5, <1>6, <1>7, <1>8, <1>9, <1>10, <1>11, <1>12, <1>13,
       <1>14, <1>15, <1>16, <1>17, <1>18, <1>19 DEF Next, Checkout, Handler, ServerCrash

(* Every variable keeps its shape, and no budget is exceeded, whatever the *)
(* servers, the checkout and the processes do.                             *)
THEOREM TypeCorrect == Spec => []TypeOK
<1>1. TypeOK /\ [Next]_vars => TypeOK'
  <2>1. CASE Next
    BY <2>1, CheckoutTypeOK, RunTypeOK, ReviewTypeOK, ActiveTypeOK DEF TypeOK
  <2>2. CASE UNCHANGED vars
    BY <2>2 DEF TypeOK, CheckoutOK, RunOK, ReviewOK, ActiveOK
  <2>3. QED
    BY <2>1, <2>2
<1>2. QED
  BY <1>1, InitTypeOK, PTL DEF Spec
----------------------------------------------------------------------------
(* The phase and the terminal record agree.                                *)

LEMMA OpenMeansNoTerminal ==
  ASSUME RunOK, PhaseMatchesTerminal PROVE run.phase \notin TerminalPhases <=> run.terminal = None
<1>1. run.terminal \in {None} \cup TerminalRecord
  BY DEF RunOK, RunRecord
<1>2. QED
  BY <1>1 DEF PhaseMatchesTerminal, TerminalRecord, OpenPhases, TerminalPhases

LEMMA StoppedMatches ==
  ASSUME NEW status \in TerminalPhases, run'.phase = status, run'.terminal = Stopped(status)
  PROVE  PhaseMatchesTerminal'
<1>1. Stopped(status) # None /\ Stopped(status).status = status
  BY NoneAssumption DEF Stopped, TerminalRecord
<1>2. QED
  BY <1>1 DEF PhaseMatchesTerminal

LEMMA StartStageMatches ==
  ASSUME RunOK, PhaseMatchesTerminal, run.phase \in OpenPhases,
         NEW s, NEW profile, NEW retryOf, StartStage(s, profile, retryOf)
  PROVE  PhaseMatchesTerminal'
<1> DEFINE stage == NewStage(profile, "running", "none", retryOf)
<1>1. run.terminal = None
  BY OpenMeansNoTerminal DEF OpenPhases, TerminalPhases
<1>2. CASE Launch(s, stage, retryOf # 0)
  <2>1. run'.phase \in {"reviewing", run.phase} /\ run'.terminal = run.terminal
    BY <1>2 DEF Launch, RunOK, RunRecord
  <2>2. QED
    BY <1>1, <2>1 DEF PhaseMatchesTerminal, OpenPhases
<1>3. CASE LaunchFails(stage, retryOf # 0)
  <2>1. run'.phase = "failed" /\ run'.terminal = Stopped("failed")
    BY <1>3 DEF LaunchFails, RunOK, RunRecord
  <2>2. QED
    BY <2>1, StoppedMatches DEF TerminalPhases
<1>4. CASE CooldownSkips(profile)
  <2>1. CASE profile = "critic"
    <3>1. run'.phase = "reviewing" /\ run'.terminal = run.terminal
      BY <1>4, <2>1 DEF CooldownSkips, RunOK, RunRecord
    <3>2. QED
      BY <1>1, <3>1 DEF PhaseMatchesTerminal, OpenPhases
  <2>2. CASE profile # "critic"
    <3>1. run'.phase = "failed" /\ run'.terminal = Stopped("failed")
      BY <1>4, <2>2 DEF CooldownSkips, RunOK, RunRecord
    <3>2. QED
      BY <3>1, StoppedMatches DEF TerminalPhases
  <2>3. QED
    BY <2>1, <2>2
<1>5. QED
  BY <1>2, <1>3, <1>4 DEF StartStage

LEMMA ResolvedMatches ==
  ASSUME NEW base, DOMAIN base = DOMAIN run, RunOK, base.terminal = None,
         NEW current, NEW given, run' = Resolved(base, current, given)
  PROVE  PhaseMatchesTerminal'
<1>1. {"phase", "terminal", "summary"} \subseteq DOMAIN base
  BY DEF RunOK, RunRecord
<1>2. \/ run'.phase = "needs_human" /\ run'.terminal = Stopped("needs_human")
      \/ run'.phase \in {"correcting", "reviewing"} /\ run'.terminal = None
  BY <1>1 DEF Resolved
<1>3. CASE run'.phase = "needs_human" /\ run'.terminal = Stopped("needs_human")
  BY <1>3, StoppedMatches DEF TerminalPhases
<1>4. CASE run'.phase \in {"correcting", "reviewing"} /\ run'.terminal = None
  BY <1>4 DEF PhaseMatchesTerminal, OpenPhases
<1>5. QED
  BY <1>2, <1>3, <1>4

(* A late callback keeps both when the run was stopped for another reason; *)
(* otherwise it leaves no terminal record but the one it writes itself.    *)
LEMMA StageEndsMatches ==
  ASSUME TypeOK, PhaseMatchesTerminal, NEW s \in Servers, NEW k \in StageIds, StageEnds(s, k)
  PROVE  PhaseMatchesTerminal'
<1> USE DEF TypeOK
<1>1. k \in DOMAIN run.stages
  BY DEF StageEnds
<1>2. ASSUME NEW status \in Statuses, NEW kind \in FailureKinds
      PROVE  /\ DOMAIN Ended(k, status, kind) = DOMAIN run
             /\ Ended(k, status, kind).phase = run.phase
             /\ Preserved(k) => Ended(k, status, kind).terminal = run.terminal
             /\ ~Preserved(k) => Ended(k, status, kind).terminal = None
  BY DEF Ended, Preserved, Revived, RunOK, RunRecord
<1>3. {"phase", "terminal"} \subseteq DOMAIN run
  BY DEF RunOK, RunRecord
<1>4. /\ {"completed", "failed", "interrupted"} \subseteq Statuses
      /\ ProviderKinds \cup {"none", "stale_review"} \subseteq FailureKinds
      /\ {"failed", "interrupted"} \subseteq TerminalPhases
  BY DEF Statuses, ProviderKinds, FailureKinds, TransientKinds, TerminalPhases
<1>5. ASSUME NEW status \in Statuses, NEW kind \in FailureKinds, EndsPreserved(s, k, status, kind)
      PROVE  PhaseMatchesTerminal'
  BY <1>2, <1>5 DEF EndsPreserved, PhaseMatchesTerminal
<1>6. ASSUME NEW kind \in ProviderKinds, StageFails(s, k, kind) PROVE PhaseMatchesTerminal'
  <2> DEFINE ended == Ended(k, "failed", kind)
  <2>1. DOMAIN ended = DOMAIN run /\ ended.terminal = None
    BY <1>2, <1>4, <1>6 DEF StageFails
  <2>2. run' = [ended EXCEPT
                  !.phase = PhaseAfterFailure(k, kind),
                  !.terminal = IF PhaseAfterFailure(k, kind) = "failed" THEN Stopped("failed") ELSE @]
    BY <1>6 DEF StageFails
  <2> HIDE DEF ended
  <2>3. CASE PhaseAfterFailure(k, kind) = "failed"
    <3>1. run'.phase = "failed" /\ run'.terminal = Stopped("failed")
      BY <1>3, <2>1, <2>2, <2>3
    <3>2. QED
      BY <1>4, <3>1, StoppedMatches
  <2>4. CASE PhaseAfterFailure(k, kind) # "failed"
    <3>1. run'.phase \in {"reviewing", "checking"} /\ run'.terminal = None
      BY <1>3, <2>1, <2>2, <2>4 DEF PhaseAfterFailure
    <3>2. QED
      BY <3>1 DEF PhaseMatchesTerminal, OpenPhases
  <2>5. QED
    BY <2>3, <2>4
<1>7. ASSUME NEW status \in {"completed", "failed"}, NEW kind \in {"none", "stale_review"},
             ~Preserved(k), run'.phase \in OpenPhases,
             run'.terminal = Ended(k, status, kind).terminal
      PROVE  PhaseMatchesTerminal'
  BY <1>2, <1>4, <1>7 DEF PhaseMatchesTerminal
<1>8. CASE CriticStale(s, k)
  <2>1. DOMAIN Ended(k, "failed", "stale_review") = DOMAIN run
    BY <1>2, <1>4
  <2>2. /\ ~Preserved(k) /\ run'.phase = "checking"
        /\ run'.terminal = Ended(k, "failed", "stale_review").terminal
    BY <1>3, <1>8, <2>1 DEF CriticStale
  <2>3. QED
    BY <1>7, <2>2 DEF OpenPhases
<1>9. ASSUME NEW forms \in SUBSET FindingForms, NEW question \in BOOLEAN,
             CriticCompletes(s, k, forms, question)
      PROVE  PhaseMatchesTerminal'
  <2>1. DOMAIN Ended(k, "completed", "none") = DOMAIN run
    BY <1>2, <1>4
  <2>2. /\ ~Preserved(k) /\ run'.phase = "reviewing"
        /\ run'.terminal = Ended(k, "completed", "none").terminal
    BY <1>3, <1>9, <2>1 DEF CriticCompletes
  <2>3. QED
    BY <1>7, <2>2 DEF OpenPhases
<1>10. CASE ImplementCompletes(s, k)
  <2>1. DOMAIN Ended(k, "completed", "none") = DOMAIN run
    BY <1>2, <1>4
  <2>2. /\ ~Preserved(k) /\ run'.phase = "writing"
        /\ run'.terminal = Ended(k, "completed", "none").terminal
    BY <1>3, <1>10, <2>1 DEF ImplementCompletes
  <2>3. QED
    BY <1>7, <2>2 DEF OpenPhases
<1>11. CASE StageInterrupted(s, k)
  <2>1. DOMAIN Ended(k, "interrupted", "none") = DOMAIN run
    BY <1>2, <1>4
  <2>2. run'.phase = "interrupted" /\ run'.terminal = Stopped("interrupted")
    BY <1>3, <1>11, <2>1 DEF StageInterrupted
  <2>3. QED
    BY <1>4, <2>2, StoppedMatches
<1>12. CASE CallbackLost(s, k)
  BY <1>12 DEF CallbackLost, PhaseMatchesTerminal
<1>13. QED
  BY <1>4, <1>5, <1>6, <1>8, <1>9, <1>10, <1>11, <1>12 DEF StageEnds

LEMMA PhaseMatchesStep == TypeOK /\ PhaseMatchesTerminal /\ Next => PhaseMatchesTerminal'
<1> SUFFICES ASSUME TypeOK, PhaseMatchesTerminal, Next PROVE PhaseMatchesTerminal'
  OBVIOUS
<1> USE DEF TypeOK, RunOK, PhaseMatchesTerminal
<1>1. ASSUME NEW p \in Paths, NEW c \in Contents, Edit(p, c) PROVE PhaseMatchesTerminal'
  BY <1>1 DEF Edit
<1>2. CASE Commit
  BY <1>2 DEF Commit
<1>3. ASSUME NEW h \in DOMAIN commits, Reset(h) PROVE PhaseMatchesTerminal'
  BY <1>3 DEF Reset
<1>4. ASSUME NEW s \in Servers, NEW closeout \in BOOLEAN, PlanChecks(s, closeout)
      PROVE  PhaseMatchesTerminal'
  <2>1. run'.phase = "checking" /\ run'.terminal = run.terminal
    BY <1>4 DEF PlanChecks, RunRecord
  <2>2. run.terminal = None
    BY <1>4, OpenMeansNoTerminal DEF PlanChecks, PlanAccepted, Open
  <2>3. QED
    BY <2>1, <2>2 DEF OpenPhases
<1>5. ASSUME NEW s \in Servers, ExhaustCorrections(s) PROVE PhaseMatchesTerminal'
  <2>1. run'.phase = "needs_human" /\ run'.terminal = Stopped("needs_human")
    BY <1>5 DEF ExhaustCorrections, RunRecord
  <2>2. QED
    BY <2>1, StoppedMatches DEF TerminalPhases
<1>6. ASSUME NEW s \in Servers, NEW name \in Checks, NEW ok \in BOOLEAN, RecordCheck(s,
             name, ok)
      PROVE  PhaseMatchesTerminal'
  BY <1>6 DEF RecordCheck, RunRecord
<1>7. ASSUME NEW s \in Servers, StartCritic(s) PROVE PhaseMatchesTerminal'
  BY <1>7, StartStageMatches DEF StartCritic, CriticAllowed, OpenPhases
<1>8. ASSUME NEW s \in Servers, NEW k \in DOMAIN run.stages, RetryCritic(s, k)
      PROVE  PhaseMatchesTerminal'
  BY <1>8, StartStageMatches DEF RetryCritic, CriticAllowed, OpenPhases
<1>9. ASSUME NEW s \in Servers, StartImplement(s) PROVE PhaseMatchesTerminal'
  BY <1>9, StartStageMatches DEF StartImplement, OpenPhases
<1>10. ASSUME NEW s \in Servers, NEW k \in StageIds, CancelStage(s, k)
       PROVE  PhaseMatchesTerminal'
  BY <1>10 DEF CancelStage
<1>11. ASSUME NEW s \in Servers, ResolveFindings(s) PROVE PhaseMatchesTerminal'
  <2>1. run.terminal = None
    BY <1>11, OpenMeansNoTerminal DEF ResolveFindings, ResolutionAllowed, Open
  <2>2. run' = Resolved(run, review, resolutions')
    BY <1>11 DEF ResolveFindings
  <2>3. QED
    BY <2>1, <2>2, ResolvedMatches
<1>12. ASSUME NEW s \in Servers, NEW forms \in SUBSET FindingForms, NEW question \in
              BOOLEAN, SupplyReview(s, forms, question)
       PROVE  PhaseMatchesTerminal'
  <2> DEFINE base == [run EXCEPT !.cycle = @ + 1, !.reviewSnapshot = run.fp]
  <2>1. run.terminal = None
    BY <1>12, OpenMeansNoTerminal DEF SupplyReview, SuppliedReviewAllowed, ResolutionAllowed, Open
  <2>2. run' = Resolved(base, review', resolutions')
    BY <1>12 DEF SupplyReview
  <2>3. DOMAIN base = DOMAIN run /\ base.terminal = run.terminal
    BY DEF RunRecord
  <2> HIDE DEF base
  <2>4. QED
    BY <2>1, <2>2, <2>3, ResolvedMatches
<1>13. ASSUME NEW s \in Servers, NEW forms \in SUBSET FindingForms, NEW question \in
              BOOLEAN, SupplyReviewCrash(s, forms, question)
       PROVE  PhaseMatchesTerminal'
  BY <1>13 DEF SupplyReviewCrash, CrashAfterReviewSaved
<1>14. ASSUME NEW s \in Servers, NEW status \in TerminalPhases, Finish(s, status)
       PROVE  PhaseMatchesTerminal'
  <2>1. run'.phase = status /\ run'.terminal = Stopped(status)
    BY <1>14 DEF Finish, RunRecord
  <2>2. QED
    BY <2>1, StoppedMatches
<1>15. ASSUME NEW s \in Servers, FinishRefused(s) PROVE PhaseMatchesTerminal'
  <2>1. run'.phase = "needs_human" /\ run'.terminal = Stopped("needs_human")
    BY <1>15 DEF FinishRefused, RunRecord
  <2>2. QED
    BY <2>1, StoppedMatches DEF TerminalPhases
<1>16. ASSUME NEW s \in Servers, Recover(s) PROVE PhaseMatchesTerminal'
  <2>1. /\ run'.phase = "interrupted"
        /\ run'.terminal = [status |-> "interrupted", recovered |-> Orphans(s)]
    BY <1>16 DEF Recover, RunRecord
  <2>2. run'.terminal \in TerminalRecord
    BY <2>1, StageIdsType DEF TerminalRecord, TerminalPhases, Orphans
  <2>3. QED
    BY <2>1, <2>2, NoneAssumption
<1>17. ASSUME NEW s \in Servers, Crash(s) PROVE PhaseMatchesTerminal'
  BY <1>17 DEF Crash
<1>18. ASSUME NEW s \in Servers, NEW k \in StageIds, NEW forms \in SUBSET FindingForms, NEW
              question \in BOOLEAN, CriticCompletesCrash(s, k, forms, question)
       PROVE  PhaseMatchesTerminal'
  BY <1>18 DEF CriticCompletesCrash, CrashAfterReviewSaved
<1>19. ASSUME NEW s \in Servers, NEW k \in StageIds, StageEnds(s, k)
       PROVE  PhaseMatchesTerminal'
  BY <1>19, StageEndsMatches
<1>20. QED
  BY <1>1, <1>2, <1>3, <1>4, <1>5, <1>6, <1>7, <1>8, <1>9, <1>10, <1>11, <1>12, <1>13,
       <1>14, <1>15, <1>16, <1>17, <1>18, <1>19 DEF Next, Checkout, Handler, ServerCrash

(* The phase of every reachable state.json is terminal exactly when its    *)
(* terminal record is there, and they name the same outcome.               *)
THEOREM PhaseAlwaysMatches == Spec => []PhaseMatchesTerminal
<1>1. Init => PhaseMatchesTerminal
  BY DEF Init, PhaseMatchesTerminal, OpenPhases
<1>2. TypeOK /\ PhaseMatchesTerminal /\ [Next]_vars => PhaseMatchesTerminal'
  BY PhaseMatchesStep DEF PhaseMatchesTerminal
<1>3. QED
  BY <1>1, <1>2, TypeCorrect, PTL DEF Spec
----------------------------------------------------------------------------
(* A complete run is final.                                                *)

(* What a step from a complete run may do.                                 *)
CompleteStep ==
  /\ run' = [run EXCEPT !.stages = run'.stages]
  /\ UNCHANGED <<reviewFile, history>>
  /\ CompleteIsQuiet'

LEMMA RunItself == RunOK => run = [run EXCEPT !.stages = run.stages]
  BY DEF RunOK, RunRecord

LEMMA QuietStageEnds ==
  ASSUME TypeOK, PhaseMatchesTerminal, CompleteIsQuiet, run.phase = "complete",
         NEW s \in Servers, NEW k \in StageIds, StageEnds(s, k)
  PROVE  CompleteStep
<1>1. run.terminal # None /\ run.terminal.recovered = {}
  BY DEF CompleteIsQuiet, PhaseMatchesTerminal, OpenPhases
<1>2. Preserved(k) /\ ~Revived(k)
  BY <1>1 DEF Preserved, Revived
<1>3. k \in DOMAIN run.stages /\ run \in RunRecord
  BY DEF StageEnds, TypeOK, RunOK
<1>4. CASE CallbackLost(s, k)
  <2>1. UNCHANGED <<run, reviewFile, history>>
    BY <1>4 DEF CallbackLost
  <2>2. QED
    BY <2>1, RunItself DEF CompleteStep, CompleteIsQuiet, Running, TypeOK
<1>5. ASSUME NEW status \in {"completed", "failed", "interrupted"}, NEW kind,
             EndsPreserved(s, k, status, kind)
      PROVE  CompleteStep
  <2> DEFINE stage == [run.stages[k] EXCEPT !.status = status, !.kind = kind]
             updated == [run.stages EXCEPT ![k] = stage]
  <2>1. run' = [run EXCEPT !.stages = updated]
    BY <1>2, <1>3, <1>5 DEF EndsPreserved, Ended, RunRecord
  <2>2. DOMAIN updated = DOMAIN run.stages
    OBVIOUS
  <2>3. stage.status = status
    BY <1>3 DEF RunRecord, StageRecord
  <2>4. \A j \in DOMAIN updated : updated[j].status # "running"
    <3>1. ASSUME NEW j \in DOMAIN run.stages PROVE updated[j].status # "running"
      <4>1. CASE j = k
        BY <1>3, <2>3, <4>1
      <4>2. CASE j # k
        BY <4>2 DEF CompleteIsQuiet, Running
      <4>3. QED
        BY <4>1, <4>2
    <3>2. QED
      BY <2>2, <3>1
  <2> HIDE DEF stage, updated
  <2>5. run'.stages = updated /\ run'.terminal = run.terminal /\ run'.phase = run.phase
    BY <1>3, <2>1 DEF RunRecord
  <2>6. CompleteIsQuiet'
    BY <1>1, <2>4, <2>5 DEF CompleteIsQuiet, Running
  <2>7. QED
    BY <1>5, <2>1, <2>5, <2>6 DEF CompleteStep, EndsPreserved
<1>6. QED
  BY <1>2, <1>4, <1>5 DEF StageEnds, StageFails, CriticStale, CriticCompletes, ImplementCompletes,
    StageInterrupted

LEMMA CompleteStays ==
  ASSUME TypeOK, PhaseMatchesTerminal, CompleteIsQuiet, run.phase = "complete", Next
  PROVE  CompleteStep
<1> USE DEF TypeOK
<1>0. /\ run.terminal # None /\ run.terminal.recovered = {}
      /\ \A k \in DOMAIN run.stages : ~Running(k)
  BY DEF CompleteIsQuiet, PhaseMatchesTerminal, OpenPhases
<1>1. ASSUME NEW p \in Paths, NEW c \in Contents, Edit(p, c) PROVE CompleteStep
  BY <1>1, RunItself DEF Edit, CompleteStep, CompleteIsQuiet, Running
<1>2. CASE Commit
  BY <1>2, RunItself DEF Commit, CompleteStep, CompleteIsQuiet, Running
<1>3. ASSUME NEW h \in DOMAIN commits, Reset(h) PROVE CompleteStep
  BY <1>3, RunItself DEF Reset, CompleteStep, CompleteIsQuiet, Running
<1>4. ASSUME NEW s \in Servers, NEW closeout \in BOOLEAN, PlanChecks(s, closeout)
      PROVE  CompleteStep
  BY <1>4 DEF PlanChecks, PlanAccepted, Open, TerminalPhases
<1>5. ASSUME NEW s \in Servers, ExhaustCorrections(s) PROVE CompleteStep
  BY <1>5 DEF ExhaustCorrections, PlanAccepted, Open, TerminalPhases
<1>6. ASSUME NEW s \in Servers, NEW name \in Checks, NEW ok \in BOOLEAN, RecordCheck(s,
             name, ok)
      PROVE  CompleteStep
  BY <1>6 DEF RecordCheck
<1>7. ASSUME NEW s \in Servers, StartCritic(s) PROVE CompleteStep
  BY <1>7 DEF StartCritic, CriticAllowed
<1>8. ASSUME NEW s \in Servers, NEW k \in DOMAIN run.stages, RetryCritic(s, k)
      PROVE  CompleteStep
  BY <1>8 DEF RetryCritic, CriticAllowed
<1>9. ASSUME NEW s \in Servers, StartImplement(s) PROVE CompleteStep
  BY <1>9 DEF StartImplement
<1>10. ASSUME NEW s \in Servers, NEW k \in StageIds, CancelStage(s, k) PROVE CompleteStep
  BY <1>10, RunItself DEF CancelStage, CompleteStep, CompleteIsQuiet, Running
<1>11. ASSUME NEW s \in Servers, ResolveFindings(s) PROVE CompleteStep
  BY <1>11 DEF ResolveFindings, ResolutionAllowed, Open, TerminalPhases
<1>12. ASSUME NEW s \in Servers, NEW forms \in SUBSET FindingForms, NEW question \in
              BOOLEAN, SupplyReview(s, forms, question)
       PROVE  CompleteStep
  BY <1>12 DEF SupplyReview, SuppliedReviewAllowed, ResolutionAllowed, Open, TerminalPhases
<1>13. ASSUME NEW s \in Servers, NEW forms \in SUBSET FindingForms, NEW question \in
              BOOLEAN, SupplyReviewCrash(s, forms, question)
       PROVE  CompleteStep
  BY <1>13 DEF SupplyReviewCrash, SuppliedReviewAllowed, ResolutionAllowed, Open,
      TerminalPhases
<1>14. ASSUME NEW s \in Servers, NEW status \in TerminalPhases, Finish(s, status)
       PROVE  CompleteStep
  BY <1>14, <1>0 DEF Finish, FinishAllowed
<1>15. ASSUME NEW s \in Servers, FinishRefused(s) PROVE CompleteStep
  BY <1>15, <1>0 DEF FinishRefused, FinishAllowed
<1>16. ASSUME NEW s \in Servers, Recover(s) PROVE CompleteStep
  BY <1>16, <1>0 DEF Recover, Orphans
<1>17. ASSUME NEW s \in Servers, Crash(s) PROVE CompleteStep
  BY <1>17, RunItself DEF Crash, CompleteStep, CompleteIsQuiet, Running
<1>18. ASSUME NEW s \in Servers, NEW k \in StageIds, NEW forms \in SUBSET FindingForms, NEW
              question \in BOOLEAN, CriticCompletesCrash(s, k, forms, question)
       PROVE  CompleteStep
  BY <1>18, <1>0 DEF CriticCompletesCrash, Preserved
<1>19. ASSUME NEW s \in Servers, NEW k \in StageIds, StageEnds(s, k) PROVE CompleteStep
  BY <1>19, QuietStageEnds
<1>20. QED
  BY <1>1, <1>2, <1>3, <1>4, <1>5, <1>6, <1>7, <1>8, <1>9, <1>10, <1>11, <1>12, <1>13,
       <1>14, <1>15, <1>16, <1>17, <1>18, <1>19 DEF Next, Checkout, Handler, ServerCrash

LEMMA NotCompleteByStart ==
  ASSUME RunOK, run.phase # "complete", NEW s, NEW profile, NEW retryOf,
         StartStage(s, profile, retryOf)
  PROVE  run'.phase # "complete"
  BY DEF StartStage, Launch, LaunchFails, CooldownSkips, RunOK, RunRecord

LEMMA NotCompleteByEnd ==
  ASSUME RunOK, run.phase # "complete", NEW s \in Servers, NEW k \in StageIds, StageEnds(s, k)
  PROVE  run'.phase # "complete"
<1>1. \A status, kind : /\ "phase" \in DOMAIN Ended(k, status, kind)
                       /\ Ended(k, status, kind).phase = run.phase
  BY DEF Ended, RunOK, RunRecord
<1>2. \A status, kind : EndsPreserved(s, k, status, kind) => run'.phase = run.phase
  BY <1>1 DEF EndsPreserved
<1>3. \A kind : StageFails(s, k, kind) => run'.phase = PhaseAfterFailure(k, kind)
  BY <1>1 DEF StageFails
<1>4. \A kind : PhaseAfterFailure(k, kind) # "complete"
  BY DEF PhaseAfterFailure
<1>5. CriticStale(s, k) => run'.phase = "checking"
  BY <1>1 DEF CriticStale
<1>6. \A forms, question : CriticCompletes(s, k, forms, question) => run'.phase = "reviewing"
  BY <1>1 DEF CriticCompletes
<1>7. ImplementCompletes(s, k) => run'.phase = "writing"
  BY <1>1 DEF ImplementCompletes
<1>8. StageInterrupted(s, k) => run'.phase = "interrupted"
  BY <1>1 DEF StageInterrupted
<1>9. CallbackLost(s, k) => run'.phase = run.phase
  BY DEF CallbackLost
<1>10. QED
  BY <1>2, <1>3, <1>4, <1>5, <1>6, <1>7, <1>8, <1>9 DEF StageEnds

(* Only finish_run completes a run.                                        *)
LEMMA OnlyFinishCompletes ==
  ASSUME RunOK, run.phase # "complete", Next, run'.phase = "complete"
  PROVE  \E s \in Servers : Finish(s, "complete")
<1> SUFFICES ASSUME ~\E s \in Servers : Finish(s, "complete") PROVE run'.phase # "complete"
  OBVIOUS
<1>0. ~\E s \in Servers : Finish(s, "complete")
  OBVIOUS
<1> USE DEF RunOK
<1>1. ASSUME NEW p \in Paths, NEW c \in Contents, Edit(p, c) PROVE run'.phase # "complete"
  BY <1>1 DEF Edit
<1>2. CASE Commit
  BY <1>2 DEF Commit
<1>3. ASSUME NEW h \in DOMAIN commits, Reset(h) PROVE run'.phase # "complete"
  BY <1>3 DEF Reset
<1>4. ASSUME NEW s \in Servers, NEW closeout \in BOOLEAN, PlanChecks(s, closeout)
      PROVE  run'.phase # "complete"
  BY <1>4 DEF PlanChecks, RunRecord
<1>5. ASSUME NEW s \in Servers, ExhaustCorrections(s) PROVE run'.phase # "complete"
  BY <1>5 DEF ExhaustCorrections, RunRecord
<1>6. ASSUME NEW s \in Servers, NEW name \in Checks, NEW ok \in BOOLEAN, RecordCheck(s,
             name, ok)
      PROVE  run'.phase # "complete"
  BY <1>6 DEF RecordCheck, RunRecord
<1>7. ASSUME NEW s \in Servers, StartCritic(s) PROVE run'.phase # "complete"
  BY <1>7, NotCompleteByStart DEF StartCritic
<1>8. ASSUME NEW s \in Servers, NEW k \in DOMAIN run.stages, RetryCritic(s, k)
      PROVE  run'.phase # "complete"
  BY <1>8, NotCompleteByStart DEF RetryCritic
<1>9. ASSUME NEW s \in Servers, StartImplement(s) PROVE run'.phase # "complete"
  BY <1>9, NotCompleteByStart DEF StartImplement
<1>10. ASSUME NEW s \in Servers, NEW k \in StageIds, CancelStage(s, k)
       PROVE  run'.phase # "complete"
  BY <1>10 DEF CancelStage
<1>11. ASSUME NEW s \in Servers, ResolveFindings(s) PROVE run'.phase # "complete"
  BY <1>11 DEF ResolveFindings, Resolved, RunRecord
<1>12. ASSUME NEW s \in Servers, NEW forms \in SUBSET FindingForms, NEW question \in
              BOOLEAN, SupplyReview(s, forms, question)
       PROVE  run'.phase # "complete"
  BY <1>12 DEF SupplyReview, Resolved, RunRecord
<1>13. ASSUME NEW s \in Servers, NEW forms \in SUBSET FindingForms, NEW question \in
              BOOLEAN, SupplyReviewCrash(s, forms, question)
       PROVE  run'.phase # "complete"
  BY <1>13 DEF SupplyReviewCrash, CrashAfterReviewSaved
<1>14. ASSUME NEW s \in Servers, NEW status \in TerminalPhases, Finish(s, status)
       PROVE  run'.phase # "complete"
  BY <1>14, <1>0 DEF Finish, RunRecord
<1>15. ASSUME NEW s \in Servers, FinishRefused(s) PROVE run'.phase # "complete"
  BY <1>15 DEF FinishRefused, RunRecord
<1>16. ASSUME NEW s \in Servers, Recover(s) PROVE run'.phase # "complete"
  BY <1>16 DEF Recover, RunRecord
<1>17. ASSUME NEW s \in Servers, Crash(s) PROVE run'.phase # "complete"
  BY <1>17 DEF Crash
<1>18. ASSUME NEW s \in Servers, NEW k \in StageIds, NEW forms \in SUBSET FindingForms, NEW
              question \in BOOLEAN, CriticCompletesCrash(s, k, forms, question)
       PROVE  run'.phase # "complete"
  BY <1>18 DEF CriticCompletesCrash, CrashAfterReviewSaved
<1>19. ASSUME NEW s \in Servers, NEW k \in StageIds, StageEnds(s, k)
       PROVE  run'.phase # "complete"
  BY <1>19, NotCompleteByEnd
<1>20. QED
  BY <1>1, <1>2, <1>3, <1>4, <1>5, <1>6, <1>7, <1>8, <1>9, <1>10, <1>11, <1>12, <1>13,
       <1>14, <1>15, <1>16, <1>17, <1>18, <1>19 DEF Next, Checkout, Handler, ServerCrash

LEMMA FinishesQuietly ==
  ASSUME RunOK, NEW s \in Servers, Finish(s, "complete") PROVE CompleteIsQuiet'
<1>1. \A k \in DOMAIN run.stages : ~Running(k)
  BY DEF Finish, FinishAllowed, Serves, Orphans
<1>2. /\ run'.stages = run.stages
      /\ run'.terminal.recovered = {}
  BY DEF Finish, Stopped, RunOK, RunRecord
<1>3. QED
  BY <1>1, <1>2 DEF CompleteIsQuiet, Running

LEMMA QuietStep == TypeOK /\ PhaseMatchesTerminal /\ CompleteIsQuiet /\ Next => CompleteIsQuiet'
<1> SUFFICES ASSUME TypeOK, PhaseMatchesTerminal, CompleteIsQuiet, Next PROVE CompleteIsQuiet'
  OBVIOUS
<1>1. CASE run.phase = "complete"
  BY <1>1, CompleteStays DEF CompleteStep
<1>2. CASE run.phase # "complete" /\ run'.phase = "complete"
  BY <1>2, OnlyFinishCompletes, FinishesQuietly DEF TypeOK
<1>3. CASE run'.phase # "complete"
  BY <1>3 DEF CompleteIsQuiet
<1>4. QED
  BY <1>1, <1>2, <1>3

(* A complete run has no stage left that anything could still reopen.      *)
THEOREM CompleteAlwaysQuiet == Spec => []CompleteIsQuiet
<1>1. Init => CompleteIsQuiet
  BY DEF Init, CompleteIsQuiet
<1>2. CompleteIsQuiet /\ UNCHANGED vars => CompleteIsQuiet'
  BY DEF CompleteIsQuiet, Running
<1>3. TypeOK /\ PhaseMatchesTerminal /\ CompleteIsQuiet /\ [Next]_vars => CompleteIsQuiet'
  BY <1>2, QuietStep
<1>4. QED
  BY <1>1, <1>3, TypeCorrect, PhaseAlwaysMatches, PTL DEF Spec

(* No step of any server, process or user changes the verdict of a run     *)
(* finished as complete, its evidence or its review.                       *)
THEOREM CompleteStaysComplete == Spec => CompleteIsFinal
<1>1. TypeOK /\ PhaseMatchesTerminal /\ CompleteIsQuiet /\ [Next]_vars
        => [run.phase = "complete" => /\ run' = [run EXCEPT !.stages = run'.stages]
                                     /\ UNCHANGED reviewFile]_vars
  BY CompleteStays DEF CompleteStep
<1>2. QED
  BY <1>1, TypeCorrect, PhaseAlwaysMatches, CompleteAlwaysQuiet, PTL DEF Spec, CompleteIsFinal
----------------------------------------------------------------------------
(* Findings are never lost.                                                *)

(* Renaming a carried finding keeps which report raised it.                *)
LEMMA CarriedKeepsUid ==
  ASSUME review \in ReviewRecord, NEW fresh, NEW f \in Unsettled
  PROVE  \E g \in Carried(fresh) : g.uid = f.uid
<1>1. review # None
  BY NoneAssumption
<1>2. f \in FindingRecord
  BY DEF Unsettled, ReviewRecord
<1> DEFINE renamed == [f EXCEPT !.id.prior = Append(@, Len(reports))]
<1>3. renamed.uid = f.uid
  BY <1>2 DEF FindingRecord
<1>4. CASE \E g \in fresh : g.id = f.id
  <2>1. renamed \in Carried(fresh)
    BY <1>1, <1>4 DEF Carried
  <2>2. QED
    BY <1>3, <2>1
<1>5. CASE ~\E g \in fresh : g.id = f.id
  <2>1. f \in Carried(fresh)
    BY <1>1, <1>5 DEF Carried
  <2>2. QED
    BY <2>1
<1>6. QED
  BY <1>4, <1>5

LEMMA RecordKeepsFindings ==
  ASSUME TypeOK, NoFindingLost, NEW fresh, NEW question, NEW origin, NEW fp, NEW identity, NEW given,
         RecordReview(fresh, question, origin, fp, identity, given), review' \in ReviewRecord
  PROVE  NoFindingLost'
<1>1. /\ review'.findings = fresh \cup Carried(fresh)
      /\ raised' = raised \cup {f.uid : f \in fresh}
      /\ closed \subseteq closed'
      /\ review # None => {f.uid : f \in review.findings \ Unsettled} \subseteq closed'
  BY DEF RecordReview
<1>2. review' # None
  BY NoneAssumption
<1>3. ASSUME NEW uid \in raised
      PROVE  uid \in closed' \/ \E g \in review'.findings : g.uid = uid
  <2>1. CASE uid \in closed
    BY <1>1, <2>1
  <2>2. ASSUME review # None, NEW f \in review.findings, f.uid = uid
        PROVE  uid \in closed' \/ \E g \in review'.findings : g.uid = uid
    <3>1. CASE f \in Unsettled
      BY <1>1, <2>2, <3>1, CarriedKeepsUid DEF TypeOK, ReviewOK
    <3>2. CASE f \notin Unsettled
      BY <1>1, <2>2, <3>2
    <3>3. QED
      BY <3>1, <3>2
  <2>3. QED
    BY <2>1, <2>2 DEF NoFindingLost
<1>4. QED
  BY <1>1, <1>2, <1>3 DEF NoFindingLost

LEMMA NoFindingLostStep == TypeOK /\ NoFindingLost /\ Next => NoFindingLost'
<1> SUFFICES ASSUME TypeOK, NoFindingLost, Next PROVE NoFindingLost'
  OBVIOUS
<1>1. CASE UNCHANGED <<reviewFile, history>>
  BY <1>1 DEF NoFindingLost
<1>2. ASSUME NEW s \in Servers, ResolveFindings(s) PROVE NoFindingLost'
  BY <1>2 DEF ResolveFindings, NoFindingLost
<1>3. CASE ReviewRecorded
  <2>1. PICK forms \in SUBSET FindingForms, question \in BOOLEAN, origin \in Origins :
          \E given : RecordReview(Reported(forms), question, origin, Fingerprint, head, given)
    BY <1>3 DEF ReviewRecorded
  <2>2. review' \in ReviewRecord
    BY <2>1, RecordedType
  <2>3. QED
    BY <2>1, <2>2, RecordKeepsFindings
<1>4. QED
  BY <1>1, <1>2, <1>3, ReviewFrame DEF ReviewStep

(* A finding an independent review raised in any cycle stays in the        *)
(* current review until it is settled, however often the review is         *)
(* replaced, and with crashes between the writes of the two files.         *)
THEOREM FindingsNeverLost == Spec => []NoFindingLost
<1>1. Init => NoFindingLost
  BY DEF Init, NoFindingLost
<1>2. NoFindingLost /\ UNCHANGED vars => NoFindingLost'
  BY DEF NoFindingLost
<1>3. TypeOK /\ NoFindingLost /\ [Next]_vars => NoFindingLost'
  BY <1>2, NoFindingLostStep
<1>4. QED
  BY <1>1, <1>3, TypeCorrect, PTL DEF Spec

----------------------------------------------------------------------------
(* A complete run has settled them all.                                    *)

(* The inductive part of CompleteSettlesAll.                               *)
CompleteIsSettled == run.phase = "complete" => review # None /\ AllSettled

LEMMA FinishSettles ==
  ASSUME RunOK, NEW s \in Servers, Finish(s, "complete") PROVE review' # None /\ AllSettled'
<1>1. UNCHANGED reviewFile /\ review # None /\ AllSettled
  BY DEF Finish, CompletionGate
<1>2. QED
  BY <1>1 DEF AllSettled, Settled

LEMMA SettledStep ==
  TypeOK /\ PhaseMatchesTerminal /\ CompleteIsQuiet /\ CompleteIsSettled /\ Next => CompleteIsSettled'
<1> SUFFICES ASSUME TypeOK, PhaseMatchesTerminal, CompleteIsQuiet, CompleteIsSettled, Next
             PROVE  CompleteIsSettled'
  OBVIOUS
<1>1. CASE run.phase = "complete"
  <2>1. UNCHANGED reviewFile
    BY <1>1, CompleteStays DEF CompleteStep
  <2>2. QED
    BY <1>1, <2>1 DEF CompleteIsSettled, AllSettled, Settled
<1>2. CASE run.phase # "complete" /\ run'.phase = "complete"
  BY <1>2, OnlyFinishCompletes, FinishSettles DEF TypeOK, CompleteIsSettled
<1>3. CASE run'.phase # "complete"
  BY <1>3 DEF CompleteIsSettled
<1>4. QED
  BY <1>1, <1>2, <1>3

(* A run finished as complete left no finding of any of its reviews        *)
(* without an accepted correction or a refutation.                         *)
THEOREM CompleteAlwaysSettled == Spec => []CompleteSettlesAll
<1>1. Init => CompleteIsSettled
  BY DEF Init, CompleteIsSettled
<1>2. CompleteIsSettled /\ UNCHANGED vars => CompleteIsSettled'
  BY DEF CompleteIsSettled, AllSettled, Settled
<1>3. TypeOK /\ PhaseMatchesTerminal /\ CompleteIsQuiet /\ CompleteIsSettled /\ [Next]_vars
        => CompleteIsSettled'
  BY <1>2, SettledStep
<1>4. NoFindingLost /\ CompleteIsSettled => CompleteSettlesAll
  BY DEF NoFindingLost, CompleteIsSettled, CompleteSettlesAll, AllSettled
<1>5. QED
  BY <1>1, <1>3, <1>4, TypeCorrect, PhaseAlwaysMatches, CompleteAlwaysQuiet, FindingsNeverLost,
     PTL DEF Spec
----------------------------------------------------------------------------
(* Ids of findings.                                                        *)

(* A renamed id carries the number of a review already recorded, so the    *)
(* next renaming makes one nothing else has.                               *)
PriorsOld ==
  review # None =>
    \A f \in review.findings : \A i \in DOMAIN f.id.prior : f.id.prior[i] < Len(reports)

(* What a new review holds: a finding of this report under its own name,   *)
(* or one carried over, renamed or not.                                    *)
Renamed(f) == [f EXCEPT !.id.prior = Append(@, Len(reports))]

LEMMA RenamedId ==
  ASSUME NEW f \in FindingRecord, reports \in Seq(ReportRecord)
  PROVE  /\ Renamed(f).id.name = f.id.name
         /\ Renamed(f).id.prior = Append(f.id.prior, Len(reports))
         /\ Renamed(f).severity = f.severity /\ Renamed(f).file = f.file
         /\ Renamed(f).uid = f.uid
  BY DEF Renamed, FindingRecord

LEMMA FreshIds ==
  ASSUME NEW forms \in SUBSET FindingForms
  PROVE  /\ \A f \in Reported(forms) : f.id.prior = << >>
         /\ \A f, g \in Reported(forms) : f.id = g.id => f = g
<1>1. \A form \in forms : form \in FindingForms
  OBVIOUS
<1>2. \A a, b \in FindingForms : a.name = b.name => a = b
  BY RunAssumption
<1>3. ASSUME NEW f \in Reported(forms), NEW g \in Reported(forms), f.id = g.id PROVE f = g
  <2>1. PICK a \in forms : f = [id |-> [name |-> a.name, prior |-> << >>], severity |-> a.severity,
                                file |-> a.file, uid |-> <<a.name, Len(reports)>>]
    BY DEF Reported
  <2>2. PICK b \in forms : g = [id |-> [name |-> b.name, prior |-> << >>], severity |-> b.severity,
                                file |-> b.file, uid |-> <<b.name, Len(reports)>>]
    BY DEF Reported
  <2>3. a.name = b.name
    BY <1>3, <2>1, <2>2
  <2>4. a = b
    BY <1>1, <1>2, <2>3
  <2>5. QED
    BY <2>1, <2>2, <2>4
<1>4. \A f \in Reported(forms) : f.id.prior = << >>
  BY DEF Reported
<1>5. QED
  BY <1>3, <1>4

LEMMA CarriedCases ==
  ASSUME review \in ReviewRecord, NEW fresh, NEW c \in Carried(fresh)
  PROVE  \E f \in review.findings :
           \/ (\E g \in fresh : g.id = f.id) /\ c = Renamed(f)
           \/ ~(\E g \in fresh : g.id = f.id) /\ c = f
  BY NoneAssumption DEF Carried, Renamed, Unsettled

LEMMA RecordKeepsIds ==
  ASSUME TypeOK, PriorsOld, FindingIdsUnique, NEW forms \in SUBSET FindingForms,
         NEW question, NEW origin, NEW fp, NEW identity, NEW given,
         RecordReview(Reported(forms), question, origin, fp, identity, given)
  PROVE  PriorsOld' /\ FindingIdsUnique'
<1> DEFINE fresh == Reported(forms)
           n == Len(reports)
<1>1. /\ review'.findings = fresh \cup Carried(fresh)
      /\ reports' = Append(reports, [fp |-> Fingerprint, head |-> head, origin |-> origin])
  BY DEF RecordReview
<1>2. reports \in Seq(ReportRecord) /\ n \in Nat
  BY DEF TypeOK, ReviewOK
<1>3. Len(reports') = n + 1
  BY <1>1, <1>2
<1>4. /\ \A f \in fresh : f.id.prior = << >>
      /\ \A f, g \in fresh : f.id = g.id => f = g
  BY FreshIds
<1> HIDE DEF fresh
<1>5. ASSUME NEW c \in Carried(fresh)
      PROVE  /\ review \in ReviewRecord
             /\ \E f \in review.findings :
                 \/ (\E g \in fresh : g.id = f.id) /\ c = Renamed(f)
                 \/ ~(\E g \in fresh : g.id = f.id) /\ c = f
  <2>1. review # None
    BY <1>5 DEF Carried
  <2>2. review \in ReviewRecord
    BY <2>1 DEF TypeOK, ReviewOK
  <2>3. QED
    BY <2>2, <1>5, CarriedCases
<1>6. ASSUME review \in ReviewRecord, NEW f \in review.findings
      PROVE  /\ f \in FindingRecord
             /\ f.id \in [name : Names, prior : Seq(Nat)]
             /\ f.id.prior \in Seq(Nat)
             /\ \A i \in 1..Len(f.id.prior) : f.id.prior[i] \in Nat /\ f.id.prior[i] < n
  <2>1. f \in FindingRecord
    BY <1>6 DEF ReviewRecord
  <2>2. f.id \in [name : Names, prior : Seq(Nat)]
    BY <2>1 DEF FindingRecord
  <2>3. f.id.prior \in Seq(Nat)
    BY <2>2
  <2>4. \A i \in DOMAIN f.id.prior : f.id.prior[i] < n
    BY <1>6, NoneAssumption DEF PriorsOld
  <2>5. QED
    BY <2>1, <2>2, <2>3, <2>4
<1>7. ASSUME review \in ReviewRecord, NEW f \in review.findings
      PROVE  /\ Renamed(f).id.prior = Append(f.id.prior, n)
             /\ Len(Renamed(f).id.prior) = Len(f.id.prior) + 1
             /\ Renamed(f).id.prior[Len(f.id.prior) + 1] = n
             /\ Len(f.id.prior) \in Nat
             /\ Renamed(f).id.name = f.id.name
  <2>1. f \in FindingRecord /\ f.id.prior \in Seq(Nat)
    BY <1>6, <1>7
  <2>2. Renamed(f).id.prior = Append(f.id.prior, n) /\ Renamed(f).id.name = f.id.name
    BY <1>2, <2>1, RenamedId
  <2>3. QED
    BY <1>2, <2>1, <2>2
<1> HIDE DEF n
<1>8. PriorsOld'
  <2>1. ASSUME NEW c \in fresh PROVE \A i \in DOMAIN c.id.prior : c.id.prior[i] < n + 1
    BY <1>4
  <2>2. ASSUME NEW c \in Carried(fresh) PROVE \A i \in DOMAIN c.id.prior : c.id.prior[i] < n + 1
    <3>1. PICK f \in review.findings :
                 \/ (\E g \in fresh : g.id = f.id) /\ c = Renamed(f)
                 \/ ~(\E g \in fresh : g.id = f.id) /\ c = f
      BY <1>5
    <3>2. /\ f.id.prior \in Seq(Nat)
          /\ \A i \in 1..Len(f.id.prior) : f.id.prior[i] \in Nat /\ f.id.prior[i] < n
      BY <1>5, <1>6
    <3>3. CASE c = f
      BY <1>2, <3>2, <3>3
    <3>4. CASE c = Renamed(f)
      <4>1. c.id.prior = Append(f.id.prior, n)
        BY <1>5, <1>7, <3>4
      <4>2. QED
        BY <1>2, <3>2, <4>1
    <3>5. QED
      BY <3>1, <3>3, <3>4
  <2>3. \A c \in review'.findings : \A i \in DOMAIN c.id.prior : c.id.prior[i] < n + 1
    BY <1>1, <2>1, <2>2
  <2>4. QED
    BY <1>3, <2>3 DEF PriorsOld
<1>9. ASSUME NEW f \in review.findings, NEW g \in review.findings, review \in ReviewRecord,
             f.id = g.id
      PROVE  f = g
  BY <1>9, NoneAssumption DEF FindingIdsUnique
<1>10. ASSUME NEW c \in fresh, NEW d \in Carried(fresh), c.id = d.id PROVE FALSE
  <2>1. review \in ReviewRecord
    BY <1>5
  <2>2. PICK f \in review.findings :
               \/ (\E g \in fresh : g.id = f.id) /\ d = Renamed(f)
               \/ ~(\E g \in fresh : g.id = f.id) /\ d = f
    BY <1>5
  <2>3. CASE d = Renamed(f)
    <3>1. Len(d.id.prior) = Len(f.id.prior) + 1 /\ Len(f.id.prior) \in Nat
      BY <1>7, <2>1, <2>3
    <3>2. d.id.prior = << >>
      BY <1>4, <1>10
    <3>3. QED
      BY <3>1, <3>2
  <2>4. CASE ~(\E g \in fresh : g.id = f.id) /\ d = f
    BY <1>10, <2>4
  <2>5. QED
    BY <2>2, <2>3, <2>4
<1>11. ASSUME review \in ReviewRecord, NEW f \in review.findings, NEW g \in review.findings,
              Renamed(f).id = g.id
       PROVE  FALSE
  <2>1. Renamed(f).id.prior[Len(f.id.prior) + 1] = n /\ Len(f.id.prior) \in Nat
    BY <1>7, <1>11
  <2>2. Len(g.id.prior) = Len(f.id.prior) + 1
    BY <1>7, <1>11
  <2>3. Len(f.id.prior) + 1 \in 1..Len(g.id.prior)
    BY <2>1, <2>2
  <2>4. g.id.prior[Len(f.id.prior) + 1] < n
    BY <1>6, <1>11, <2>3
  <2>5. QED
    BY <1>2, <1>11, <2>1, <2>4
<1>12. ASSUME NEW c \in Carried(fresh), NEW d \in Carried(fresh), c.id = d.id PROVE c = d
  <2>1. review \in ReviewRecord
    BY <1>5
  <2>2. PICK f \in review.findings :
               \/ (\E g \in fresh : g.id = f.id) /\ c = Renamed(f)
               \/ ~(\E g \in fresh : g.id = f.id) /\ c = f
    BY <1>5
  <2>3. PICK h \in review.findings :
               \/ (\E g \in fresh : g.id = h.id) /\ d = Renamed(h)
               \/ ~(\E g \in fresh : g.id = h.id) /\ d = h
    BY <1>5
  <2>4. CASE c = f /\ d = h
    BY <1>9, <1>12, <2>1, <2>4
  <2>5. CASE c = Renamed(f) /\ d = h
    BY <1>11, <1>12, <2>1, <2>5
  <2>6. CASE c = f /\ d = Renamed(h)
    BY <1>11, <1>12, <2>1, <2>6
  <2>7. CASE c = Renamed(f) /\ d = Renamed(h)
    <3>1. Append(f.id.prior, n) = Append(h.id.prior, n) /\ f.id.name = h.id.name
      BY <1>7, <1>12, <2>1, <2>7
    <3>2. f.id.prior \in Seq(Nat) /\ h.id.prior \in Seq(Nat)
      BY <1>6, <2>1
    <3>3. f.id.prior = h.id.prior
      <4>1. \A a, b \in Seq(Nat) : Append(a, n) = Append(b, n) => a = b
        BY <1>2, AppendInjective
      <4>2. QED
        BY <3>1, <3>2, <4>1
    <3>4. f.id \in [name : Names, prior : Seq(Nat)] /\ h.id \in [name : Names, prior : Seq(Nat)]
      BY <1>6, <2>1
    <3>5. f.id = h.id
      BY <3>1, <3>3, <3>4
    <3>6. QED
      BY <1>9, <2>1, <2>7, <3>5
  <2>8. QED
    BY <2>2, <2>3, <2>4, <2>5, <2>6, <2>7
<1>13. FindingIdsUnique'
  BY <1>1, <1>4, <1>10, <1>12 DEF FindingIdsUnique
<1>14. QED
  BY <1>8, <1>13

LEMMA IdsStep == TypeOK /\ PriorsOld /\ FindingIdsUnique /\ Next => PriorsOld' /\ FindingIdsUnique'
<1> SUFFICES ASSUME TypeOK, PriorsOld, FindingIdsUnique, Next PROVE PriorsOld' /\ FindingIdsUnique'
  OBVIOUS
<1>1. CASE UNCHANGED <<reviewFile, history>>
  BY <1>1 DEF PriorsOld, FindingIdsUnique
<1>2. ASSUME NEW s \in Servers, ResolveFindings(s) PROVE PriorsOld' /\ FindingIdsUnique'
  BY <1>2 DEF ResolveFindings, PriorsOld, FindingIdsUnique
<1>3. CASE ReviewRecorded
  BY <1>3, RecordKeepsIds DEF ReviewRecorded
<1>4. QED
  BY <1>1, <1>2, <1>3, ReviewFrame DEF ReviewStep

(* However often reviews are replaced, with crashes between the two files, *)
(* an id names one finding, so that a disposition settles no other.        *)
THEOREM IdsAlwaysUnique == Spec => []FindingIdsUnique
<1>1. Init => PriorsOld /\ FindingIdsUnique
  BY DEF Init, PriorsOld, FindingIdsUnique
<1>2. PriorsOld /\ FindingIdsUnique /\ UNCHANGED vars => PriorsOld' /\ FindingIdsUnique'
  BY DEF PriorsOld, FindingIdsUnique
<1>3. TypeOK /\ PriorsOld /\ FindingIdsUnique /\ [Next]_vars => PriorsOld' /\ FindingIdsUnique'
  BY <1>2, IdsStep
<1>4. QED
  BY <1>1, <1>3, TypeCorrect, PTL DEF Spec
=============================================================================
