------------------------ MODULE HarnessEvidenceProofs ------------------------
(* What a complete run rests on, and how often it asks a reviewer: the     *)
(* theorems of HarnessRun about stages, reviews and corrections.           *)
EXTENDS HarnessRunProofs, FiniteSetTheorems

USE DEF gitVars, reviewFile, history, vars

----------------------------------------------------------------------------
(* How state.json and _stages record stages.                               *)

(* Only a stage that failed has a kind of failure.                         *)
FailedSo(stage) == stage.kind # "none" => stage.status = "failed"

(* Only what Ended and Recover write changes in a stage on record.         *)
SameStage(j) ==
  /\ run'.stages[j].profile = run.stages[j].profile
  /\ run'.stages[j].fp = run.stages[j].fp
  /\ run'.stages[j].identity = run.stages[j].identity
  /\ run'.stages[j].cycle = run.stages[j].cycle
  /\ run'.stages[j].retryOf = run.stages[j].retryOf
  /\ FailedSo(run.stages[j]) => FailedSo(run'.stages[j])
  /\ run'.stages[j].status = "running" => run.stages[j].status = "running"

(* Poll reports a stage that its record does not call running, or the      *)
(* callback was lost.                                                      *)
PublishedSo(j) ==
  \A s \in Servers :
    active'[s][j] = "published" =>
      active[s][j] = "published" \/ run'.stages[j].status # "running" \/ "callback" \in Faults

ActiveQuiet ==
  \A s \in Servers : \A k \in StageIds :
    /\ active'[s][k] # "none" => active[s][k] # "none"
    /\ active'[s][k] \in {"live", "cancelled"} => Pending(s, k)

StagesKept ==
  /\ run'.stages \in Seq(StageRecord)
  /\ Len(run'.stages) = Len(run.stages)
  /\ run'.retries = run.retries
  /\ \A j \in DOMAIN run.stages :
       /\ SameStage(j)
       /\ \/ run'.stages[j].kind = run.stages[j].kind
          \/ \E s \in Servers : Pending(s, j) /\ active'[s][j] = "published"
       /\ PublishedSo(j)
  /\ ActiveQuiet

FirstOf(stage) ==
  /\ stage.profile = "critic" /\ writer = "codex"
  /\ stage.retryOf = 0 /\ run'.retries = run.retries
  /\ ~\E k \in DOMAIN run.stages :
       /\ run.stages[k].fp = stage.fp
       /\ run.stages[k].identity = stage.identity
       /\ run.stages[k].cycle = stage.cycle

RetryOf(stage, k) ==
  /\ stage.profile = "critic" /\ writer = "codex"
  /\ run.stages[k].kind \in TransientKinds
  /\ \/ /\ stage.retryOf = k /\ k # 0
        /\ run'.retries = run.retries + 1
     \/ /\ stage.retryOf = 0 /\ stage.kind = "anthropic_limit"
        /\ run'.retries = run.retries

ImplementOf(stage) ==
  /\ stage.profile = "implement" /\ writer = "claude"
  /\ stage.retryOf = 0 /\ run'.retries = run.retries

LaunchedBy(s, stage) ==
  \/ active' = active
  \/ /\ Len(run.stages) + 1 \in StageIds
     /\ active' = [active EXCEPT ![s][Len(run.stages) + 1] = "live"]
     /\ stage.kind = "none"

StageAdded(s, stage) ==
  /\ stage \in StageRecord /\ FailedSo(stage)
  /\ run'.stages = Append(run.stages, stage)
  /\ LaunchedBy(s, stage)
  /\ FirstOf(stage) \/ ImplementOf(stage) \/ \E k \in DOMAIN run.stages : RetryOf(stage, k)

LEMMA StagesType == RunOK => run.stages \in Seq(StageRecord) /\ Len(run.stages) \in Nat
  BY DEF RunOK, RunRecord

LEMMA NothingMoves ==
  ASSUME RunOK, run'.stages = run.stages, run'.retries = run.retries, active' = active
  PROVE  StagesKept
  BY StagesType DEF StagesKept, SameStage, PublishedSo, ActiveQuiet, Pending

LEMMA EndedStages ==
  ASSUME RunOK, NEW k \in DOMAIN run.stages, NEW status \in Statuses, NEW kind \in FailureKinds
  PROVE  LET st == Ended(k, status, kind).stages IN
         /\ st \in Seq(StageRecord) /\ Len(st) = Len(run.stages)
         /\ Ended(k, status, kind).retries = run.retries
         /\ \A j \in DOMAIN run.stages :
              /\ st[j].profile = run.stages[j].profile
              /\ st[j].fp = run.stages[j].fp
              /\ st[j].identity = run.stages[j].identity
              /\ st[j].cycle = run.stages[j].cycle
              /\ st[j].retryOf = run.stages[j].retryOf
              /\ j # k => st[j] = run.stages[j]
         /\ st[k].status = status /\ st[k].kind = kind
<1> DEFINE stage == [run.stages[k] EXCEPT !.status = status, !.kind = kind]
           updated == [run.stages EXCEPT ![k] = stage]
<1>1. run.stages \in Seq(StageRecord) /\ run.stages[k] \in StageRecord
  BY StagesType
<1>2. /\ stage \in StageRecord
      /\ stage.profile = run.stages[k].profile /\ stage.fp = run.stages[k].fp
      /\ stage.identity = run.stages[k].identity /\ stage.cycle = run.stages[k].cycle
      /\ stage.retryOf = run.stages[k].retryOf /\ stage.status = status /\ stage.kind = kind
  BY <1>1 DEF StageRecord, Statuses
<1> HIDE DEF stage
<1>3. updated \in Seq(StageRecord) /\ Len(updated) = Len(run.stages)
  BY <1>1, <1>2, ExceptSeq
<1>4. Ended(k, status, kind) = [run EXCEPT !.stages = updated,
                                           !.terminal = IF Revived(k) THEN None ELSE @]
  BY DEF Ended, RunOK, RunRecord, stage
<1>5. Ended(k, status, kind).stages = updated /\ Ended(k, status, kind).retries = run.retries
  BY <1>4 DEF RunOK, RunRecord
<1>6. \A j \in DOMAIN run.stages : updated[j] = IF j = k THEN stage ELSE run.stages[j]
  BY <1>1
<1> HIDE DEF updated
<1>7. QED
  BY <1>2, <1>3, <1>5, <1>6

(* A stage that ends.                                                      *)
LEMMA EndsKeepsStages ==
  ASSUME TypeOK, NEW s \in Servers, NEW k \in StageIds, k \in DOMAIN run.stages, Pending(s, k),
         NEW status \in Statuses, NEW kind \in FailureKinds, kind # "none" => status = "failed",
         status # "running", Publish(s, k),
         run'.stages = Ended(k, status, kind).stages,
         run'.retries = Ended(k, status, kind).retries
  PROVE  StagesKept
<1>1. /\ run'.stages \in Seq(StageRecord) /\ Len(run'.stages) = Len(run.stages)
      /\ run'.retries = run.retries
      /\ \A j \in DOMAIN run.stages :
              /\ run'.stages[j].profile = run.stages[j].profile
              /\ run'.stages[j].fp = run.stages[j].fp
              /\ run'.stages[j].identity = run.stages[j].identity
              /\ run'.stages[j].cycle = run.stages[j].cycle
              /\ run'.stages[j].retryOf = run.stages[j].retryOf
              /\ j # k => run'.stages[j] = run.stages[j]
      /\ run'.stages[k].status = status /\ run'.stages[k].kind = kind
  BY EndedStages DEF TypeOK
<1>2. active \in [Servers -> [StageIds -> {"none", "live", "cancelled", "published"}]]
  BY DEF TypeOK, ActiveOK
<1>3. ActiveQuiet /\ active'[s][k] = "published"
  BY <1>2 DEF ActiveQuiet, Publish, Pending
<1>4. ASSUME NEW j \in DOMAIN run.stages
      PROVE  /\ SameStage(j)
             /\ \/ run'.stages[j].kind = run.stages[j].kind
                \/ \E t \in Servers : Pending(t, j) /\ active'[t][j] = "published"
             /\ PublishedSo(j)
  <2>0. j \in StageIds
    BY StageIdsType DEF TypeOK
  <2>1. CASE j = k
    <3>1. FailedSo(run'.stages[j])
      BY <1>1, <2>1 DEF FailedSo
    <3>2. QED
      BY <1>1, <1>3, <2>1, <3>1 DEF SameStage, PublishedSo
  <2>2. CASE j # k
    <3>1. \A t \in Servers : active'[t][j] = active[t][j]
      BY <1>2, <2>0, <2>2 DEF Publish
    <3>2. QED
      BY <1>1, <2>2, <3>1 DEF SameStage, PublishedSo
  <2>3. QED
    BY <2>1, <2>2
<1>5. QED
  BY <1>1, <1>3, <1>4 DEF StagesKept

LEMMA AnyEndKeepsStages ==
  ASSUME TypeOK, NEW s \in Servers, NEW k \in StageIds, StageEnds(s, k)
  PROVE  StagesKept
<1>0. k \in DOMAIN run.stages /\ Pending(s, k) /\ RunOK
  BY DEF StageEnds, TypeOK
<1>1. \A status \in Statuses, kind \in FailureKinds :
        Ended(k, status, kind) \in RunRecord
  BY <1>0, EndedType
<1>2. \A kind \in ProviderKinds : kind \in FailureKinds
  BY DEF ProviderKinds, FailureKinds, TransientKinds
<1>3. {"none", "stale_review"} \subseteq FailureKinds
      /\ {"completed", "failed", "interrupted"} \subseteq Statuses
  BY DEF FailureKinds, Statuses
<1>4. \A status \in Statuses, kind \in FailureKinds :
        (kind # "none" => status = "failed") /\ status # "running" /\ EndsPreserved(s, k, status, kind) => StagesKept
  BY <1>0, EndsKeepsStages DEF EndsPreserved
<1>5. \A kind \in FailureKinds : StageFails(s, k, kind) => StagesKept
  <2> SUFFICES ASSUME NEW kind \in FailureKinds, StageFails(s, k, kind) PROVE StagesKept
    OBVIOUS
  <2>1. Ended(k, "failed", kind) \in RunRecord
    BY <1>1, <1>3
  <2>2. /\ run'.stages = Ended(k, "failed", kind).stages
        /\ run'.retries = Ended(k, "failed", kind).retries
    BY <2>1 DEF StageFails, RunRecord
  <2>3. QED
    BY <1>0, <1>3, <2>2, EndsKeepsStages DEF StageFails
<1>6. CriticStale(s, k) => StagesKept
  <2> SUFFICES ASSUME CriticStale(s, k) PROVE StagesKept
    OBVIOUS
  <2>1. Ended(k, "failed", "stale_review") \in RunRecord
    BY <1>1, <1>3
  <2>2. /\ run'.stages = Ended(k, "failed", "stale_review").stages
        /\ run'.retries = Ended(k, "failed", "stale_review").retries
    BY <2>1 DEF CriticStale, RunRecord
  <2>3. QED
    BY <1>0, <1>3, <2>2, EndsKeepsStages DEF CriticStale
<1>7. \A forms, question : CriticCompletes(s, k, forms, question) => StagesKept
  <2> SUFFICES ASSUME NEW forms, NEW question, CriticCompletes(s, k, forms, question) PROVE StagesKept
    OBVIOUS
  <2>1. Ended(k, "completed", "none") \in RunRecord
    BY <1>1, <1>3
  <2>2. /\ run'.stages = Ended(k, "completed", "none").stages
        /\ run'.retries = Ended(k, "completed", "none").retries
    BY <2>1 DEF CriticCompletes, RunRecord
  <2>3. QED
    BY <1>0, <1>3, <2>2, EndsKeepsStages DEF CriticCompletes
<1>8. ImplementCompletes(s, k) => StagesKept
  <2> SUFFICES ASSUME ImplementCompletes(s, k) PROVE StagesKept
    OBVIOUS
  <2>1. Ended(k, "completed", "none") \in RunRecord
    BY <1>1, <1>3
  <2>2. /\ run'.stages = Ended(k, "completed", "none").stages
        /\ run'.retries = Ended(k, "completed", "none").retries
    BY <2>1 DEF ImplementCompletes, RunRecord
  <2>3. QED
    BY <1>0, <1>3, <2>2, EndsKeepsStages DEF ImplementCompletes
<1>9. StageInterrupted(s, k) => StagesKept
  <2> SUFFICES ASSUME StageInterrupted(s, k) PROVE StagesKept
    OBVIOUS
  <2>1. Ended(k, "interrupted", "none") \in RunRecord
    BY <1>1, <1>3
  <2>2. /\ run'.stages = Ended(k, "interrupted", "none").stages
        /\ run'.retries = Ended(k, "interrupted", "none").retries
    BY <2>1 DEF StageInterrupted, RunRecord
  <2>3. QED
    BY <1>0, <1>3, <2>2, EndsKeepsStages DEF StageInterrupted
<1>10. CallbackLost(s, k) => StagesKept
  <2> SUFFICES ASSUME CallbackLost(s, k) PROVE StagesKept
    OBVIOUS
  <2>1. active \in [Servers -> [StageIds -> {"none", "live", "cancelled", "published"}]]
    BY DEF TypeOK, ActiveOK
  <2>2. ActiveQuiet
    BY <1>0, <2>1 DEF CallbackLost, ActiveQuiet, Publish, Pending
  <2>3. run' = run
    BY DEF CallbackLost
  <2>4. "callback" \in Faults
    BY DEF CallbackLost
  <2>5. QED
    BY <1>0, <2>2, <2>3, <2>4, StagesType DEF StagesKept, SameStage, PublishedSo
<1>11. QED
  BY <1>2, <1>3, <1>4, <1>5, <1>6, <1>7, <1>8, <1>9, <1>10 DEF StageEnds

(* A crash takes stages off a server, and leaves the record alone.         *)
LEMMA CrashKeepsStages ==
  ASSUME RunOK, ActiveOK, NEW s \in Servers, run' = run, active' = [active EXCEPT ![s] = Idle]
  PROVE  StagesKept
<1>1. ActiveQuiet
  BY DEF ActiveQuiet, Pending, ActiveOK, Idle
<1>2. \A j \in DOMAIN run.stages : PublishedSo(j)
  BY StageIdsType DEF PublishedSo, ActiveOK, Idle
<1>3. QED
  BY <1>1, <1>2, StagesType DEF StagesKept, SameStage

(* What StartStage adds.                                                   *)
Begun(s, profile, retryOf, stage) ==
  /\ run'.stages = Append(run.stages, stage)
  /\ stage.profile = profile
  /\ stage.fp = run.fp /\ stage.identity = run.identity /\ stage.cycle = run.cycle + 1
  /\ LaunchedBy(s, stage)
  /\ \/ /\ stage.retryOf = retryOf
        /\ run'.retries = IF retryOf # 0 THEN run.retries + 1 ELSE run.retries
     \/ /\ stage.retryOf = 0 /\ stage.kind = "anthropic_limit"
        /\ run'.retries = run.retries
  /\ FailedSo(stage)

LEMMA StartAdds ==
  ASSUME RunOK, NEW s \in Servers, NEW profile \in {"critic", "implement"}, NEW retryOf \in Nat,
         StartStage(s, profile, retryOf)
  PROVE  \E stage \in StageRecord : Begun(s, profile, retryOf, stage)
<1> DEFINE running == NewStage(profile, "running", "none", retryOf)
           failed == [running EXCEPT !.status = "failed", !.kind = "launch_error"]
           skipped == NewStage(profile, "failed", "anthropic_limit", 0)
<1>1. running \in StageRecord /\ skipped \in StageRecord
  BY NewStageType DEF Statuses, FailureKinds
<1>2. failed \in StageRecord
  BY <1>1 DEF StageRecord, FailureKinds
<1>3. CASE Launch(s, running, retryOf # 0)
  <2>1. /\ run'.stages = Append(run.stages, running)
        /\ run'.retries = IF retryOf # 0 THEN run.retries + 1 ELSE run.retries
    BY <1>3 DEF Launch, RunOK, RunRecord
  <2>2. LaunchedBy(s, running)
    BY <1>3, StagesType, RunAssumption DEF Launch, LaunchedBy, NewStage, StageIds
  <2>3. Begun(s, profile, retryOf, running)
    BY <2>1, <2>2 DEF Begun, NewStage, FailedSo
  <2>4. QED
    BY <1>1, <2>3
<1>4. CASE LaunchFails(running, retryOf # 0)
  <2>1. /\ run'.stages = Append(run.stages, failed)
        /\ run'.retries = IF retryOf # 0 THEN run.retries + 1 ELSE run.retries
    BY <1>4 DEF LaunchFails, RunOK, RunRecord
  <2>2. LaunchedBy(s, failed)
    BY <1>4 DEF LaunchFails, LaunchedBy
  <2>3. /\ failed.profile = profile /\ failed.fp = run.fp /\ failed.identity = run.identity
        /\ failed.cycle = run.cycle + 1 /\ failed.retryOf = retryOf /\ FailedSo(failed)
    BY DEF NewStage, FailedSo
  <2> HIDE DEF failed
  <2>4. Begun(s, profile, retryOf, failed)
    BY <2>1, <2>2, <2>3 DEF Begun
  <2>5. QED
    BY <1>2, <2>4
<1>5. CASE CooldownSkips(profile)
  <2>1. run'.stages = Append(run.stages, skipped) /\ run'.retries = run.retries
    BY <1>5 DEF CooldownSkips, RunOK, RunRecord
  <2>2. LaunchedBy(s, skipped)
    BY <1>5 DEF CooldownSkips, LaunchedBy
  <2>3. Begun(s, profile, retryOf, skipped)
    BY <2>1, <2>2 DEF Begun, NewStage, FailedSo
  <2>4. QED
    BY <1>1, <2>3
<1>6. QED
  BY <1>3, <1>4, <1>5 DEF StartStage

StagesStep == StagesKept \/ \E s \in Servers, stage \in StageRecord : StageAdded(s, stage)

(* Every step keeps the stages on record, or adds one.                     *)
LEMMA StagesFrame == TypeOK /\ Next => StagesStep
<1> SUFFICES ASSUME TypeOK, Next PROVE StagesStep
  OBVIOUS
<1>0. RunOK /\ ActiveOK /\ run \in RunRecord
  BY DEF TypeOK, RunOK
<1> USE <1>0
<1>1. ASSUME NEW p \in Paths, NEW c \in Contents, Edit(p, c) PROVE StagesStep
  <2>1. run'.stages = run.stages /\ run'.retries = run.retries /\ active' = active
    BY <1>1 DEF Edit, RunRecord
  <2>2. QED
    BY <2>1, NothingMoves DEF StagesStep
<1>2. CASE Commit
  <2>1. run'.stages = run.stages /\ run'.retries = run.retries /\ active' = active
    BY <1>2 DEF Commit, RunRecord
  <2>2. QED
    BY <2>1, NothingMoves DEF StagesStep
<1>3. ASSUME NEW h \in DOMAIN commits, Reset(h) PROVE StagesStep
  <2>1. run'.stages = run.stages /\ run'.retries = run.retries /\ active' = active
    BY <1>3 DEF Reset, RunRecord
  <2>2. QED
    BY <2>1, NothingMoves DEF StagesStep
<1>4. ASSUME NEW s \in Servers, NEW closeout \in BOOLEAN, PlanChecks(s, closeout) PROVE StagesStep
  <2>1. run'.stages = run.stages /\ run'.retries = run.retries /\ active' = active
    BY <1>4 DEF PlanChecks, RunRecord
  <2>2. QED
    BY <2>1, NothingMoves DEF StagesStep
<1>5. ASSUME NEW s \in Servers, ExhaustCorrections(s) PROVE StagesStep
  <2>1. run'.stages = run.stages /\ run'.retries = run.retries /\ active' = active
    BY <1>5 DEF ExhaustCorrections, RunRecord
  <2>2. QED
    BY <2>1, NothingMoves DEF StagesStep
<1>6. ASSUME NEW s \in Servers, NEW name \in Checks, NEW ok \in BOOLEAN, RecordCheck(s, name, ok)
      PROVE  StagesStep
  <2>1. run'.stages = run.stages /\ run'.retries = run.retries /\ active' = active
    BY <1>6 DEF RecordCheck, RunRecord
  <2>2. QED
    BY <2>1, NothingMoves DEF StagesStep
<1>7. ASSUME NEW s \in Servers, StartCritic(s) PROVE StagesStep
  <2>1. RunOK' /\ writer = "codex" /\ StartStage(s, "critic", 0)
    BY <1>7, StartStageType DEF StartCritic, CriticAllowed
  <2>2. PICK stage \in StageRecord : Begun(s, "critic", 0, stage)
    BY <2>1, StartAdds
  <2>3. FirstOf(stage)
    BY <1>7, <2>1, <2>2 DEF Begun, FirstOf, StartCritic
  <2>4. QED
    BY <2>2, <2>3 DEF StagesStep, StageAdded, Begun
<1>8. ASSUME NEW s \in Servers, NEW k \in DOMAIN run.stages, RetryCritic(s, k) PROVE StagesStep
  <2>1. /\ writer = "codex" /\ StartStage(s, "critic", k)
        /\ run.stages[k].kind \in TransientKinds /\ run.retries < MaxCriticRetries
    BY <1>8 DEF RetryCritic, CriticAllowed
  <2>2. k \in Nat /\ k # 0
    BY <1>8, StagesType
  <2>3. PICK stage \in StageRecord : Begun(s, "critic", k, stage)
    BY <2>1, <2>2, StartAdds
  <2>4. RetryOf(stage, k)
    BY <2>1, <2>2, <2>3 DEF Begun, RetryOf
  <2>5. QED
    BY <2>3, <2>4 DEF StagesStep, StageAdded, Begun
<1>9. ASSUME NEW s \in Servers, StartImplement(s) PROVE StagesStep
  <2>1. writer = "claude" /\ StartStage(s, "implement", 0)
    BY <1>9 DEF StartImplement
  <2>2. PICK stage \in StageRecord : Begun(s, "implement", 0, stage)
    BY <2>1, StartAdds
  <2>3. ImplementOf(stage)
    BY <2>1, <2>2 DEF Begun, ImplementOf
  <2>4. QED
    BY <2>2, <2>3 DEF StagesStep, StageAdded, Begun
<1>10. ASSUME NEW s \in Servers, NEW k \in StageIds, CancelStage(s, k) PROVE StagesStep
  <2>1. run' = run /\ active' = [active EXCEPT ![s][k] = "cancelled"] /\ active[s][k] = "live"
    BY <1>10 DEF CancelStage
  <2>2. ActiveQuiet
    BY <2>1 DEF ActiveQuiet, Pending, ActiveOK
  <2>3. \A j \in DOMAIN run.stages : PublishedSo(j)
    BY <2>1, StageIdsType DEF PublishedSo, ActiveOK
  <2>4. QED
    BY <2>1, <2>2, <2>3, StagesType DEF StagesStep, StagesKept, SameStage
<1>11. ASSUME NEW s \in Servers, ResolveFindings(s) PROVE StagesStep
  <2>1. run'.stages = run.stages /\ run'.retries = run.retries /\ active' = active
    BY <1>11 DEF ResolveFindings, Resolved, RunRecord
  <2>2. QED
    BY <2>1, NothingMoves DEF StagesStep
<1>12. ASSUME NEW s \in Servers, NEW forms \in SUBSET FindingForms, NEW question \in BOOLEAN,
              SupplyReview(s, forms, question)
       PROVE  StagesStep
  <2> DEFINE base == [run EXCEPT !.cycle = @ + 1, !.reviewSnapshot = run.fp]
  <2>1. /\ run' = Resolved(base, review', resolutions') /\ active' = active
    BY <1>12 DEF SupplyReview
  <2>2. /\ base.stages = run.stages /\ base.retries = run.retries
        /\ DOMAIN base = DOMAIN run
        /\ "stages" \in DOMAIN base /\ "retries" \in DOMAIN base
    BY DEF RunRecord
  <2> HIDE DEF base
  <2>3. run'.stages = base.stages /\ run'.retries = base.retries
    BY <2>1, <2>2 DEF Resolved
  <2>4. QED
    BY <2>1, <2>2, <2>3, NothingMoves DEF StagesStep
<1>13. ASSUME NEW s \in Servers, NEW forms \in SUBSET FindingForms, NEW question \in BOOLEAN,
              SupplyReviewCrash(s, forms, question)
       PROVE  StagesStep
  <2>1. run' = run /\ active' = [active EXCEPT ![s] = Idle]
    BY <1>13 DEF SupplyReviewCrash, CrashAfterReviewSaved
  <2>2. QED
    BY <2>1, CrashKeepsStages DEF StagesStep
<1>14. ASSUME NEW s \in Servers, NEW status \in TerminalPhases, Finish(s, status) PROVE StagesStep
  <2>1. run'.stages = run.stages /\ run'.retries = run.retries /\ active' = active
    BY <1>14 DEF Finish, RunRecord
  <2>2. QED
    BY <2>1, NothingMoves DEF StagesStep
<1>15. ASSUME NEW s \in Servers, FinishRefused(s) PROVE StagesStep
  <2>1. run'.stages = run.stages /\ run'.retries = run.retries /\ active' = active
    BY <1>15 DEF FinishRefused, RunRecord
  <2>2. QED
    BY <2>1, NothingMoves DEF StagesStep
<1>16. ASSUME NEW s \in Servers, Recover(s) PROVE StagesStep
  <2>1. RunOK' /\ active' = active
    BY <1>16, RecoverType DEF Recover
  <2>2. run'.retries = run.retries
    BY <1>16 DEF Recover, RunRecord
  <2>3. run'.stages = [k \in DOMAIN run.stages |-> IF k \in Orphans(s)
                           THEN [run.stages[k] EXCEPT !.status = "interrupted"] ELSE run.stages[k]]
    BY <1>16 DEF Recover, RunRecord
  <2>4. \A j \in DOMAIN run.stages : SameStage(j) /\ run'.stages[j].kind = run.stages[j].kind
    <3> SUFFICES ASSUME NEW j \in DOMAIN run.stages
                 PROVE  SameStage(j) /\ run'.stages[j].kind = run.stages[j].kind
      OBVIOUS
    <3>1. run.stages[j] \in StageRecord
      BY StagesType
    <3>2. run'.stages[j] = IF j \in Orphans(s)
                           THEN [run.stages[j] EXCEPT !.status = "interrupted"] ELSE run.stages[j]
      BY <2>3
    <3>3. j \in Orphans(s) => run.stages[j].status = "running"
      BY DEF Orphans, Running
    <3>4. FailedSo(run.stages[j]) => FailedSo(run'.stages[j])
      BY <3>1, <3>2, <3>3 DEF FailedSo, StageRecord
    <3>5. run'.stages[j].status = "running" => run.stages[j].status = "running"
      BY <3>1, <3>2 DEF StageRecord
    <3>6. QED
      BY <3>1, <3>2, <3>4, <3>5 DEF SameStage, StageRecord
  <2>5. run'.stages \in Seq(StageRecord) /\ Len(run'.stages) = Len(run.stages)
    <3>1. run'.stages \in Seq(StageRecord) /\ DOMAIN run'.stages = DOMAIN run.stages
      BY <2>1, <2>3 DEF RunOK, RunRecord
    <3>2. QED
      BY <3>1, StagesType
  <2>6. ActiveQuiet
    BY <2>1 DEF ActiveQuiet, Pending
  <2>7. QED
    BY <2>1, <2>2, <2>4, <2>5, <2>6 DEF StagesStep, StagesKept, PublishedSo
<1>17. ASSUME NEW s \in Servers, Crash(s) PROVE StagesStep
  <2>1. run' = run /\ active' = [active EXCEPT ![s] = Idle]
    BY <1>17 DEF Crash
  <2>2. QED
    BY <2>1, CrashKeepsStages DEF StagesStep
<1>18. ASSUME NEW s \in Servers, NEW k \in StageIds, NEW forms \in SUBSET FindingForms,
              NEW question \in BOOLEAN, CriticCompletesCrash(s, k, forms, question)
       PROVE  StagesStep
  <2>1. run' = run /\ active' = [active EXCEPT ![s] = Idle]
    BY <1>18 DEF CriticCompletesCrash, CrashAfterReviewSaved
  <2>2. QED
    BY <2>1, CrashKeepsStages DEF StagesStep
<1>19. ASSUME NEW s \in Servers, NEW k \in StageIds, StageEnds(s, k) PROVE StagesStep
  BY <1>19, AnyEndKeepsStages DEF StagesStep, TypeOK
<1>20. QED
  BY <1>1, <1>2, <1>3, <1>4, <1>5, <1>6, <1>7, <1>8, <1>9, <1>10, <1>11, <1>12, <1>13,
       <1>14, <1>15, <1>16, <1>17, <1>18, <1>19 DEF Next, Checkout, Handler, ServerCrash

----------------------------------------------------------------------------
(* What the stages on record and _stages say of each other.                *)

WritersStages ==
  \A k \in DOMAIN run.stages :
    /\ run.stages[k].profile = "critic" => writer = "codex"
    /\ run.stages[k].profile = "implement" => writer = "claude"

LaunchedOnce ==
  /\ \A s \in Servers : \A k \in StageIds : k > Len(run.stages) => active[s][k] = "none"
  /\ \A s, t \in Servers : \A k \in StageIds :
       active[s][k] # "none" /\ active[t][k] # "none" => s = t

(* A stage somebody still waits for has not ended on disk: how a stage     *)
(* failed is decided once.                                                 *)
PendingUndecided ==
  \A s \in Servers : \A k \in StageIds :
    k \in DOMAIN run.stages /\ Pending(s, k) => run.stages[k].kind = "none"

StagesInv == WritersStages /\ LaunchedOnce /\ PendingUndecided

LEMMA WriterFrame == Next => writer' = writer
  BY CheckoutFrame DEF Checkout, Edit, Commit, Reset

LEMMA KeptKeepsInv ==
  ASSUME TypeOK, StagesInv, writer' = writer, StagesKept PROVE StagesInv'
<1>1. run.stages \in Seq(StageRecord) /\ Len(run.stages) \in Nat
  BY StagesType DEF TypeOK
<1>2. DOMAIN run'.stages = DOMAIN run.stages /\ Len(run'.stages) = Len(run.stages)
  BY <1>1 DEF StagesKept
<1>3. WritersStages'
  BY <1>2 DEF StagesKept, SameStage, StagesInv, WritersStages
<1>4. LaunchedOnce'
  BY <1>2 DEF StagesKept, ActiveQuiet, StagesInv, LaunchedOnce
<1>5. PendingUndecided'
  <2> SUFFICES ASSUME NEW s \in Servers, NEW k \in StageIds, k \in DOMAIN run'.stages,
                      active'[s][k] \in {"live", "cancelled"}
               PROVE  run'.stages[k].kind = "none"
    BY DEF PendingUndecided, Pending
  <2>1. Pending(s, k) /\ k \in DOMAIN run.stages
    BY <1>2 DEF StagesKept, ActiveQuiet
  <2>2. run.stages[k].kind = "none"
    BY <2>1 DEF StagesInv, PendingUndecided
  <2>3. \A t \in Servers : Pending(t, k) => t = s
    BY <2>1 DEF StagesInv, LaunchedOnce, Pending
  <2>4. ~\E t \in Servers : Pending(t, k) /\ active'[t][k] = "published"
    BY <2>3
  <2>5. QED
    BY <2>1, <2>2, <2>4 DEF StagesKept
<1>6. QED
  BY <1>3, <1>4, <1>5 DEF StagesInv

LEMMA AddedKeepsInv ==
  ASSUME TypeOK, StagesInv, writer' = writer, NEW s \in Servers, NEW stage \in StageRecord,
         StageAdded(s, stage)
  PROVE  StagesInv'
<1> DEFINE n == Len(run.stages)
<1>1. run.stages \in Seq(StageRecord) /\ n \in Nat
  BY StagesType DEF TypeOK
<1>2. run'.stages = Append(run.stages, stage)
  BY DEF StageAdded
<1>3. /\ DOMAIN run'.stages = 1..(n + 1) /\ DOMAIN run.stages = 1..n /\ Len(run'.stages) = n + 1
      /\ run'.stages[n + 1] = stage
      /\ \A k \in 1..n : run'.stages[k] = run.stages[k]
  BY <1>1, <1>2
<1>4. active \in [Servers -> [StageIds -> {"none", "live", "cancelled", "published"}]]
  BY DEF TypeOK, ActiveOK
<1>5. \/ active' = active
      \/ /\ n + 1 \in StageIds
         /\ active' = [active EXCEPT ![s][n + 1] = "live"]
         /\ stage.kind = "none"
  BY DEF StageAdded, LaunchedBy
<1>6. \A k \in StageIds : k \in Nat
  BY DEF StageIds
<1>7. \A t \in Servers : \A k \in StageIds : k > n => active[t][k] = "none"
  BY DEF StagesInv, LaunchedOnce
<1> HIDE DEF n
<1>8. \A t \in Servers : \A k \in StageIds :
        k # n + 1 \/ t # s => active'[t][k] = active[t][k]
  BY <1>4, <1>5
<1>9. WritersStages'
  <2>1. /\ stage.profile = "critic" => writer = "codex"
        /\ stage.profile = "implement" => writer = "claude"
    BY DEF StageAdded, FirstOf, RetryOf, ImplementOf
  <2>2. \A k \in 1..n : /\ run.stages[k].profile = "critic" => writer = "codex"
                        /\ run.stages[k].profile = "implement" => writer = "claude"
    BY <1>3 DEF StagesInv, WritersStages
  <2>3. \A k \in 1..(n + 1) : k \in 1..n \/ k = n + 1
    BY <1>1
  <2>4. QED
    BY <1>3, <2>1, <2>2, <2>3 DEF WritersStages
<1>10. LaunchedOnce'
  <2>1. ASSUME NEW t \in Servers, NEW k \in StageIds, k > n + 1 PROVE active'[t][k] = "none"
    <3>1. k > n /\ k # n + 1
      BY <1>1, <1>6, <2>1
    <3>2. QED
      BY <1>7, <1>8, <3>1
  <2>2. ASSUME NEW t \in Servers, NEW u \in Servers, NEW k \in StageIds,
               active'[t][k] # "none", active'[u][k] # "none"
        PROVE  t = u
    <3>1. CASE k = n + 1
      <4>1. active[t][k] = "none" /\ active[u][k] = "none"
        BY <1>1, <1>7, <3>1
      <4>2. QED
        BY <1>8, <2>2, <4>1
    <3>2. CASE k # n + 1
      BY <1>8, <2>2, <3>2 DEF StagesInv, LaunchedOnce
    <3>3. QED
      BY <3>1, <3>2
  <2>3. QED
    BY <1>3, <2>1, <2>2 DEF LaunchedOnce
<1>11. PendingUndecided'
  <2> SUFFICES ASSUME NEW t \in Servers, NEW k \in StageIds, k \in DOMAIN run'.stages,
                      active'[t][k] \in {"live", "cancelled"}
               PROVE  run'.stages[k].kind = "none"
    BY DEF PendingUndecided, Pending
  <2>1. CASE k = n + 1
    <3>1. active[t][k] = "none"
      BY <1>1, <1>7, <2>1
    <3>2. active' # active
      BY <3>1
    <3>3. QED
      BY <1>3, <1>5, <2>1, <3>2
  <2>2. CASE k # n + 1
    <3>1. k \in 1..n
      BY <1>1, <1>3, <2>2
    <3>2. Pending(t, k)
      BY <1>8, <2>2 DEF Pending
    <3>3. QED
      BY <1>3, <3>1, <3>2 DEF StagesInv, PendingUndecided
  <2>3. QED
    BY <2>1, <2>2
<1>12. QED
  BY <1>9, <1>10, <1>11 DEF StagesInv

LEMMA StagesInvStep == TypeOK /\ StagesInv /\ Next => StagesInv'
  BY StagesFrame, WriterFrame, KeptKeepsInv, AddedKeepsInv DEF StagesStep

LEMMA StagesInvStutters == StagesInv /\ UNCHANGED vars => StagesInv'
<1> SUFFICES ASSUME StagesInv, UNCHANGED vars PROVE StagesInv'
  OBVIOUS
<1>1. writer' = writer /\ run' = run /\ active' = active
  OBVIOUS
<1>2. QED
  BY <1>1 DEF StagesInv, WritersStages, LaunchedOnce, PendingUndecided, Pending

LEMMA StagesInvHolds == Spec => []StagesInv
<1>1. Init => StagesInv
  <2> SUFFICES ASSUME Init PROVE StagesInv
    OBVIOUS
  <2>1. DOMAIN run.stages = {} /\ \A s \in Servers : \A k \in StageIds : active[s][k] = "none"
    BY DEF Init, Idle
  <2>2. QED
    BY <2>1 DEF StagesInv, WritersStages, LaunchedOnce, PendingUndecided
<1>2. TypeOK /\ StagesInv /\ [Next]_vars => StagesInv'
  BY StagesInvStep, StagesInvStutters
<1>3. QED
  BY <1>1, <1>2, TypeCorrect, PTL DEF Spec

----------------------------------------------------------------------------
(* What poll reports is on disk.                                           *)

LEMMA PersistedStep ==
  ASSUME "callback" \notin Faults, TypeOK, StagesInv, PersistedBeforePublished, Next
  PROVE  PersistedBeforePublished'
<1>1. run.stages \in Seq(StageRecord) /\ Len(run.stages) \in Nat
  BY StagesType DEF TypeOK
<1>2. CASE StagesKept
  <2>1. DOMAIN run'.stages = DOMAIN run.stages
    BY <1>1, <1>2 DEF StagesKept
  <2>2. ASSUME NEW s \in Servers, NEW k \in DOMAIN run.stages, active'[s][k] = "published"
        PROVE  run'.stages[k].status # "running"
    BY <1>2, <2>2 DEF StagesKept, SameStage, PublishedSo, PersistedBeforePublished, Running
  <2>3. QED
    BY <2>1, <2>2 DEF PersistedBeforePublished, Running
<1>3. ASSUME NEW t \in Servers, NEW stage \in StageRecord, StageAdded(t, stage)
      PROVE  PersistedBeforePublished'
  <2> DEFINE n == Len(run.stages)
  <2>1. run'.stages = Append(run.stages, stage) /\ LaunchedBy(t, stage)
    BY <1>3 DEF StageAdded
  <2>2. \A k \in DOMAIN run'.stages :
          \/ k = n + 1
          \/ k \in DOMAIN run.stages /\ run'.stages[k] = run.stages[k]
    BY <1>1, <2>1
  <2>3. active \in [Servers -> [StageIds -> {"none", "live", "cancelled", "published"}]]
    BY DEF TypeOK, ActiveOK
  <2>4. ASSUME NEW s \in Servers, NEW k \in DOMAIN run'.stages, active'[s][k] = "published"
        PROVE  k \in DOMAIN run.stages /\ run'.stages[k] = run.stages[k] /\ active[s][k] = "published"
    <3>1. RunOK'
      BY RunTypeOK
    <3>2. k \in StageIds
      <4>1. run'.stages \in Seq(StageRecord) /\ Len(run'.stages) <= MaxStages
        BY <3>1 DEF RunOK, RunRecord
      <4>2. k \in 1 .. Len(run'.stages) /\ Len(run'.stages) \in Nat
        BY <2>4, <4>1
      <4>3. QED
        BY <4>1, <4>2, RunAssumption DEF StageIds
    <3>3. active[s][k] = "published"
      BY <2>1, <2>3, <2>4, <3>2 DEF LaunchedBy
    <3>4. k # n + 1
      BY <1>1, <3>2, <3>3 DEF StagesInv, LaunchedOnce
    <3>5. QED
      BY <2>2, <3>3, <3>4
  <2>5. QED
    BY <2>4 DEF PersistedBeforePublished, Running
<1>4. QED
  BY <1>2, <1>3, StagesFrame DEF StagesStep

(* What the comment in ManagedStage._wait asks holds of every terminal callback that is not lost to an error:
   once poll reports a stage terminal, state.json does not call it running.  The run lost_callback is what
   becomes of it when Git or the file system fails inside the callback. *)
THEOREM PersistedUnlessLost ==
  ASSUME "callback" \notin Faults
  PROVE  Spec => []PersistedBeforePublished
<1>1. Init => PersistedBeforePublished
  BY DEF Init, PersistedBeforePublished
<1>2. PersistedBeforePublished /\ UNCHANGED vars => PersistedBeforePublished'
  BY DEF PersistedBeforePublished, Running
<1>3. TypeOK /\ StagesInv /\ PersistedBeforePublished /\ [Next]_vars => PersistedBeforePublished'
  BY <1>2, PersistedStep
<1>4. QED
  BY <1>1, <1>3, TypeCorrect, StagesInvHolds, PTL DEF Spec

----------------------------------------------------------------------------
(* Inference is not repeated.                                              *)

SameEvidence(j, k) ==
  /\ run.stages[j].fp = run.stages[k].fp
  /\ run.stages[j].identity = run.stages[k].identity
  /\ run.stages[j].cycle = run.stages[k].cycle

Excused(k) ==
  \/ /\ run.stages[k].retryOf \in DOMAIN run.stages
     /\ run.stages[run.stages[k].retryOf].kind \in TransientKinds
  \/ run.stages[k].kind = "anthropic_limit"

RepeatsExcused ==
  \A j, k \in DOMAIN run.stages :
    j < k /\ run.stages[j].profile = "critic" /\ SameEvidence(j, k) => Excused(k)

Retries == {k \in DOMAIN run.stages : run.stages[k].retryOf # 0}

RetriesCounted == IsFiniteSet(Retries) /\ Cardinality(Retries) <= run.retries

(* Whoever waits for a stage is alone, and until it ends its kind is open, *)
(* so a kind once decided stays.                                           *)
LEMMA KindStays ==
  ASSUME TypeOK, StagesInv, StagesKept, NEW k \in DOMAIN run.stages, run.stages[k].kind # "none"
  PROVE  run'.stages[k].kind = run.stages[k].kind
<1>1. k \in StageIds
  BY StageIdsType DEF TypeOK
<1>2. ~\E s \in Servers : Pending(s, k)
  BY <1>1 DEF StagesInv, PendingUndecided
<1>3. QED
  BY <1>2 DEF StagesKept

LEMMA KeptKeepsRepeats ==
  ASSUME TypeOK, StagesInv, RepeatsExcused, RetriesCounted, StagesKept
  PROVE  RepeatsExcused' /\ RetriesCounted'
<1>1. run.stages \in Seq(StageRecord) /\ Len(run.stages) \in Nat
  BY StagesType DEF TypeOK
<1>2. DOMAIN run'.stages = DOMAIN run.stages
  BY <1>1 DEF StagesKept
<1>3. \A k \in DOMAIN run.stages : SameStage(k)
  BY DEF StagesKept
<1>4. RepeatsExcused'
  <2> SUFFICES ASSUME NEW j \in DOMAIN run.stages, NEW k \in DOMAIN run.stages,
                      j < k, run'.stages[j].profile = "critic", SameEvidence(j, k)'
               PROVE  Excused(k)'
    BY <1>2 DEF RepeatsExcused
  <2>1. run.stages[j].profile = "critic" /\ SameEvidence(j, k)
    BY <1>3 DEF SameEvidence, SameStage
  <2>2. Excused(k)
    BY <2>1 DEF RepeatsExcused
  <2>3. CASE run.stages[k].kind = "anthropic_limit"
    <3>1. run'.stages[k].kind = "anthropic_limit"
      BY <2>3, KindStays
    <3>2. QED
      BY <3>1 DEF Excused
  <2>4. ASSUME NEW r \in DOMAIN run.stages, r = run.stages[k].retryOf,
               run.stages[r].kind \in TransientKinds
        PROVE  Excused(k)'
    <3>1. run'.stages[r].kind \in TransientKinds
      BY <2>4, KindStays DEF TransientKinds
    <3>2. run'.stages[k].retryOf = r
      BY <1>3, <2>4 DEF SameStage
    <3>3. QED
      BY <1>2, <3>1, <3>2 DEF Excused
  <2>5. QED
    BY <2>2, <2>3, <2>4 DEF Excused
<1>5. Retries' = Retries
  BY <1>2, <1>3 DEF Retries, SameStage
<1>6. run'.retries = run.retries
  BY DEF StagesKept
<1>7. QED
  BY <1>4, <1>5, <1>6 DEF RetriesCounted

LEMMA AddedKeepsRepeats ==
  ASSUME TypeOK, StagesInv, RepeatsExcused, RetriesCounted,
         NEW s \in Servers, NEW stage \in StageRecord, StageAdded(s, stage)
  PROVE  RepeatsExcused' /\ RetriesCounted'
<1> DEFINE n == Len(run.stages)
<1>1. run.stages \in Seq(StageRecord) /\ n \in Nat
  BY StagesType DEF TypeOK
<1>2. run'.stages = Append(run.stages, stage)
  BY DEF StageAdded
<1>3. /\ DOMAIN run'.stages = 1..(n + 1) /\ DOMAIN run.stages = 1..n
      /\ run'.stages[n + 1] = stage
      /\ \A k \in 1..n : run'.stages[k] = run.stages[k]
  BY <1>1, <1>2
<1>4. FirstOf(stage) \/ ImplementOf(stage) \/ \E k \in 1..n : RetryOf(stage, k)
  BY <1>3 DEF StageAdded
<1>5. run.retries \in Nat
  BY RunAssumption DEF TypeOK, RunOK, RunRecord
<1> HIDE DEF n
<1>6. \A k \in 1..(n + 1) : k \in 1..n \/ k = n + 1
  BY <1>1
<1>7. \A k \in 1..n : k \in 1..(n + 1) /\ k # n + 1
  BY <1>1
<1>8. ASSUME NEW j \in 1..(n + 1), NEW k \in 1..(n + 1),
             j < k, run'.stages[j].profile = "critic", SameEvidence(j, k)'
      PROVE  Excused(k)'
  <2>1. j \in 1..n
    BY <1>1, <1>8
  <2>2. run.stages[j].profile = "critic"
    BY <1>3, <1>8, <2>1
  <2>3. CASE k \in 1..n
    <3>1. SameEvidence(j, k)
      BY <1>3, <1>8, <2>1, <2>3 DEF SameEvidence
    <3>2. Excused(k)
      BY <1>3, <1>8, <2>1, <2>2, <2>3, <3>1 DEF RepeatsExcused
    <3>3. QED
      BY <1>3, <1>7, <2>3, <3>2 DEF Excused
  <2>4. CASE k = n + 1
    <3>1. /\ run.stages[j].fp = stage.fp /\ run.stages[j].identity = stage.identity
          /\ run.stages[j].cycle = stage.cycle
      BY <1>3, <1>8, <2>1, <2>4 DEF SameEvidence
    <3>2. ~FirstOf(stage)
      BY <1>3, <2>1, <3>1 DEF FirstOf
    <3>3. ~ImplementOf(stage)
      BY <1>3, <2>1, <2>2 DEF ImplementOf, StagesInv, WritersStages
    <3>4. PICK r \in 1..n : RetryOf(stage, r)
      BY <1>4, <3>2, <3>3
    <3>5. run'.stages[r].kind \in TransientKinds
      BY <1>3, <3>4 DEF RetryOf
    <3>6. QED
      BY <1>3, <1>7, <2>4, <3>4, <3>5 DEF RetryOf, Excused
  <2>5. QED
    BY <1>6, <2>3, <2>4
<1>9. RepeatsExcused'
  BY <1>3, <1>8 DEF RepeatsExcused
<1>10. IsFiniteSet(Retries) /\ Cardinality(Retries) <= run.retries /\ Cardinality(Retries) \in Nat
  BY FS_CardinalityType DEF RetriesCounted
<1>11. n + 1 \notin Retries
  BY <1>3, <1>7 DEF Retries
<1>12. CASE stage.retryOf = 0 /\ run'.retries = run.retries
  <2>1. Retries' = Retries
    BY <1>3, <1>6, <1>7, <1>12 DEF Retries
  <2>2. QED
    BY <1>9, <1>10, <1>12, <2>1 DEF RetriesCounted
<1>13. CASE stage.retryOf # 0 /\ run'.retries = run.retries + 1
  <2>1. Retries' = Retries \cup {n + 1}
    <3>1. n + 1 \in 1..(n + 1)
      BY <1>1
    <3>2. QED
      BY <1>3, <1>6, <1>7, <1>13, <3>1 DEF Retries
  <2>2. IsFiniteSet(Retries') /\ Cardinality(Retries') = Cardinality(Retries) + 1
    BY <1>10, <1>11, <2>1, FS_AddElement
  <2>3. QED
    BY <1>5, <1>9, <1>10, <1>13, <2>2 DEF RetriesCounted
<1>14. QED
  BY <1>4, <1>12, <1>13 DEF FirstOf, ImplementOf, RetryOf

LEMMA RepeatsStep ==
  TypeOK /\ StagesInv /\ RepeatsExcused /\ RetriesCounted /\ Next => RepeatsExcused' /\ RetriesCounted'
  BY StagesFrame, KeptKeepsRepeats, AddedKeepsRepeats DEF StagesStep

LEMMA RepeatsHold == Spec => [](RepeatsExcused /\ RetriesCounted)
<1>1. Init => RepeatsExcused /\ RetriesCounted
  <2> SUFFICES ASSUME Init PROVE RepeatsExcused /\ RetriesCounted
    OBVIOUS
  <2>1. DOMAIN run.stages = {} /\ run.retries = 0
    BY DEF Init
  <2>2. Retries = {}
    BY <2>1 DEF Retries
  <2>3. QED
    BY <2>1, <2>2, FS_EmptySet DEF RepeatsExcused, RetriesCounted
<1>2. RepeatsExcused /\ RetriesCounted /\ UNCHANGED vars => RepeatsExcused' /\ RetriesCounted'
  <2> SUFFICES ASSUME RepeatsExcused, RetriesCounted, run' = run
               PROVE  RepeatsExcused' /\ RetriesCounted'
    OBVIOUS
  <2>1. Retries' = Retries
    BY DEF Retries
  <2>2. QED
    BY <2>1 DEF RepeatsExcused, RetriesCounted, SameEvidence, Excused
<1>3. TypeOK /\ StagesInv /\ RepeatsExcused /\ RetriesCounted /\ [Next]_vars
        => RepeatsExcused' /\ RetriesCounted'
  BY <1>2, RepeatsStep
<1>4. QED
  BY <1>1, <1>3, TypeCorrect, StagesInvHolds, PTL DEF Spec

(* However calls are repeated and servers restart, a critic is asked about *)
(* the same evidence again only to retry a failure that did not judge it,  *)
(* and no more often than the contract's retry budget.                     *)
THEOREM InferenceNeverRepeated == Spec => []InferenceNotRepeated
<1>1. TypeOK /\ RepeatsExcused /\ RetriesCounted => InferenceNotRepeated
  <2> SUFFICES ASSUME TypeOK, RepeatsExcused, RetriesCounted PROVE InferenceNotRepeated
    OBVIOUS
  <2>1. run.retries \in Nat /\ run.retries <= MaxCriticRetries
    BY RunAssumption DEF TypeOK, RunOK, RunRecord
  <2>2. Cardinality(Retries) <= MaxCriticRetries
    BY <2>1, FS_CardinalityType, RunAssumption DEF RetriesCounted
  <2>3. QED
    BY <2>2 DEF InferenceNotRepeated, RepeatsExcused, SameEvidence, Excused, Retries
<1>2. QED
  BY <1>1, TypeCorrect, RepeatsHold, PTL

----------------------------------------------------------------------------
(* Where the review on record comes from.                                  *)

Independent == IF writer = "claude" THEN {"codex"} ELSE {"claude", "codex_fallback"}

Recorded(origin) ==
  \E forms, question, given :
    RecordReview(Reported(forms), question, origin, Fingerprint, head, given)

LimitFor(origin) ==
  origin = "codex_fallback" =>
    run.identity = head /\ FallbackAllowed(Fingerprint, run.cycle + 1)

(* A step leaves the review alone, or records one of the present checkout  *)
(* by somebody other than its writer, excused if need be.                  *)
ReviewMoves ==
  \/ /\ UNCHANGED <<review, reports>>
     /\ run'.reviewSnapshot = run.reviewSnapshot /\ run'.cycle = run.cycle
  \/ /\ \E origin \in Independent : Recorded(origin) /\ LimitFor(origin)
     /\ run'.reviewSnapshot \in {run.reviewSnapshot, Fingerprint}
     /\ "files" \notin Faults => run'.cycle = run.cycle + 1

LEMMA StartKeepsReview ==
  ASSUME RunOK, NEW s, NEW profile, NEW retryOf, StartStage(s, profile, retryOf)
  PROVE  ReviewMoves
  BY DEF StartStage, Launch, LaunchFails, CooldownSkips, ReviewMoves, RunOK, RunRecord

LEMMA EndedReview ==
  ASSUME RunOK, NEW k \in DOMAIN run.stages, NEW status \in Statuses, NEW kind \in FailureKinds
  PROVE  /\ {"reviewSnapshot", "cycle"} \subseteq DOMAIN Ended(k, status, kind)
         /\ Ended(k, status, kind).reviewSnapshot = run.reviewSnapshot
         /\ Ended(k, status, kind).cycle = run.cycle
  BY DEF Ended, RunOK, RunRecord

LEMMA ReviewMovesSo == TypeOK /\ StagesInv /\ Next => ReviewMoves
<1> SUFFICES ASSUME TypeOK, StagesInv, Next PROVE ReviewMoves
  OBVIOUS
<1>0. RunOK /\ run \in RunRecord /\ writer \in Writers
  BY DEF TypeOK, RunOK, CheckoutOK
<1> USE <1>0
<1>1. ASSUME NEW p \in Paths, NEW c \in Contents, Edit(p, c) PROVE ReviewMoves
  BY <1>1 DEF Edit, ReviewMoves, RunRecord
<1>2. CASE Commit
  BY <1>2 DEF Commit, ReviewMoves, RunRecord
<1>3. ASSUME NEW h \in DOMAIN commits, Reset(h) PROVE ReviewMoves
  BY <1>3 DEF Reset, ReviewMoves, RunRecord
<1>4. ASSUME NEW s \in Servers, NEW closeout \in BOOLEAN, PlanChecks(s, closeout) PROVE ReviewMoves
  BY <1>4 DEF PlanChecks, ReviewMoves, RunRecord
<1>5. ASSUME NEW s \in Servers, ExhaustCorrections(s) PROVE ReviewMoves
  BY <1>5 DEF ExhaustCorrections, ReviewMoves, RunRecord
<1>6. ASSUME NEW s \in Servers, NEW name \in Checks, NEW ok \in BOOLEAN, RecordCheck(s, name, ok)
      PROVE  ReviewMoves
  BY <1>6 DEF RecordCheck, ReviewMoves, RunRecord
<1>7. ASSUME NEW s \in Servers, StartCritic(s) PROVE ReviewMoves
  BY <1>7, StartKeepsReview DEF StartCritic
<1>8. ASSUME NEW s \in Servers, NEW k \in DOMAIN run.stages, RetryCritic(s, k) PROVE ReviewMoves
  BY <1>8, StartKeepsReview DEF RetryCritic
<1>9. ASSUME NEW s \in Servers, StartImplement(s) PROVE ReviewMoves
  BY <1>9, StartKeepsReview DEF StartImplement
<1>10. ASSUME NEW s \in Servers, NEW k \in StageIds, CancelStage(s, k) PROVE ReviewMoves
  BY <1>10 DEF CancelStage, ReviewMoves, RunRecord
<1>11. ASSUME NEW s \in Servers, ResolveFindings(s) PROVE ReviewMoves
  BY <1>11 DEF ResolveFindings, Resolved, ReviewMoves, RunRecord
<1>12. ASSUME NEW s \in Servers, NEW forms \in SUBSET FindingForms, NEW question \in BOOLEAN,
              SupplyReview(s, forms, question)
       PROVE  ReviewMoves
  <2>1. /\ run.fp = Fingerprint /\ run.identity = head
        /\ writer = "codex" => FallbackAllowed(run.fp, run.cycle + 1)
    BY <1>12 DEF SupplyReview, SuppliedReviewAllowed, ResolutionAllowed, EvidenceFresh, TreeChecked
  <2>2. Recorded(SuppliedOrigin)
    BY <1>12, <2>1 DEF SupplyReview, Recorded
  <2>3. SuppliedOrigin \in Independent /\ LimitFor(SuppliedOrigin)
    BY <1>0, <2>1, RunAssumption DEF SuppliedOrigin, Independent, LimitFor
  <2>4. run'.reviewSnapshot = Fingerprint /\ run'.cycle = run.cycle + 1
    <3> DEFINE base == [run EXCEPT !.cycle = @ + 1, !.reviewSnapshot = run.fp]
    <3>1. run' = Resolved(base, review', resolutions')
      BY <1>12 DEF SupplyReview
    <3>2. /\ base.reviewSnapshot = run.fp /\ base.cycle = run.cycle + 1
          /\ {"reviewSnapshot", "cycle"} \subseteq DOMAIN base
      BY DEF RunRecord
    <3> HIDE DEF base
    <3>3. run'.reviewSnapshot = base.reviewSnapshot /\ run'.cycle = base.cycle
      BY <3>1, <3>2 DEF Resolved
    <3>4. QED
      BY <2>1, <3>2, <3>3
  <2>5. QED
    BY <2>2, <2>3, <2>4 DEF ReviewMoves
<1>13. ASSUME NEW s \in Servers, NEW forms \in SUBSET FindingForms, NEW question \in BOOLEAN,
              SupplyReviewCrash(s, forms, question)
       PROVE  ReviewMoves
  <2>1. /\ run.fp = Fingerprint /\ run.identity = head
        /\ writer = "codex" => FallbackAllowed(run.fp, run.cycle + 1)
    BY <1>13 DEF SupplyReviewCrash, SuppliedReviewAllowed, ResolutionAllowed, EvidenceFresh, TreeChecked
  <2>2. Recorded(SuppliedOrigin)
    BY <1>13, <2>1 DEF SupplyReviewCrash, Recorded
  <2>3. SuppliedOrigin \in Independent /\ LimitFor(SuppliedOrigin)
    BY <1>0, <2>1, RunAssumption DEF SuppliedOrigin, Independent, LimitFor
  <2>4. run'.reviewSnapshot = run.reviewSnapshot /\ "files" \in Faults
    BY <1>13 DEF SupplyReviewCrash, CrashAfterReviewSaved
  <2>5. QED
    BY <2>2, <2>3, <2>4 DEF ReviewMoves
<1>14. ASSUME NEW s \in Servers, NEW status \in TerminalPhases, Finish(s, status) PROVE ReviewMoves
  BY <1>14 DEF Finish, ReviewMoves, RunRecord
<1>15. ASSUME NEW s \in Servers, FinishRefused(s) PROVE ReviewMoves
  BY <1>15 DEF FinishRefused, ReviewMoves, RunRecord
<1>16. ASSUME NEW s \in Servers, Recover(s) PROVE ReviewMoves
  BY <1>16 DEF Recover, ReviewMoves, RunRecord
<1>17. ASSUME NEW s \in Servers, Crash(s) PROVE ReviewMoves
  BY <1>17 DEF Crash, ReviewMoves, RunRecord
<1>18. ASSUME NEW s \in Servers, NEW k \in StageIds, NEW forms \in SUBSET FindingForms,
              NEW question \in BOOLEAN, CriticCompletesCrash(s, k, forms, question)
       PROVE  ReviewMoves
  <2>1. Recorded("claude") /\ run' = run /\ "files" \in Faults
    BY <1>18 DEF CriticCompletesCrash, DescribesCheckout, CrashAfterReviewSaved, Recorded
  <2>2. writer = "codex"
    BY <1>18 DEF CriticCompletesCrash, StagesInv, WritersStages
  <2>3. QED
    BY <2>1, <2>2 DEF ReviewMoves, Independent, LimitFor
<1>19. ASSUME NEW s \in Servers, NEW k \in StageIds, StageEnds(s, k) PROVE ReviewMoves
  <2>0. k \in DOMAIN run.stages /\ \A status \in Statuses, kind \in FailureKinds :
          /\ {"reviewSnapshot", "cycle"} \subseteq DOMAIN Ended(k, status, kind)
          /\ Ended(k, status, kind).reviewSnapshot = run.reviewSnapshot
          /\ Ended(k, status, kind).cycle = run.cycle
    BY <1>19, EndedReview DEF StageEnds
  <2>a. /\ {"none", "stale_review"} \cup ProviderKinds \subseteq FailureKinds
        /\ {"completed", "failed", "interrupted"} \subseteq Statuses
    BY DEF FailureKinds, Statuses, ProviderKinds, TransientKinds
  <2>1. ASSUME NEW forms \in SUBSET FindingForms, NEW question \in BOOLEAN,
               CriticCompletes(s, k, forms, question)
        PROVE  ReviewMoves
    <3>1. Recorded("claude") /\ run.stages[k].fp = Fingerprint
      BY <2>1 DEF CriticCompletes, DescribesCheckout, Recorded
    <3>2. run'.reviewSnapshot = Fingerprint /\ run'.cycle = run.cycle + 1
      BY <2>0, <2>1, <2>a, <3>1 DEF CriticCompletes
    <3>3. writer = "codex"
      BY <2>0, <2>1 DEF CriticCompletes, StagesInv, WritersStages
    <3>4. QED
      BY <3>1, <3>2, <3>3 DEF ReviewMoves, Independent, LimitFor
  <2>2. ASSUME NEW status \in Statuses, NEW kind \in FailureKinds, EndsPreserved(s, k, status, kind)
        PROVE  ReviewMoves
    BY <2>0, <2>2 DEF EndsPreserved, ReviewMoves
  <2>3. ASSUME NEW kind \in FailureKinds, StageFails(s, k, kind) PROVE ReviewMoves
    BY <2>0, <2>a, <2>3 DEF StageFails, ReviewMoves
  <2>4. CASE CriticStale(s, k)
    BY <2>0, <2>a, <2>4 DEF CriticStale, ReviewMoves
  <2>5. CASE ImplementCompletes(s, k)
    BY <2>0, <2>a, <2>5 DEF ImplementCompletes, ReviewMoves
  <2>6. CASE StageInterrupted(s, k)
    BY <2>0, <2>a, <2>6 DEF StageInterrupted, ReviewMoves
  <2>7. CASE CallbackLost(s, k)
    BY <2>7 DEF CallbackLost, ReviewMoves
  <2>8. QED
    BY <1>19, <2>a, <2>1, <2>2, <2>3, <2>4, <2>5, <2>6, <2>7 DEF StageEnds
<1>20. QED
  BY <1>1, <1>2, <1>3, <1>4, <1>5, <1>6, <1>7, <1>8, <1>9, <1>10, <1>11, <1>12, <1>13,
       <1>14, <1>15, <1>16, <1>17, <1>18, <1>19 DEF Next, Checkout, Handler, ServerCrash

----------------------------------------------------------------------------
(* A fallback has its limit.                                               *)

LEMMA LimitStays ==
  ASSUME TypeOK, StagesInv, Next, NEW k \in DOMAIN run.stages,
         run.stages[k].kind = "anthropic_limit"
  PROVE  /\ k \in DOMAIN run'.stages
         /\ run'.stages[k].kind = "anthropic_limit"
         /\ run'.stages[k].fp = run.stages[k].fp
         /\ run'.stages[k].identity = run.stages[k].identity
         /\ run'.stages[k].cycle = run.stages[k].cycle
<1>1. run.stages \in Seq(StageRecord) /\ Len(run.stages) \in Nat
  BY StagesType DEF TypeOK
<1>2. CASE StagesKept
  <2>1. DOMAIN run'.stages = DOMAIN run.stages
    BY <1>1, <1>2 DEF StagesKept
  <2>2. run'.stages[k].kind = run.stages[k].kind
    BY <1>2, KindStays
  <2>3. QED
    BY <1>2, <2>1, <2>2 DEF StagesKept, SameStage
<1>3. ASSUME NEW s \in Servers, NEW stage \in StageRecord, StageAdded(s, stage)
      PROVE  k \in DOMAIN run'.stages /\ run'.stages[k] = run.stages[k]
  <2>1. run'.stages = Append(run.stages, stage)
    BY <1>3 DEF StageAdded
  <2>2. QED
    BY <1>1, <2>1
<1>4. QED
  BY <1>2, <1>3, StagesFrame DEF StagesStep

LEMMA FallbackLimitStep == TypeOK /\ StagesInv /\ FallbackHasLimit /\ Next => FallbackHasLimit'
<1> SUFFICES ASSUME TypeOK, StagesInv, FallbackHasLimit, Next,
                    review' # None, review'.origin = "codex_fallback"
             PROVE  \E k \in DOMAIN run'.stages :
                      /\ run'.stages[k].kind = "anthropic_limit"
                      /\ run'.stages[k].fp = review'.fp
                      /\ run'.stages[k].identity = review'.identity
                      /\ run'.stages[k].cycle = review'.cycle
  BY DEF FallbackHasLimit
<1>1. PICK k \in DOMAIN run.stages :
              /\ run.stages[k].kind = "anthropic_limit"
              /\ run.stages[k].fp = review'.fp
              /\ run.stages[k].identity = review'.identity
              /\ run.stages[k].cycle = review'.cycle
  <2>1. CASE review' = review
    BY <2>1 DEF FallbackHasLimit
  <2>2. ASSUME NEW origin, Recorded(origin), LimitFor(origin)
        PROVE  \E k \in DOMAIN run.stages :
                 /\ run.stages[k].kind = "anthropic_limit"
                 /\ run.stages[k].fp = review'.fp
                 /\ run.stages[k].identity = review'.identity
                 /\ run.stages[k].cycle = review'.cycle
    <3>1. /\ review'.fp = Fingerprint /\ review'.identity = head
          /\ review'.cycle = run.cycle + 1 /\ review'.origin = origin
      BY <2>2 DEF Recorded, RecordReview
    <3>2. run.identity = head /\ FallbackAllowed(Fingerprint, run.cycle + 1)
      BY <2>2, <3>1 DEF LimitFor
    <3>3. QED
      BY <3>1, <3>2 DEF FallbackAllowed
  <2>3. QED
    BY <2>1, <2>2, ReviewMovesSo DEF ReviewMoves
<1>2. QED
  BY <1>1, LimitStays

(* A review by the writer's own provider rests on a usage limit of the     *)
(* very tree, revision and cycle it reviews, whatever came between.        *)
THEOREM FallbackAlwaysExcused == Spec => []FallbackHasLimit
<1>1. Init => FallbackHasLimit
  BY DEF Init, FallbackHasLimit
<1>2. FallbackHasLimit /\ UNCHANGED vars => FallbackHasLimit'
  BY DEF FallbackHasLimit
<1>3. TypeOK /\ StagesInv /\ FallbackHasLimit /\ [Next]_vars => FallbackHasLimit'
  BY <1>2, FallbackLimitStep
<1>4. QED
  BY <1>1, <1>3, TypeCorrect, StagesInvHolds, PTL DEF Spec

----------------------------------------------------------------------------
(* A fallback counts.                                                      *)

AllFailedSo == \A k \in DOMAIN run.stages : FailedSo(run.stages[k])

(* The review on record is the last the run counted, and is independent.   *)
ReviewCounted == review # None => review.cycle = run.cycle /\ review.origin \in Independent

LEMMA FailuresStep == TypeOK /\ AllFailedSo /\ Next => AllFailedSo'
<1> SUFFICES ASSUME TypeOK, AllFailedSo, Next PROVE AllFailedSo'
  OBVIOUS
<1>1. run.stages \in Seq(StageRecord) /\ Len(run.stages) \in Nat
  BY StagesType DEF TypeOK
<1>2. CASE StagesKept
  <2>1. DOMAIN run'.stages = DOMAIN run.stages
    BY <1>1, <1>2 DEF StagesKept
  <2>2. QED
    BY <1>2, <2>1 DEF StagesKept, SameStage, AllFailedSo
<1>3. ASSUME NEW s \in Servers, NEW stage \in StageRecord, StageAdded(s, stage) PROVE AllFailedSo'
  <2>1. run'.stages = Append(run.stages, stage) /\ FailedSo(stage)
    BY <1>3 DEF StageAdded
  <2>2. \A k \in DOMAIN run'.stages :
          \/ run'.stages[k] = stage
          \/ k \in DOMAIN run.stages /\ run'.stages[k] = run.stages[k]
    BY <1>1, <2>1
  <2>3. QED
    BY <2>1, <2>2 DEF AllFailedSo
<1>4. QED
  BY <1>2, <1>3, StagesFrame DEF StagesStep

LEMMA CountedStep ==
  ASSUME "files" \notin Faults, TypeOK, StagesInv, ReviewCounted, Next
  PROVE  ReviewCounted'
<1>1. Independent' = Independent
  BY WriterFrame DEF Independent
<1>2. CASE review' = review /\ run'.cycle = run.cycle
  BY <1>1, <1>2 DEF ReviewCounted
<1>3. ASSUME NEW origin \in Independent, Recorded(origin), run'.cycle = run.cycle + 1
      PROVE  ReviewCounted'
  <2>1. review'.cycle = run.cycle + 1 /\ review'.origin = origin
    BY <1>3 DEF Recorded, RecordReview
  <2>2. QED
    BY <1>1, <1>3, <2>1 DEF ReviewCounted
<1>4. QED
  BY <1>2, <1>3, ReviewMovesSo DEF ReviewMoves

(* The limit that excused the review is of a critic stage that failed, in  *)
(* the cycle the run is in.                                                *)
LEMMA CountedFallback ==
  ASSUME StagesInv, AllFailedSo, ReviewCounted, FallbackHasLimit, TypeOK
  PROVE  FallbackReviewCounts
<1> SUFFICES ASSUME review # None, review.origin = "codex_fallback", review.fp = run.fp,
                    review.identity = run.identity
             PROVE  IndependentReview(run.fp)
  BY DEF FallbackReviewCounts
<1>1. PICK k \in DOMAIN run.stages :
        /\ run.stages[k].kind = "anthropic_limit"
        /\ run.stages[k].fp = review.fp
        /\ run.stages[k].identity = review.identity
        /\ run.stages[k].cycle = review.cycle
  BY DEF FallbackHasLimit
<1>2. review.cycle = run.cycle /\ writer # "claude"
  BY DEF ReviewCounted, Independent
<1>3. run.stages[k].status = "failed"
  BY <1>1 DEF AllFailedSo, FailedSo
<1>4. run.stages[k].profile = "critic"
  <2>1. run.stages[k] \in StageRecord
    BY StagesType DEF TypeOK
  <2>2. run.stages[k].profile \in {"critic", "implement"}
    BY <2>1 DEF StageRecord
  <2>3. QED
    BY <1>2, <2>2 DEF StagesInv, WritersStages
<1>5. FallbackAllowed(run.fp, run.cycle)
  BY <1>1, <1>2, <1>3, <1>4 DEF FallbackAllowed
<1>6. QED
  BY <1>2, <1>5 DEF IndependentReview

(* Once a fallback review is stored for the evidence of a run, the gate of completion counts it, whatever
   stages, restarts and resolutions follow: unless a server dies between saving the review and saving the
   cycle it belongs to (the fault "files"). *)
THEOREM FallbackAlwaysCounts ==
  ASSUME "files" \notin Faults
  PROVE  Spec => []FallbackReviewCounts
<1>1. Init => AllFailedSo /\ ReviewCounted
  BY DEF Init, AllFailedSo, ReviewCounted
<1>2. AllFailedSo /\ ReviewCounted /\ UNCHANGED vars => AllFailedSo' /\ ReviewCounted'
  BY DEF AllFailedSo, ReviewCounted, Independent
<1>3. TypeOK /\ StagesInv /\ AllFailedSo /\ ReviewCounted /\ [Next]_vars => AllFailedSo' /\ ReviewCounted'
  BY <1>2, FailuresStep, CountedStep
<1>4. StagesInv /\ AllFailedSo /\ ReviewCounted /\ FallbackHasLimit /\ TypeOK => FallbackReviewCounts
  BY CountedFallback
<1>5. QED
  BY <1>1, <1>3, <1>4, TypeCorrect, StagesInvHolds, FallbackAlwaysExcused, PTL DEF Spec

----------------------------------------------------------------------------
(* Completion is evidenced.                                                *)

(* The review on record, and the snapshot closeout compares with, are      *)
(* those of a report by somebody other than the writer.                    *)
ReviewReported ==
  review # None =>
    \E i \in DOMAIN reports :
      reports[i] = [fp |-> review.fp, head |-> review.identity, origin |-> review.origin]

SnapshotReported ==
  run.reviewSnapshot # None =>
    \E i \in DOMAIN reports : reports[i].fp = run.reviewSnapshot /\ reports[i].origin \in Independent

LEMMA ReportedStep ==
  TypeOK /\ StagesInv /\ ReviewReported /\ SnapshotReported /\ Next => ReviewReported' /\ SnapshotReported'
<1> SUFFICES ASSUME TypeOK, StagesInv, ReviewReported, SnapshotReported, Next
             PROVE  ReviewReported' /\ SnapshotReported'
  OBVIOUS
<1>1. Independent' = Independent
  BY WriterFrame DEF Independent
<1>2. CASE UNCHANGED <<review, reports>> /\ run'.reviewSnapshot = run.reviewSnapshot
  BY <1>1, <1>2 DEF ReviewReported, SnapshotReported
<1>3. ASSUME NEW origin \in Independent, Recorded(origin),
             run'.reviewSnapshot \in {run.reviewSnapshot, Fingerprint}
      PROVE  ReviewReported' /\ SnapshotReported'
  <2> DEFINE report == [fp |-> Fingerprint, head |-> head, origin |-> origin]
  <2>1. /\ review'.fp = Fingerprint /\ review'.identity = head /\ review'.origin = origin
        /\ reports' = Append(reports, report)
    BY <1>3 DEF Recorded, RecordReview
  <2>2. reports \in Seq(ReportRecord) /\ Len(reports) \in Nat
    BY DEF TypeOK, ReviewOK
  <2>3. /\ Len(reports) + 1 \in DOMAIN reports' /\ reports'[Len(reports) + 1] = report
        /\ \A i \in DOMAIN reports : i \in DOMAIN reports' /\ reports'[i] = reports[i]
    BY <2>1, <2>2
  <2>4. ReviewReported'
    BY <2>1, <2>3 DEF ReviewReported
  <2>5. SnapshotReported'
    <3>1. CASE run'.reviewSnapshot = Fingerprint
      BY <1>1, <1>3, <2>3, <3>1 DEF SnapshotReported
    <3>2. CASE run'.reviewSnapshot = run.reviewSnapshot
      BY <1>1, <2>3, <3>2 DEF SnapshotReported
    <3>3. QED
      BY <1>3, <3>1, <3>2
  <2>6. QED
    BY <2>4, <2>5
<1>4. QED
  BY <1>2, <1>3, ReviewMovesSo DEF ReviewMoves

LEMMA ReportedHolds == Spec => [](ReviewReported /\ SnapshotReported)
<1>1. Init => ReviewReported /\ SnapshotReported
  BY DEF Init, ReviewReported, SnapshotReported
<1>2. ReviewReported /\ SnapshotReported /\ UNCHANGED vars => ReviewReported' /\ SnapshotReported'
  BY DEF ReviewReported, SnapshotReported, Independent
<1>3. TypeOK /\ StagesInv /\ ReviewReported /\ SnapshotReported /\ [Next]_vars
        => ReviewReported' /\ SnapshotReported'
  BY <1>2, ReportedStep
<1>4. QED
  BY <1>1, <1>3, TypeCorrect, StagesInvHolds, PTL DEF Spec

Evidenced ==
  /\ \A name \in Checks : \E r \in run.passed : r.name = name /\ r.fp = Fingerprint
  /\ \E i \in DOMAIN reports :
       /\ reports[i].origin \in IF writer = "claude" THEN {"codex"} ELSE {"claude", "codex_fallback"}
       /\ LET delta == SnapshotDelta(reports[i].fp, Fingerprint) IN
          /\ delta \subseteq {f.file : f \in {f \in review.findings :
                                             f.severity = "P3"}} \cap EditorialPaths
          /\ delta = {} /\ run.closeout = None => reports[i].head = head

LEMMA GateEvidence ==
  ASSUME TypeOK, ReviewReported, SnapshotReported, CompletionGate PROVE Evidenced
<1>1. /\ run.identity = head /\ run.fp = Fingerprint /\ GateGreen /\ review # None
  BY DEF CompletionGate, EvidenceFresh, TreeChecked
<1>2. \A name \in Checks : \E r \in run.passed : r.name = name /\ r.fp = Fingerprint
  BY <1>1 DEF GateGreen
<1>3. CASE run.closeout = None
  <2>1. IndependentReview(Fingerprint) /\ review.fp = Fingerprint /\ review.identity = head
    BY <1>1, <1>3 DEF CompletionGate
  <2>2. review.origin \in Independent
    BY <2>1 DEF IndependentReview, Independent
  <2>3. PICK i \in DOMAIN reports :
               reports[i] = [fp |-> review.fp, head |-> review.identity, origin |-> review.origin]
    BY <1>1 DEF ReviewReported
  <2>4. SnapshotDelta(reports[i].fp, Fingerprint) = {}
    BY <2>1, <2>3 DEF SnapshotDelta
  <2>5. reports[i].head = head /\ reports[i].origin \in Independent
    BY <2>1, <2>2, <2>3
  <2>6. QED
    BY <1>2, <2>4, <2>5 DEF Evidenced, Independent
<1>4. CASE run.closeout # None
  <2>1. CloseoutPermitted(run.reviewSnapshot, Fingerprint)
    BY <1>4 DEF CompletionGate
  <2>2. /\ run.reviewSnapshot # None
        /\ \A f \in {f \in review.findings : ~Refuted(f)} : f.severity = "P3"
        /\ SnapshotDelta(run.reviewSnapshot, Fingerprint)
             \subseteq {f.file : f \in {f \in review.findings : ~Refuted(f)}} \cap EditorialPaths
    BY <2>1 DEF CloseoutPermitted
  <2>3. PICK i \in DOMAIN reports :
               reports[i].fp = run.reviewSnapshot /\ reports[i].origin \in Independent
    BY <2>2 DEF SnapshotReported
  <2>4. {f.file : f \in {f \in review.findings : ~Refuted(f)}}
          \subseteq {f.file : f \in {f \in review.findings : f.severity = "P3"}}
    BY <2>2
  <2>5. SnapshotDelta(reports[i].fp, Fingerprint)
             \subseteq {f.file : f \in {f \in review.findings : f.severity = "P3"}} \cap EditorialPaths
    BY <2>2, <2>3, <2>4
  <2>6. QED
    BY <1>2, <1>4, <2>3, <2>5 DEF Evidenced, Independent
<1>5. QED
  BY <1>3, <1>4

(* Whatever the servers, the writer and Git did before, the checkout a run *)
(* is completed on was checked, and reviewed by somebody other than its    *)
(* writer, but for editorial files of P3 findings.                         *)
THEOREM CompleteAlwaysEvidenced == Spec => CompleteIsEvidenced
<1>1. TypeOK /\ StagesInv /\ ReviewReported /\ SnapshotReported /\ [Next]_vars
        => [run'.phase = "complete" /\ run.phase # "complete" => Evidenced]_vars
  <2> SUFFICES ASSUME TypeOK, ReviewReported, SnapshotReported, Next,
                      run'.phase = "complete", run.phase # "complete"
               PROVE  Evidenced
    OBVIOUS
  <2>1. CompletionGate
    BY OnlyFinishCompletes DEF TypeOK, Finish
  <2>2. QED
    BY <2>1, GateEvidence
<1>2. QED
  BY <1>1, TypeCorrect, StagesInvHolds, ReportedHolds, PTL DEF Spec, CompleteIsEvidenced, Evidenced

----------------------------------------------------------------------------
(* Corrections are charged.                                                *)

(* Only plan_checks changes the planned tree, and only a stage of Claude's *)
(* sends a run back to writing.                                            *)
Unplanned ==
  /\ run'.fp = run.fp
  /\ writer = "codex" /\ run'.phase = "writing" =>
       run.phase = "writing" /\ run'.summary = run.summary

PlanOrNot == Unplanned \/ \E s \in Servers, closeout \in BOOLEAN : PlanChecks(s, closeout)

LEMMA StartUnplanned ==
  ASSUME RunOK, NEW s, NEW profile, NEW retryOf, StartStage(s, profile, retryOf)
  PROVE  Unplanned
  BY DEF StartStage, Launch, LaunchFails, CooldownSkips, Unplanned, RunOK, RunRecord

LEMMA EndUnplanned ==
  ASSUME RunOK, WritersStages, NEW s \in Servers, NEW k \in StageIds, StageEnds(s, k)
  PROVE  Unplanned
<1>1. \A status, kind : LET ended == Ended(k, status, kind) IN
        /\ {"phase", "terminal", "fp", "summary"} \subseteq DOMAIN ended
        /\ ended.phase = run.phase /\ ended.fp = run.fp /\ ended.summary = run.summary
  BY DEF Ended, RunOK, RunRecord
<1>2. \A status, kind : EndsPreserved(s, k, status, kind) => Unplanned
  BY <1>1 DEF EndsPreserved, Unplanned
<1>3. \A kind : StageFails(s, k, kind) => Unplanned
  <2> SUFFICES ASSUME NEW kind, StageFails(s, k, kind) PROVE Unplanned
    OBVIOUS
  <2>1. PhaseAfterFailure(k, kind) # "writing"
    BY DEF PhaseAfterFailure
  <2>2. QED
    BY <1>1, <2>1 DEF StageFails, Unplanned
<1>4. CriticStale(s, k) => Unplanned
  BY <1>1 DEF CriticStale, Unplanned
<1>5. \A forms, question : CriticCompletes(s, k, forms, question) => Unplanned
  BY <1>1 DEF CriticCompletes, Unplanned
<1>6. ImplementCompletes(s, k) => Unplanned
  <2> SUFFICES ASSUME ImplementCompletes(s, k) PROVE Unplanned
    OBVIOUS
  <2>1. writer # "codex"
    BY DEF ImplementCompletes, StageEnds, WritersStages
  <2>2. QED
    BY <1>1, <2>1 DEF ImplementCompletes, Unplanned
<1>7. StageInterrupted(s, k) => Unplanned
  BY <1>1 DEF StageInterrupted, Unplanned
<1>8. CallbackLost(s, k) => Unplanned
  BY DEF CallbackLost, Unplanned
<1>9. QED
  BY <1>2, <1>3, <1>4, <1>5, <1>6, <1>7, <1>8 DEF StageEnds

LEMMA OnlyPlansMove == TypeOK /\ StagesInv /\ Next => PlanOrNot
<1> SUFFICES ASSUME TypeOK, StagesInv, Next PROVE PlanOrNot
  OBVIOUS
<1>0. RunOK /\ run \in RunRecord /\ WritersStages
  BY DEF TypeOK, RunOK, StagesInv
<1> USE <1>0
<1>1. ASSUME NEW p \in Paths, NEW c \in Contents, Edit(p, c) PROVE PlanOrNot
  BY <1>1 DEF Edit, PlanOrNot, Unplanned, RunRecord
<1>2. CASE Commit
  BY <1>2 DEF Commit, PlanOrNot, Unplanned, RunRecord
<1>3. ASSUME NEW h \in DOMAIN commits, Reset(h) PROVE PlanOrNot
  BY <1>3 DEF Reset, PlanOrNot, Unplanned, RunRecord
<1>4. ASSUME NEW s \in Servers, NEW closeout \in BOOLEAN, PlanChecks(s, closeout) PROVE PlanOrNot
  BY <1>4 DEF PlanOrNot
<1>5. ASSUME NEW s \in Servers, ExhaustCorrections(s) PROVE PlanOrNot
  BY <1>5 DEF ExhaustCorrections, PlanOrNot, Unplanned, RunRecord
<1>6. ASSUME NEW s \in Servers, NEW name \in Checks, NEW ok \in BOOLEAN, RecordCheck(s, name, ok)
      PROVE  PlanOrNot
  BY <1>6 DEF RecordCheck, PlanOrNot, Unplanned, RunRecord
<1>7. ASSUME NEW s \in Servers, StartCritic(s) PROVE PlanOrNot
  BY <1>7, StartUnplanned DEF StartCritic, PlanOrNot
<1>8. ASSUME NEW s \in Servers, NEW k \in DOMAIN run.stages, RetryCritic(s, k) PROVE PlanOrNot
  BY <1>8, StartUnplanned DEF RetryCritic, PlanOrNot
<1>9. ASSUME NEW s \in Servers, StartImplement(s) PROVE PlanOrNot
  BY <1>9, StartUnplanned DEF StartImplement, PlanOrNot
<1>10. ASSUME NEW s \in Servers, NEW k \in StageIds, CancelStage(s, k) PROVE PlanOrNot
  BY <1>10 DEF CancelStage, PlanOrNot, Unplanned, RunRecord
<1>11. ASSUME NEW s \in Servers, ResolveFindings(s) PROVE PlanOrNot
  BY <1>11 DEF ResolveFindings, Resolved, PlanOrNot, Unplanned, RunRecord
<1>12. ASSUME NEW s \in Servers, NEW forms \in SUBSET FindingForms, NEW question \in BOOLEAN,
              SupplyReview(s, forms, question)
       PROVE  PlanOrNot
  <2> DEFINE base == [run EXCEPT !.cycle = @ + 1, !.reviewSnapshot = run.fp]
  <2>1. run' = Resolved(base, review', resolutions')
    BY <1>12 DEF SupplyReview
  <2>2. base.fp = run.fp /\ {"fp", "phase"} \subseteq DOMAIN base
    BY DEF RunRecord
  <2> HIDE DEF base
  <2>3. run'.fp = base.fp /\ run'.phase # "writing"
    BY <2>1, <2>2 DEF Resolved
  <2>4. QED
    BY <2>2, <2>3 DEF PlanOrNot, Unplanned
<1>13. ASSUME NEW s \in Servers, NEW forms \in SUBSET FindingForms, NEW question \in BOOLEAN,
              SupplyReviewCrash(s, forms, question)
       PROVE  PlanOrNot
  BY <1>13 DEF SupplyReviewCrash, CrashAfterReviewSaved, PlanOrNot, Unplanned, RunRecord
<1>14. ASSUME NEW s \in Servers, NEW status \in TerminalPhases, Finish(s, status) PROVE PlanOrNot
  BY <1>14 DEF Finish, PlanOrNot, Unplanned, RunRecord, TerminalPhases
<1>15. ASSUME NEW s \in Servers, FinishRefused(s) PROVE PlanOrNot
  BY <1>15 DEF FinishRefused, PlanOrNot, Unplanned, RunRecord
<1>16. ASSUME NEW s \in Servers, Recover(s) PROVE PlanOrNot
  BY <1>16 DEF Recover, PlanOrNot, Unplanned, RunRecord
<1>17. ASSUME NEW s \in Servers, Crash(s) PROVE PlanOrNot
  BY <1>17 DEF Crash, PlanOrNot, Unplanned, RunRecord
<1>18. ASSUME NEW s \in Servers, NEW k \in StageIds, NEW forms \in SUBSET FindingForms,
              NEW question \in BOOLEAN, CriticCompletesCrash(s, k, forms, question)
       PROVE  PlanOrNot
  BY <1>18 DEF CriticCompletesCrash, CrashAfterReviewSaved, PlanOrNot, Unplanned, RunRecord
<1>19. ASSUME NEW s \in Servers, NEW k \in StageIds, StageEnds(s, k) PROVE PlanOrNot
  BY <1>19, EndUnplanned DEF PlanOrNot
<1>20. QED
  BY <1>1, <1>2, <1>3, <1>4, <1>5, <1>6, <1>7, <1>8, <1>9, <1>10, <1>11, <1>12, <1>13,
       <1>14, <1>15, <1>16, <1>17, <1>18, <1>19 DEF Next, Checkout, Handler, ServerCrash

(* A run that Codex writes has no reviewed tree while it is in writing.    *)
WritingUnreviewed == writer = "codex" /\ run.phase = "writing" => run.summary = None

LEMMA WritingUnreviewedHolds == Spec => []WritingUnreviewed
<1>1. Init => WritingUnreviewed
  BY DEF Init, WritingUnreviewed
<1>2. TypeOK /\ StagesInv /\ WritingUnreviewed /\ [Next]_vars => WritingUnreviewed'
  <2> SUFFICES ASSUME TypeOK, StagesInv, WritingUnreviewed, [Next]_vars PROVE WritingUnreviewed'
    OBVIOUS
  <2>1. CASE UNCHANGED vars
    BY <2>1 DEF WritingUnreviewed
  <2>2. CASE Next
    <3>1. writer' = writer
      BY <2>2, WriterFrame
    <3>2. CASE Unplanned
      BY <3>1, <3>2 DEF Unplanned, WritingUnreviewed
    <3>3. ASSUME NEW s \in Servers, NEW closeout \in BOOLEAN, PlanChecks(s, closeout)
          PROVE  run'.phase = "checking"
      BY <3>3 DEF PlanChecks, TypeOK, RunOK, RunRecord
    <3>4. QED
      BY <2>2, <3>2, <3>3, OnlyPlansMove DEF PlanOrNot, WritingUnreviewed
  <2>3. QED
    BY <2>1, <2>2
<1>3. QED
  BY <1>1, <1>2, TypeCorrect, StagesInvHolds, PTL DEF Spec

LEMMA PlanCharged ==
  ASSUME TypeOK, WritingUnreviewed, writer = "codex",
         NEW s \in Servers, NEW closeout \in BOOLEAN, PlanChecks(s, closeout)
  PROVE  Charged
<1> SUFFICES ASSUME run.summary # None, run.fp = run.summary,
                    run'.identity = run.identity, run'.closeout = None
             PROVE  run'.corrections = run.corrections + 1
  BY DEF Charged
<1>1. RunOK /\ run \in RunRecord /\ review \in {None} \cup ReviewRecord
  BY DEF TypeOK, RunOK, ReviewOK
<1>2. run.identity = head
  BY <1>1 DEF PlanChecks, RunRecord
<1>3. ~closeout
  <2> SUFFICES ASSUME closeout PROVE FALSE
    OBVIOUS
  <2> DEFINE plan == [source |-> review.fp, fp |-> Fingerprint,
                      paths |-> SnapshotDelta(run.reviewSnapshot, Fingerprint)]
  <2>1. review # None
    BY DEF PlanChecks, PlanAccepted, CloseoutPermitted
  <2>2. review.fp \in Fingerprints /\ Fingerprint \in Fingerprints
    BY <1>1, <2>1, FingerprintType DEF ReviewRecord, TypeOK
  <2>3. plan.paths \in SUBSET Paths
    BY DeltaType
  <2>4. plan \in CloseoutRecord
    BY <2>2, <2>3 DEF CloseoutRecord
  <2>5. run'.closeout = plan
    BY <1>1 DEF PlanChecks, RunRecord
  <2>6. QED
    BY <2>4, <2>5, NoneAssumption
<1>4. run.phase \in {"checking", "reviewing", "correcting"}
  BY <1>1 DEF PlanChecks, PlanAccepted, Open, WritingUnreviewed, RunRecord, Phases, OpenPhases
<1>5. ChargesCorrection(closeout)
  BY <1>2, <1>3, <1>4 DEF ChargesCorrection, LeavesReview
<1>6. QED
  BY <1>1, <1>5 DEF PlanChecks, RunRecord

(* However handlers, stages and restarts interleave, a run that Codex      *)
(* writes leaves a reviewed tree only by closeout or for a correction.     *)
THEOREM CorrectionsAlwaysCharged == Spec => CorrectionsCharged
<1>1. TypeOK /\ StagesInv /\ WritingUnreviewed /\ [Next]_vars => [writer = "codex" => Charged]_vars
  <2> SUFFICES ASSUME TypeOK, StagesInv, WritingUnreviewed, Next, writer = "codex" PROVE Charged
    OBVIOUS
  <2>1. CASE Unplanned
    BY <2>1 DEF Unplanned, Charged
  <2>2. QED
    BY <2>1, PlanCharged, OnlyPlansMove DEF PlanOrNot
<1>2. QED
  BY <1>1, TypeCorrect, StagesInvHolds, WritingUnreviewedHolds, PTL DEF Spec, CorrectionsCharged
=============================================================================
