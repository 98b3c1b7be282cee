------------------------------ MODULE HarnessRun ------------------------------
(***************************************************************************)
(* One durable run of the harness: the files state.json (run) and          *)
(* review.json (reviewFile) of a run directory, the Git checkout the run   *)
(* is about, and the server processes that serve the MCP tools over them.  *)
(* Every handler of HarnessService reads the files, decides, and replaces  *)
(* them under the lock of its own process, so a handler is one step.       *)
(* What a handler rejects or answers with "deduplicated" changes nothing   *)
(* and is not a step.                                                      *)
(*                                                                         *)
(* Abstracted: a tree maps paths to contents; a fingerprint and a review   *)
(* snapshot hold the same data (worktree and index, the index being the    *)
(* HEAD tree); the contract file never changes, so an evidence identity is *)
(* the HEAD commit; which checks are planned is a constant.                *)
(***************************************************************************)
EXTENDS Integers, Sequences, FiniteSets

CONSTANTS
  Servers,              \* MCP server processes that share the run directory
  Paths, Contents,      \* files of the checkout and what they can hold
  ScopePaths,           \* contract.scope_paths
  EditorialPaths,       \* the paths closeout may touch (_editorial_path)
  Checks,               \* names of the planned checks
  Writers,              \* the writers a contract may name
  MaxCorrectionPasses,  \* contract.max_correction_passes
  MaxCriticRetries,     \* contract.max_critic_retries
  FindingForms,         \* what a reviewer can report: name, severity, file
  ResolutionForms,      \* what a disposition can be: disposition, resolved
  Faults,               \* faults considered: "crash", "callback", "files"
  MaxCommits, MaxStages, MaxReviews,  \* bounds of the exploration
  None

ASSUME RunAssumption ==
  /\ Paths # {} /\ Checks # {}
  /\ Writers \subseteq {"codex", "claude"}
  /\ MaxCorrectionPasses \in Nat /\ MaxCriticRetries \in Nat
  /\ MaxCommits \in Nat \ {0} /\ MaxStages \in Nat /\ MaxReviews \in Nat
  /\ Faults \subseteq {"crash", "callback", "files"}
  /\ ResolutionForms \subseteq [disposition : {"accepted", "rejected", "unverified"},
                               resolved : BOOLEAN]
  /\ \A form \in FindingForms :
       form.severity \in {"P0", "P1", "P2", "P3"} /\ form.file \in Paths
  /\ \A f, g \in FindingForms : f.name = g.name => f = g
  /\ \A r \in ResolutionForms : r.disposition = "unverified" => ~r.resolved

VARIABLES
  writer,      \* contract.writer
  work,        \* the worktree
  commits,     \* every commit made so far, the run's base first
  head,        \* the commit HEAD names
  run,         \* state.json
  review, resolutions,  \* review.json
  active,      \* _stages of each server: how its ManagedStage of a stage stands
  raised,      \* history: every finding an independent review ever recorded
  closed,      \* history: findings whose review was replaced once they were settled
  reports      \* history: the reviews recorded, as the tree and HEAD they describe

gitVars == <<work, commits, head>>
reviewFile == <<review, resolutions>>
history == <<raised, closed, reports>>
vars == <<writer, gitVars, run, reviewFile, active, history>>

TerminalPhases == {"complete", "needs_human", "blocked", "failed", "interrupted"}
OpenPhases == {"writing", "checking", "reviewing", "correcting"}
Phases == OpenPhases \cup TerminalPhases
TransientKinds == {"transient_timeout", "transient_process_failure"}
FailureKinds == {"none", "anthropic_limit", "launch_error", "stale_review", "process_failure"}
                  \cup TransientKinds
StageIds == 1..MaxStages

----------------------------------------------------------------------------
(* The checkout.                                                           *)

Tree == [Paths -> Contents]
Fingerprints == [work : Tree, index : Tree]
Fingerprint == [work |-> work, index |-> commits[head]]
ChangedPaths == {p \in Paths : work[p] # commits[1][p] \/ commits[head][p] # commits[1][p]}

SnapshotDelta(a, b) ==
  {p \in Paths : a.work[p] # b.work[p] \/ a.index[p] # b.index[p]}

----------------------------------------------------------------------------
(* Reviews, their findings and resolutions.                                *)

Settled(finding, given) ==
  /\ finding.id \in DOMAIN given
  /\ given[finding.id].resolved
  /\ given[finding.id].disposition # "unverified"

AllSettled == \A f \in review.findings : Settled(f, resolutions)

UnresolvedHigh(findings, given) ==
  \E f \in findings : f.severity \in {"P0", "P1"} /\ ~Settled(f, given)

(* What a reviewer delivers; uid is history: which report first raised it. *)
Reported(forms) ==
  {[id |-> [name |-> form.name, prior |-> << >>],
    severity |-> form.severity, file |-> form.file, uid |-> <<form.name, Len(reports)>>] : form \in forms}

Unsettled == {f \in review.findings : ~Settled(f, resolutions)}

MutCarryOnlyUndisposed(fresh) ==
  IF review = None THEN {}
  ELSE {f \in review.findings : f.id \notin DOMAIN resolutions}

MutCarrySameId(fresh) == IF review = None THEN {} ELSE Unsettled

(* Unsettled findings of the review being replaced, renamed where their id *)
(* is taken by a new one.  The code tries suffixes until an id is free;    *)
(* here the number of reviews so far makes one.                            *)
Carried(fresh) ==
  IF review = None THEN {}
  ELSE {IF \E g \in fresh : g.id = f.id
        THEN [f EXCEPT !.id.prior = Append(@, Len(reports))] ELSE f : f \in Unsettled}

Refuted(f) == Settled(f, resolutions) /\ resolutions[f.id].disposition = "rejected"

(* closeout_paths: only accepted P3 findings' editorial files differ from  *)
(* what was reviewed, and the index hides no third version.                *)
CloseoutPermitted(previous, current) ==
  /\ previous # None
  /\ review # None
  /\ ~review.question
  /\ LET open  == {f \in review.findings : ~Refuted(f)}
         paths == SnapshotDelta(previous, current)
     IN  /\ \A f \in open : /\ f.severity = "P3"
                            /\ f.id \in DOMAIN resolutions
                            /\ resolutions[f.id].disposition = "accepted"
         /\ paths # {}
         /\ paths \subseteq {f.file : f \in open} \cap EditorialPaths
         /\ \A p \in paths : previous.index[p] # current.index[p] =>
              previous.index[p] = previous.work[p] /\ current.index[p] = current.work[p]

----------------------------------------------------------------------------
(* state.json.                                                             *)

Stopped(status) == [status |-> status, recovered |-> {}]

NewStage(profile, status, kind, retryOf) ==
  [profile |-> profile, status |-> status, kind |-> kind, fp |-> run.fp,
   identity |-> run.identity, cycle |-> run.cycle + 1, retryOf |-> retryOf]

(* _check_gate: looks only at the results stored under the fingerprint.    *)
(* "at" is history, the HEAD a result was recorded under.                  *)
GateGreen == \A name \in Checks : \E r \in run.passed : r.fp = run.fp /\ r.name = name

EvidenceFresh == run.identity = head
TreeChecked == run.fp = Fingerprint

MutFallbackAnyCycle(fp, cycle) ==
  \E k \in DOMAIN run.stages :
    LET st == run.stages[k] IN
    /\ st.profile = "critic" /\ st.status = "failed" /\ st.kind = "anthropic_limit"
    /\ st.fp = fp /\ st.identity = run.identity

FallbackAllowed(fp, cycle) ==
  \E k \in DOMAIN run.stages :
    LET st == run.stages[k] IN
    /\ st.profile = "critic" /\ st.status = "failed" /\ st.kind = "anthropic_limit"
    /\ st.fp = fp /\ st.identity = run.identity /\ st.cycle = cycle

ImplementationComplete == Len(run.stages) > 0 /\ run.stages[1].status = "completed"

MutFallbackForNextCycle(fp) ==
  IF writer = "claude" THEN review.origin = "codex" /\ ImplementationComplete
  ELSE \/ review.origin = "claude"
       \/ review.origin = "codex_fallback" /\ FallbackAllowed(fp, run.cycle + 1)

IndependentReview(fp) ==
  IF writer = "claude" THEN review.origin = "codex" /\ ImplementationComplete
  ELSE \/ /\ review.origin = "claude"
          /\ \E k \in DOMAIN run.stages :
               run.stages[k].fp = fp /\ run.stages[k].status = "completed"
          /\ run.closeout = None =>
               \E k \in DOMAIN run.stages :
                 run.stages[k].identity = run.identity /\ run.stages[k].status = "completed"
       \/ /\ review.origin = "codex_fallback"
          /\ FallbackAllowed(fp, run.cycle)

(* _completion_blockers is empty.                                          *)
MutGateIgnoresTree ==
  /\ EvidenceFresh /\ GateGreen
  /\ review # None
  /\ ~review.question
  /\ AllSettled
  /\ IndependentReview(run.fp)
  /\ review.fp = run.fp
  /\ review.identity = run.identity

MutGateIgnoresResolutions ==
  /\ EvidenceFresh /\ TreeChecked /\ GateGreen
  /\ review # None
  /\ ~review.question
  /\ IndependentReview(run.fp)
  /\ review.fp = run.fp
  /\ review.identity = run.identity

CompletionGate ==
  /\ EvidenceFresh /\ TreeChecked /\ GateGreen
  /\ run.closeout # None =>
       /\ run.closeout.fp = Fingerprint
       /\ CloseoutPermitted(run.reviewSnapshot, Fingerprint)
       /\ SnapshotDelta(run.reviewSnapshot, Fingerprint) = run.closeout.paths
  /\ review # None
  /\ ~review.question
  /\ AllSettled
  /\ LET reviewed == IF run.closeout = None THEN Fingerprint ELSE run.closeout.source
     IN  IndependentReview(reviewed) /\ review.fp = reviewed
  /\ run.closeout = None => review.identity = run.identity

----------------------------------------------------------------------------
(* Servers.  active[s][k] is "none" until s launches stage k; then "live", *)
(* "cancelled" once cancel found the process alive, and "published" once   *)
(* poll reports it terminal.  Entries of _stages are never dropped.        *)

Running(k) == run.stages[k].status = "running"
Pending(s, k) == active[s][k] \in {"live", "cancelled"}
Orphans(s) == {k \in DOMAIN run.stages : Running(k) /\ active[s][k] = "none"}
Idle == [k \in StageIds |-> "none"]

(* What every handler passes before it acts: no stage to recover, and      *)
(* _require_open.                                                          *)
Serves(s) == Orphans(s) = {}
Open == run.phase \notin TerminalPhases

Init ==
  /\ writer \in Writers
  /\ work \in Tree
  /\ commits = <<work>>
  /\ head = 1
  /\ run = [phase |-> "writing", terminal |-> None, fp |-> None, identity |-> None,
            passed |-> {}, corrections |-> 0, retries |-> 0, cycle |-> 0,
            summary |-> None, closeout |-> None, reviewSnapshot |-> None,
            stages |-> << >>]
  /\ review = None /\ resolutions = << >>
  /\ active = [s \in Servers |-> Idle]
  /\ raised = {} /\ closed = {} /\ reports = << >>

----------------------------------------------------------------------------
(* The writer and Git.                                                     *)

Edit(p, c) ==
  /\ work' = [work EXCEPT ![p] = c]
  /\ work' # work
  /\ UNCHANGED <<writer, commits, head, run, reviewFile, active, history>>

Commit ==
  /\ Len(commits) < MaxCommits
  /\ commits' = Append(commits, work)
  /\ head' = Len(commits')
  /\ UNCHANGED <<writer, work, run, reviewFile, active, history>>

(* HEAD moves to a commit already made; the worktree stays (git reset).    *)
Reset(h) ==
  /\ h # head
  /\ head' = h
  /\ UNCHANGED <<writer, work, commits, run, reviewFile, active, history>>

----------------------------------------------------------------------------
(* plan_checks.                                                            *)

ReviewReady ==
  /\ review # None
  /\ ~review.question
  /\ AllSettled

(* The plan leaves a reviewed tree: begin_correction is required.          *)
LeavesReview ==
  /\ run.identity = head
  /\ \/ run.phase = "reviewing"
     \/ run.phase = "checking" /\ run.summary = run.fp

MutCharge(closeout) == run.phase = "correcting" /\ ~closeout

ChargesCorrection(closeout) == ~closeout /\ (LeavesReview \/ run.phase = "correcting")

PlanAccepted(s, closeout) ==
  /\ Serves(s) /\ Open
  /\ ChangedPaths \subseteq ScopePaths
  /\ ~(run.fp = Fingerprint /\ run.identity = head)
  /\ closeout => CloseoutPermitted(run.reviewSnapshot, Fingerprint)
  /\ ~closeout /\ LeavesReview => ReviewReady
  /\ ChargesCorrection(closeout) => run.summary # Fingerprint

PlanChecks(s, closeout) ==
  /\ PlanAccepted(s, closeout)
  /\ ChargesCorrection(closeout) => run.corrections < MaxCorrectionPasses
  /\ run' = [run EXCEPT
       !.phase = "checking",
       !.corrections = IF ChargesCorrection(closeout) THEN @ + 1 ELSE @,
       !.fp = Fingerprint,
       !.identity = head,
       !.summary = IF run.identity = head THEN @ ELSE None,
       !.passed = IF run.identity = head THEN @ ELSE {r \in @ : r.fp # Fingerprint},
       !.closeout = IF closeout
                    THEN [source |-> review.fp, fp |-> Fingerprint,
                          paths |-> SnapshotDelta(run.reviewSnapshot, Fingerprint)]
                    ELSE None]
  /\ UNCHANGED <<writer, gitVars, reviewFile, active, history>>

ExhaustCorrections(s) ==
  /\ PlanAccepted(s, FALSE)
  /\ ChargesCorrection(FALSE)
  /\ run.corrections >= MaxCorrectionPasses
  /\ run' = [run EXCEPT !.phase = "needs_human", !.terminal = Stopped("needs_human")]
  /\ UNCHANGED <<writer, gitVars, reviewFile, active, history>>

(* record_check.  ok is the reported exit code after the server's own      *)
(* whitespace check of the full diff.                                      *)
RecordCheck(s, name, ok) ==
  /\ Serves(s)
  /\ run.phase = "checking"
  /\ EvidenceFresh /\ TreeChecked
  /\ LET result == [fp |-> run.fp, name |-> name]
         others == {r \in run.passed : ~(r.fp = run.fp /\ r.name = name)}
     IN  run' = [run EXCEPT !.passed = IF ok THEN others \cup {result} ELSE others]
  /\ UNCHANGED <<writer, gitVars, reviewFile, active, history>>

----------------------------------------------------------------------------
(* start_stage.  The record is saved as running before the process is      *)
(* spawned; the campaign cooldown may skip the launch, and the spawn may   *)
(* fail.  An earlier stage for the same evidence and cycle is returned     *)
(* instead of starting another one.                                        *)

Launch(s, stage, retried) ==
  LET k == Len(run.stages) + 1 IN
  /\ k <= MaxStages
  /\ run' = [run EXCEPT !.stages = Append(@, stage),
                        !.retries = IF retried THEN @ + 1 ELSE @,
                        !.phase = IF stage.profile = "critic" THEN "reviewing" ELSE @]
  /\ active' = [active EXCEPT ![s][k] = "live"]

LaunchFails(stage, retried) ==
  /\ Len(run.stages) < MaxStages
  /\ run' = [run EXCEPT !.stages = Append(@, [stage EXCEPT !.status = "failed",
                                                           !.kind = "launch_error"]),
                        !.retries = IF retried THEN @ + 1 ELSE @,
                        !.phase = "failed",
                        !.terminal = Stopped("failed")]
  /\ UNCHANGED active

CooldownSkips(profile) ==
  /\ Len(run.stages) < MaxStages
  /\ run' = [run EXCEPT
       !.stages = Append(@, NewStage(profile, "failed", "anthropic_limit", 0)),
       !.phase = IF profile = "critic" THEN "reviewing" ELSE "failed",
       !.terminal = IF profile = "critic" THEN @ ELSE Stopped("failed")]
  /\ UNCHANGED active

CriticAllowed(s) ==
  /\ Serves(s)
  /\ writer = "codex"
  /\ run.phase = "checking"
  /\ EvidenceFresh /\ TreeChecked /\ GateGreen

StartStage(s, profile, retryOf) ==
  /\ LET stage == NewStage(profile, "running", "none", retryOf)
     IN  Launch(s, stage, retryOf # 0) \/ LaunchFails(stage, retryOf # 0)
           \/ CooldownSkips(profile)
  /\ UNCHANGED <<writer, gitVars, reviewFile, history>>

MutNoDedupe(s) == CriticAllowed(s) /\ StartStage(s, "critic", 0)

StartCritic(s) ==
  /\ CriticAllowed(s)
  /\ ~\E k \in DOMAIN run.stages :
       /\ run.stages[k].fp = run.fp
       /\ run.stages[k].identity = run.identity
       /\ run.stages[k].cycle = run.cycle + 1
  /\ StartStage(s, "critic", 0)

MutRetryTwice(s, k) ==
  /\ CriticAllowed(s)
  /\ run.stages[k].status = "failed" /\ run.stages[k].kind \in TransientKinds
  /\ run.stages[k].fp = run.fp /\ run.stages[k].identity = run.identity
  /\ StartStage(s, "critic", k)

RetryCritic(s, k) ==
  /\ CriticAllowed(s)
  /\ ~\E j \in DOMAIN run.stages : run.stages[j].retryOf = k
  /\ run.stages[k].status = "failed" /\ run.stages[k].kind \in TransientKinds
  /\ run.stages[k].fp = run.fp /\ run.stages[k].identity = run.identity
  /\ run.retries < MaxCriticRetries
  /\ StartStage(s, "critic", k)

StartImplement(s) ==
  /\ Serves(s)
  /\ writer = "claude"
  /\ run.phase = "writing"
  /\ ~\E k \in DOMAIN run.stages : run.stages[k].fp = run.fp
  /\ StartStage(s, "implement", 0)

CancelStage(s, k) ==
  /\ active[s][k] = "live"
  /\ active' = [active EXCEPT ![s][k] = "cancelled"]
  /\ UNCHANGED <<writer, gitVars, run, reviewFile, history>>

----------------------------------------------------------------------------
(* _on_stage_terminal: the process of stage k ended and the thread that    *)
(* waited for it persists the outcome, then publishes it to poll.          *)

(* The run was stopped by a recovery that took this live stage for dead.   *)
Revived(k) == run.terminal # None /\ k \in run.terminal.recovered
Preserved(k) == run.terminal # None /\ k \notin run.terminal.recovered

Ended(k, status, kind) ==
  [run EXCEPT !.stages[k].status = status, !.stages[k].kind = kind,
              !.terminal = IF Revived(k) THEN None ELSE @]

Publish(s, k) == active' = [active EXCEPT ![s][k] = "published"]

EndsPreserved(s, k, status, kind) ==
  /\ Preserved(k)
  /\ run' = Ended(k, status, kind)
  /\ Publish(s, k)
  /\ UNCHANGED <<writer, gitVars, reviewFile, history>>

MutStaleAccepted(k) == TRUE

DescribesCheckout(k) ==
  /\ run.stages[k].fp = Fingerprint
  /\ run.stages[k].identity = head

MutStaleKeepsRunning(s, k) ==
  /\ run.stages[k].profile = "critic"
  /\ ~Preserved(k)
  /\ ~DescribesCheckout(k)
  /\ run' = [run EXCEPT !.terminal = IF Revived(k) THEN None ELSE @, !.phase = "checking"]
  /\ Publish(s, k)
  /\ UNCHANGED <<writer, gitVars, reviewFile, history>>

CriticStale(s, k) ==
  /\ run.stages[k].profile = "critic"
  /\ ~Preserved(k)
  /\ ~DescribesCheckout(k)
  /\ run' = [Ended(k, "failed", "stale_review") EXCEPT !.phase = "checking"]
  /\ Publish(s, k)
  /\ UNCHANGED <<writer, gitVars, reviewFile, history>>

(* A review replaces the current one: what happens to review.json.         *)
RecordReview(fresh, question, origin, fp, identity, given) ==
  /\ Len(reports) < MaxReviews
  /\ review' = [fp |-> fp, identity |-> identity, cycle |-> run.cycle + 1, origin |-> origin,
                findings |-> fresh \cup Carried(fresh), question |-> question]
  /\ resolutions' = given
  /\ raised' = raised \cup {f.uid : f \in fresh}
  /\ closed' = IF review = None THEN closed
               ELSE closed \cup {f.uid : f \in review.findings \ Unsettled}
  /\ reports' = Append(reports, [fp |-> Fingerprint, head |-> head, origin |-> origin])

CriticCompletes(s, k, forms, question) ==
  /\ run.stages[k].profile = "critic"
  /\ ~Preserved(k)
  /\ DescribesCheckout(k)
  /\ RecordReview(Reported(forms), question, "claude", run.stages[k].fp,
                  run.stages[k].identity, << >>)
  /\ run' = [Ended(k, "completed", "none") EXCEPT
       !.cycle = @ + 1,
       !.reviewSnapshot = run.stages[k].fp,
       !.closeout = None,
       !.summary = run.stages[k].fp,
       !.phase = "reviewing"]
  /\ Publish(s, k)
  /\ UNCHANGED <<writer, gitVars>>

ImplementCompletes(s, k) ==
  /\ run.stages[k].profile = "implement"
  /\ ~Preserved(k)
  /\ run' = [Ended(k, "completed", "none") EXCEPT !.phase = "writing"]
  /\ Publish(s, k)
  /\ UNCHANGED <<writer, gitVars, reviewFile, history>>

PhaseAfterFailure(k, kind) ==
  IF run.stages[k].profile = "critic" /\ kind = "anthropic_limit" THEN "reviewing"
  ELSE IF run.stages[k].profile = "critic" /\ kind \in TransientKinds THEN "checking"
  ELSE "failed"

StageFails(s, k, kind) ==
  /\ ~Preserved(k)
  /\ LET phase == PhaseAfterFailure(k, kind)
     IN  run' = [Ended(k, "failed", kind) EXCEPT
                   !.phase = phase,
                   !.terminal = IF phase = "failed" THEN Stopped("failed") ELSE @]
  /\ Publish(s, k)
  /\ UNCHANGED <<writer, gitVars, reviewFile, history>>

StageInterrupted(s, k) ==
  /\ ~Preserved(k)
  /\ run' = [Ended(k, "interrupted", "none") EXCEPT
               !.phase = "interrupted", !.terminal = Stopped("interrupted")]
  /\ Publish(s, k)
  /\ UNCHANGED <<writer, gitVars, reviewFile, history>>

(* Git or the file system fails inside the callback: the error is dropped  *)
(* and nothing is saved, but the stage is published.                       *)
CallbackLost(s, k) ==
  /\ "callback" \in Faults
  /\ Publish(s, k)
  /\ UNCHANGED <<writer, gitVars, run, reviewFile, history>>

ProviderKinds == {"anthropic_limit", "transient_timeout", "process_failure"}

StageEnds(s, k) ==
  /\ k \in DOMAIN run.stages
  /\ Pending(s, k)
  /\ \/ /\ active[s][k] = "live"
        /\ \/ EndsPreserved(s, k, "completed", "none")
           \/ \E kind \in ProviderKinds :
                EndsPreserved(s, k, "failed", kind) \/ StageFails(s, k, kind)
           \/ CriticStale(s, k)
           \/ \E forms \in SUBSET FindingForms, question \in BOOLEAN :
                CriticCompletes(s, k, forms, question)
           \/ ImplementCompletes(s, k)
     \/ /\ active[s][k] = "cancelled"
        /\ EndsPreserved(s, k, "interrupted", "none") \/ StageInterrupted(s, k)
     \/ CallbackLost(s, k)

----------------------------------------------------------------------------
(* Restarts.  A server forgets its _stages; the result of a process it was *)
(* waiting for is lost.                                                    *)

Crash(s) ==
  /\ "crash" \in Faults
  /\ active[s] # Idle
  /\ active' = [active EXCEPT ![s] = Idle]
  /\ UNCHANGED <<writer, gitVars, run, reviewFile, history>>

(* The server dies after save_review and before save_state.                *)
CrashAfterReviewSaved(s) ==
  /\ "files" \in Faults
  /\ active' = [active EXCEPT ![s] = Idle]
  /\ UNCHANGED <<writer, gitVars, run>>

CriticCompletesCrash(s, k, forms, question) ==
  /\ k \in DOMAIN run.stages
  /\ active[s][k] = "live"
  /\ run.stages[k].profile = "critic"
  /\ ~Preserved(k)
  /\ DescribesCheckout(k)
  /\ RecordReview(Reported(forms), question, "claude", run.stages[k].fp,
                  run.stages[k].identity, << >>)
  /\ CrashAfterReviewSaved(s)

(* _recover_interrupted, reached by the next call of any handler on s: the *)
(* run stops, and the handler then refuses a stopped run.  Its second      *)
(* branch, which drops an interruption that a phase out of step with the   *)
(* terminal record left behind, has no state to act on as long as          *)
(* PhaseMatchesTerminal holds, so it is no action.                         *)
MutRecoverOpen(s) ==
  /\ Orphans(s) # {}
  /\ run' = [run EXCEPT
       !.stages = [k \in DOMAIN @ |-> IF k \in Orphans(s)
                                      THEN [@[k] EXCEPT !.status = "interrupted"] ELSE @[k]],
       !.phase = "interrupted"]
  /\ UNCHANGED <<writer, gitVars, reviewFile, active, history>>

Recover(s) ==
  /\ Orphans(s) # {}
  /\ run' = [run EXCEPT
       !.stages = [k \in DOMAIN @ |-> IF k \in Orphans(s)
                                      THEN [@[k] EXCEPT !.status = "interrupted"] ELSE @[k]],
       !.phase = "interrupted",
       !.terminal = [status |-> "interrupted", recovered |-> Orphans(s)]]
  /\ UNCHANGED <<writer, gitVars, reviewFile, active, history>>

----------------------------------------------------------------------------
(* record_review_resolution.                                               *)

ResolutionAllowed(s) ==
  /\ Serves(s) /\ Open
  /\ EvidenceFresh /\ TreeChecked /\ GateGreen
  /\ writer = "claude" => ImplementationComplete

Merged(old, new) ==
  [id \in DOMAIN old \cup DOMAIN new |-> IF id \in DOMAIN new THEN new[id] ELSE old[id]]

AcceptedUnresolved(given) ==
  \E id \in DOMAIN given : given[id].disposition = "accepted" /\ ~given[id].resolved

(* The phase and terminal the stored resolutions lead to.                  *)
Resolved(base, current, given) ==
  LET stop == \/ current.question
              \/ UnresolvedHigh(current.findings, given) /\ MaxCorrectionPasses = 0
  IN  [base EXCEPT
        !.summary = current.fp,
        !.phase = IF stop THEN "needs_human"
                  ELSE IF AcceptedUnresolved(given) THEN "correcting"
                  ELSE "reviewing",
        !.terminal = IF stop THEN Stopped("needs_human") ELSE @]

(* The resolutions one call may carry.                                     *)
ResolutionsOf(findings) ==
  UNION {[ids -> ResolutionForms] : ids \in SUBSET {f.id : f \in findings}}

(* No review supplied: the stored one must describe the checked evidence.  *)
ResolveFindings(s) ==
  /\ ResolutionAllowed(s)
  /\ review # None
  /\ review.fp = IF run.closeout = None THEN run.fp ELSE run.closeout.source
  /\ run.closeout = None => review.identity = run.identity
  /\ \E new \in ResolutionsOf(review.findings) :
       resolutions' = Merged(resolutions, new)
  /\ run' = Resolved(run, review, resolutions')
  /\ UNCHANGED <<writer, gitVars, review, active, history>>

SuppliedReviewAllowed(s) ==
  /\ ResolutionAllowed(s)
  /\ run.closeout = None
  /\ writer = "codex" => FallbackAllowed(run.fp, run.cycle + 1)
  /\ ~(/\ review # None
       /\ review.fp = run.fp
       /\ review.identity = run.identity)

SuppliedOrigin == IF writer = "claude" THEN "codex" ELSE "codex_fallback"

SupplyReview(s, forms, question) ==
  /\ SuppliedReviewAllowed(s)
  /\ \E given \in ResolutionsOf(Reported(forms) \cup Carried(Reported(forms))) :
       RecordReview(Reported(forms), question, SuppliedOrigin, run.fp, run.identity, given)
  /\ run' = Resolved([run EXCEPT !.cycle = @ + 1, !.reviewSnapshot = run.fp], review', resolutions')
  /\ UNCHANGED <<writer, gitVars, active>>

SupplyReviewCrash(s, forms, question) ==
  /\ SuppliedReviewAllowed(s)
  /\ \E given \in ResolutionsOf(Reported(forms) \cup Carried(Reported(forms))) :
       RecordReview(Reported(forms), question, SuppliedOrigin, run.fp, run.identity, given)
  /\ CrashAfterReviewSaved(s)

----------------------------------------------------------------------------
(* finish_run.                                                             *)

MutFinishWhileRunning(s) == run.terminal = None

FinishAllowed(s) ==
  /\ ~\E k \in DOMAIN run.stages : Running(k) /\ active[s][k] # "none"
  /\ Serves(s)
  /\ run.terminal = None

Finish(s, status) ==
  /\ FinishAllowed(s)
  /\ status = "complete" => CompletionGate
  /\ run' = [run EXCEPT !.phase = status, !.terminal = Stopped(status)]
  /\ UNCHANGED <<writer, gitVars, reviewFile, active, history>>

(* complete is refused; open P0/P1 findings stop the run instead.          *)
FinishRefused(s) ==
  /\ FinishAllowed(s)
  /\ ~CompletionGate
  /\ review # None
  /\ UnresolvedHigh(review.findings, resolutions)
  /\ run' = [run EXCEPT !.phase = "needs_human", !.terminal = Stopped("needs_human")]
  /\ UNCHANGED <<writer, gitVars, reviewFile, active, history>>

----------------------------------------------------------------------------

Checkout ==
  \/ \E p \in Paths, c \in Contents : Edit(p, c)
  \/ Commit
  \/ \E h \in DOMAIN commits : Reset(h)

Handler(s) ==
  \/ \E closeout \in BOOLEAN : PlanChecks(s, closeout)
  \/ ExhaustCorrections(s)
  \/ \E name \in Checks, ok \in BOOLEAN : RecordCheck(s, name, ok)
  \/ StartCritic(s)
  \/ \E k \in DOMAIN run.stages : RetryCritic(s, k)
  \/ StartImplement(s)
  \/ \E k \in StageIds : CancelStage(s, k)
  \/ ResolveFindings(s)
  \/ \E forms \in SUBSET FindingForms, question \in BOOLEAN :
       SupplyReview(s, forms, question) \/ SupplyReviewCrash(s, forms, question)
  \/ \E status \in TerminalPhases : Finish(s, status)
  \/ FinishRefused(s)

ServerCrash(s) ==
  \/ Crash(s)
  \/ \E k \in StageIds, forms \in SUBSET FindingForms, question \in BOOLEAN :
       CriticCompletesCrash(s, k, forms, question)

Next ==
  \/ Checkout
  \/ \E s \in Servers :
       \/ Handler(s)
       \/ Recover(s)
       \/ ServerCrash(s)
       \/ \E k \in StageIds : StageEnds(s, k)

Spec == Init /\ [][Next]_vars

(* A process ends by itself or at its time limit, which the watchdog       *)
(* enforces, and its waiting thread then reports it; a client that still   *)
(* waits for a stage polls it, and any call recovers an orphan.            *)
FairSpec ==
  /\ Spec
  /\ \A s \in Servers : WF_vars(Recover(s)) /\ \A k \in StageIds : WF_vars(StageEnds(s, k))

----------------------------------------------------------------------------
(* Properties.                                                             *)

Names == {form.name : form \in FindingForms}

FindingRecord == [id : [name : Names, prior : Seq(Nat)],
                  severity : {"P0", "P1", "P2", "P3"}, file : Paths, uid : Names \X Nat]

ReviewRecord == [fp : Fingerprints, identity : Nat, cycle : Nat,
                 origin : {"claude", "codex", "codex_fallback"},
                 findings : SUBSET FindingRecord, question : BOOLEAN]

ReportRecord == [fp : Fingerprints, head : Nat, origin : {"claude", "codex", "codex_fallback"}]

StageRecord == [profile : {"critic", "implement"},
                status : {"running", "completed", "failed", "interrupted"},
                kind : FailureKinds, fp : {None} \cup Fingerprints,
                identity : {None} \cup Nat, cycle : Nat, retryOf : Nat]

TerminalRecord == [status : TerminalPhases, recovered : SUBSET StageIds]

CloseoutRecord == [source : Fingerprints, fp : Fingerprints, paths : SUBSET Paths]

RunRecord ==
  [phase : Phases, terminal : {None} \cup TerminalRecord,
   fp : {None} \cup Fingerprints, identity : {None} \cup Nat,
   passed : SUBSET [fp : Fingerprints, name : Checks],
   corrections : 0..MaxCorrectionPasses, retries : 0..MaxCriticRetries, cycle : Nat,
   summary : {None} \cup Fingerprints,
   closeout : {None} \cup CloseoutRecord,
   reviewSnapshot : {None} \cup Fingerprints, stages : Seq(StageRecord)]

(* None is not one of the records it stands in for.                        *)
ASSUME NoneAssumption ==
  None \notin TerminalRecord \cup ReviewRecord \cup CloseoutRecord \cup Fingerprints

CheckoutOK ==
  writer \in Writers /\ work \in Tree /\ commits \in Seq(Tree) /\ head \in DOMAIN commits

RunOK == run \in RunRecord /\ Len(run.stages) <= MaxStages

ReviewOK ==
  /\ review \in {None} \cup ReviewRecord
  /\ \A id \in DOMAIN resolutions : resolutions[id] \in ResolutionForms
  /\ reports \in Seq(ReportRecord)

ActiveOK == active \in [Servers -> [StageIds -> {"none", "live", "cancelled", "published"}]]

(* Every variable has the shape state.json, review.json and _stages have;  *)
(* the budgets of the contract are never exceeded.                         *)
TypeOK == CheckoutOK /\ RunOK /\ ReviewOK /\ ActiveOK

(* The phase is terminal exactly while a terminal record says why: no late *)
(* callback, recovery or refused handler leaves one without the other.     *)
PhaseMatchesTerminal ==
  IF run.terminal = None THEN run.phase \in OpenPhases ELSE run.phase = run.terminal.status

(* No stage of a run finished as complete is running on disk, and no       *)
(* recovery stopped it: nothing is left that a late callback could reopen  *)
(* or a restarted or second server could recover.                          *)
CompleteIsQuiet ==
  run.phase = "complete" =>
    run.terminal.recovered = {} /\ \A k \in DOMAIN run.stages : ~Running(k)

(* A run that was finished as complete stays so, with the review it rests  *)
(* on: whatever the servers do next, a late callback changes no more than  *)
(* the record of its stage.                                                *)
CompleteIsFinal ==
  [][run.phase = "complete" =>
       /\ run' = [run EXCEPT !.stages = run'.stages]
       /\ UNCHANGED reviewFile]_vars

(* Whatever finding an independent review raised, in any cycle, is either  *)
(* in the current review or was settled when its review was replaced.      *)
NoFindingLost ==
  \A uid \in raised :
    \/ uid \in closed
    \/ /\ review # None
       /\ \E f \in review.findings : f.uid = uid

(* An id names one finding, so a disposition settles only that finding.    *)
FindingIdsUnique ==
  review # None =>
    \A f, g \in review.findings : f.id = g.id => f = g

(* A complete run has settled every finding any of its reviews raised.     *)
CompleteSettlesAll ==
  run.phase = "complete" =>
    \A uid \in raised :
      \/ uid \in closed
      \/ \E f \in review.findings :
           f.uid = uid /\ Settled(f, resolutions)

(* The checkout a run is completed on passed every check, and somebody     *)
(* other than its writer reviewed it: the very tree under the same HEAD,   *)
(* or one that differs only in editorial files of accepted P3 findings.    *)
CompleteIsEvidenced ==
  [][run'.phase = "complete" /\ run.phase # "complete" =>
       /\ \A name \in Checks : \E r \in run.passed : r.name = name /\ r.fp = Fingerprint
       /\ \E i \in DOMAIN reports :
            /\ reports[i].origin \in IF writer = "claude" THEN {"codex"}
                                     ELSE {"claude", "codex_fallback"}
            /\ LET delta == SnapshotDelta(reports[i].fp, Fingerprint) IN
               /\ delta \subseteq {f.file : f \in {f \in review.findings :
                                                  f.severity = "P3"}} \cap EditorialPaths
               /\ delta = {} /\ run.closeout = None => reports[i].head = head]_vars

(* Inference is not repeated on the same evidence: of the stages of one    *)
(* review cycle on one fingerprint and HEAD, all but the first name the    *)
(* transient failure they retry, and the retries are within the budget.    *)
InferenceNotRepeated ==
  /\ \A j, k \in DOMAIN run.stages :
       /\ j < k
       /\ run.stages[j].profile = "critic"
       /\ run.stages[j].fp = run.stages[k].fp
       /\ run.stages[j].identity = run.stages[k].identity
       /\ run.stages[j].cycle = run.stages[k].cycle
       => \/ /\ run.stages[k].retryOf \in DOMAIN run.stages
             /\ run.stages[run.stages[k].retryOf].kind \in TransientKinds
          \/ run.stages[k].kind = "anthropic_limit"
  /\ Cardinality({k \in DOMAIN run.stages : run.stages[k].retryOf # 0}) <= MaxCriticRetries

(* A review by the writer's own provider is on record only with the usage  *)
(* limit that excused it: same tree, same HEAD, same review cycle.         *)
FallbackHasLimit ==
  review # None /\ review.origin = "codex_fallback" =>
    \E k \in DOMAIN run.stages :
      /\ run.stages[k].kind = "anthropic_limit"
      /\ run.stages[k].fp = review.fp
      /\ run.stages[k].identity = review.identity
      /\ run.stages[k].cycle = review.cycle

(* The statement of ARCHITECTURE.md that a run may accept one fallback     *)
(* review after a usage limit: once that review is stored for the evidence *)
(* of an open run, completion counts it as the independent one.            *)
FallbackReviewCounts ==
  /\ review # None
  /\ review.origin = "codex_fallback"
  /\ review.fp = run.fp /\ review.identity = run.identity
  /\ run.terminal = None
  => IndependentReview(run.fp)

(* Leaving a reviewed tree under the same HEAD for another one, other than *)
(* by closeout, costs a correction pass.                                   *)
Charged ==
  /\ run.summary # None
  /\ run.fp = run.summary
  /\ run'.fp # run.fp
  /\ run'.identity = run.identity
  /\ run'.closeout = None
  => run'.corrections = run.corrections + 1

(* A run that Codex writes pays for every correction it begins.            *)
CorrectionsCharged == [][writer = "codex" => Charged]_vars

(* docs/epic-campaigns.md says of any run that max_correction_passes       *)
(* bounds its code corrections: Claude's pay as well.                      *)
EveryCorrectionCharged == [][Charged]_vars

(* The comment in ManagedStage._wait that a callback failure must not      *)
(* leave a finished process looking active: once poll reports a stage      *)
(* terminal, state.json no longer calls it running.                        *)
PersistedBeforePublished ==
  \A s \in Servers : \A k \in DOMAIN run.stages :
    active[s][k] = "published" => ~Running(k)

(* No stage stays running on disk for ever, whatever crashes: finish_run   *)
(* refuses a run that has one.                                             *)
StageSettles ==
  \A k \in StageIds :
    (k \in DOMAIN run.stages /\ Running(k)) ~> ~(k \in DOMAIN run.stages /\ Running(k))
=============================================================================
