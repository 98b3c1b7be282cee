------------------------------- MODULE Campaign -------------------------------
(***************************************************************************)
(* A campaign: its tasks, the runs that carry them out, interventions, the *)
(* sealed candidate, comparison and finish, over a state.json that every   *)
(* handler reads and later replaces as a whole.  What happens between the  *)
(* two (edits in the worktrees, runs that complete, other servers, other   *)
(* versions of the plugin) is an action of its own.                        *)
(*                                                                         *)
(* Abstracted: a commit is its tree and contents only go forward, so an    *)
(* ancestor is a tree that is nowhere newer; only blocking interventions   *)
(* are kept; "blocked" stands for failed and interrupted too wherever the  *)
(* code treats them alike; risk, budgets, specification files, the product *)
(* gate and the shape of arguments are left out; versions are ordered; the *)
(* circuit's probe, which only refuses an upgrade, is in ProviderCircuit.  *)
(***************************************************************************)
EXTENDS Integers, Sequences, FiniteSets, FiniteSetsExt

CONSTANTS
  Servers,       \* server processes over the same Git directory
  Plan,          \* the frozen tasks, a sequence of PlanRecord
  Workspaces, Primary, Repository, \* worktrees, the campaign's own, and the repository of each
  Paths, MaxContent,  \* bound: changes of a file
  MaxRuns, MaxPlainRuns,  \* bounds: runs created, and those without a task
  Versions,      \* of the plugin
  Interventions,
  Stops,         \* operational task states considered
  Replay,        \* mode = "replay"
  None

Tasks == DOMAIN Plan
Implementation == {t \in Tasks : Plan[t].kind = "implementation"}
Features == {t \in Implementation : Plan[t].role = "task"}
Waves == {Plan[t].wave : t \in Implementation}
RepositoryOf(t) == Repository[Plan[t].workspace]
IsPredecessor(t) == \E u \in Tasks : Plan[u].from = t

PlanRecord ==
  [kind : {"implementation", "analysis"}, role : {"task", "integration", "finalizer"},
   wave : Nat \ {0}, deps : SUBSET Nat, from : {None} \cup Nat, workspace : Workspaces]

(* What _tasks and build_campaign accept of one later wave.                *)
SinglePredecessor(t) ==
  LET before == {u \in Tasks : /\ Plan[u].kind = "implementation"
                               /\ RepositoryOf(u) = RepositoryOf(t)
                               /\ Plan[u].wave = Plan[t].wave - 1} IN
  /\ {u \in before : Plan[u].role = "task"} = {Plan[t].from}
  /\ \A u \in before : Plan[u].role # "integration"

ASSUME CampaignAssumption ==
  /\ Plan \in Seq(PlanRecord) /\ Primary \in Workspaces
  /\ MaxContent \in Nat /\ MaxRuns \in Nat /\ MaxPlainRuns \in Nat /\ Versions \subseteq Nat
  /\ Stops \subseteq {"needs_human", "blocked", "interrupted"} /\ Replay \in BOOLEAN
  /\ \A t \in Tasks :
       /\ Plan[t].deps \subseteq 1 .. t - 1
       /\ Plan[t].from # None =>
            /\ Plan[t].kind = "implementation" /\ Plan[t].from \in Plan[t].deps
            /\ Plan[Plan[t].from].kind = "implementation"
            /\ RepositoryOf(Plan[t].from) = RepositoryOf(t)
       /\ Plan[t].kind = "implementation" /\ Plan[t].wave > 1 =>
            /\ Plan[t].from # None
            /\ Plan[Plan[t].from].wave = Plan[t].wave - 1
            /\ Plan[Plan[t].from].role = "integration" \/ SinglePredecessor(t)

ASSUME NoneAssumption == None \notin Versions

VARIABLES
  campaign,    \* state.json
  comparison,  \* comparison.json holds a comparison
  runs,        \* the runs created, as the campaign reads them
  checkout,    \* of each worktree: the trees of HEAD and of the files
  version,     \* of each server
  use          \* what each server has read and not yet replaced

vars == <<campaign, comparison, runs, checkout, version, use>>

Tree == [Paths -> 0 .. MaxContent]
Initial == [p \in Paths |-> 0]
NotNewer(old, new) == \A p \in Paths : old[p] <= new[p]

Ends == {"complete", "needs_human", "blocked"}
Open(c) == c.phase \notin Ends
Blockers(c) == {i \in Interventions : c.blocker[i] = "open"}
Complete(c, t) == c.task[t].status = "complete"
Runs == DOMAIN runs

(* The paths of diff_fingerprint: changed since the base, or dirty.        *)
Changed(base, tree) == {p \in Paths : tree.work[p] # base[p] \/ tree.work[p] # tree.head[p]}

Init ==
  /\ \E v \in Versions :
       campaign = [phase |-> "executing",
                   task |-> [t \in Tasks |-> [status |-> "pending", run |-> None]],
                   blocker |-> [i \in Interventions |-> "none"],
                   version |-> v, frozen |-> [w \in Waves |-> None],
                   candidate |-> None]
  /\ comparison = FALSE /\ runs = << >>
  /\ checkout = [w \in Workspaces |-> [head |-> Initial, work |-> Initial]]
  /\ version \in [Servers -> Versions]
  /\ use = [s \in Servers |-> None]

----------------------------------------------------------------------------
(* The world outside: writers, Git, runs, updates of the plugin, crashes.  *)

Edit(w, p) ==
  /\ checkout[w].work[p] < MaxContent
  /\ checkout' = [checkout EXCEPT ![w].work[p] = @ + 1]
  /\ UNCHANGED <<campaign, comparison, runs, version, use>>

Commit(w) ==
  /\ checkout[w].head # checkout[w].work
  /\ checkout' = [checkout EXCEPT ![w].head = checkout[w].work]
  /\ UNCHANGED <<campaign, comparison, runs, version, use>>

RunRecord(task, w, base, v) ==
  [task |-> task, workspace |-> w, base |-> base, version |-> v, verified |-> None]

(* create_run without a campaign, from any ancestor that HEAD has.  The   *)
(* campaign never reads the version of such a run.                         *)
CreatePlainRun(w, base) ==
  /\ Len(runs) < MaxRuns
  /\ Cardinality({r \in Runs : runs[r].task = None}) < MaxPlainRuns
  /\ base \in {Initial} \cup {checkout[v].head : v \in Workspaces}
  /\ NotNewer(base, checkout[w].head)
  /\ runs' = Append(runs, RunRecord(None, w, base, None))
  /\ UNCHANGED <<campaign, comparison, checkout, version, use>>

(* finish_run: the fingerprint of a complete run is that of its worktree.  *)
RunCompletes(r) ==
  /\ runs[r].verified = None
  /\ runs' = [runs EXCEPT ![r].verified = checkout[runs[r].workspace]]
  /\ UNCHANGED <<campaign, comparison, checkout, version, use>>

(* A server restarts, perhaps with another version, whatever it was at.    *)
Restart(s, v) ==
  /\ version[s] # v \/ use[s] # None
  /\ version' = [version EXCEPT ![s] = v]
  /\ use' = [use EXCEPT ![s] = None]
  /\ UNCHANGED <<campaign, comparison, runs, checkout>>

----------------------------------------------------------------------------
(* Handlers read the state, and replace it or refuse.                      *)

Load(s) ==
  /\ use[s] = None
  /\ use' = [use EXCEPT ![s] = [copy |-> campaign, starting |-> None]]
  /\ UNCHANGED <<campaign, comparison, runs, checkout, version>>

Loaded(s) == use[s] # None /\ use[s].starting = None

Returns(s) == use' = [use EXCEPT ![s] = None]

Saves(s, c) == campaign' = c /\ Returns(s) /\ UNCHANGED <<checkout, version>>

Refuse(s) ==
  /\ use[s] # None
  /\ Returns(s)
  /\ UNCHANGED <<campaign, comparison, runs, checkout, version>>

----------------------------------------------------------------------------
(* record_campaign_task.                                                   *)

Statuses == {"pending", "in_progress", "complete", "needs_human", "blocked", "interrupted"}

MutReopensComplete(status) ==
  CASE status \in {"pending", "in_progress"} -> Statuses \ {"pending"}
    [] status = "needs_human" -> {"in_progress", "complete", "blocked"}
    [] status \in {"blocked", "interrupted", "complete"} -> {"in_progress"}

Allowed(status) ==
  CASE status \in {"pending", "in_progress"} -> Statuses \ {"pending"}
    [] status = "needs_human" -> {"in_progress", "complete", "blocked"}
    [] status \in {"blocked", "interrupted"} -> {"in_progress"}
    [] status = "complete" -> {}

HasBase(c, t) == Plan[t].from # None => c.task[Plan[t].from].run # None

Base(c, t) ==
  IF Plan[t].from = None THEN Initial
  ELSE runs[c.task[Plan[t].from].run].verified.head

MutDirtyPredecessor(c, t, r) ==
  /\ runs[r].verified # None
  /\ runs[r].workspace = Plan[t].workspace
  /\ HasBase(c, t) /\ runs[r].base = Base(c, t)
  /\ runs[r].task \in {None, t}
  /\ \A u \in Tasks \ {t} : c.task[u].run # r
  /\ checkout[runs[r].workspace] = runs[r].verified

(* _completed_run_reference; a predecessor ends in a clean commit.         *)
Accepted(c, t, r) ==
  /\ runs[r].verified # None
  /\ runs[r].workspace = Plan[t].workspace
  /\ HasBase(c, t) /\ runs[r].base = Base(c, t)
  /\ runs[r].task \in {None, t}
  /\ \A u \in Tasks \ {t} : c.task[u].run # r
  /\ checkout[runs[r].workspace] = runs[r].verified
  /\ IsPredecessor(t) => /\ checkout[runs[r].workspace].head = checkout[runs[r].workspace].work
                         /\ checkout[runs[r].workspace].head # runs[r].base

TaskMayBecome(c, t, status) ==
  /\ c.task[t].status # status
  /\ Open(c)
  /\ status = "needs_human" => Blockers(c) # {}
  /\ status \in Allowed(c.task[t].status)
  /\ status \in {"in_progress", "complete"} => \A d \in Plan[t].deps : Complete(c, d)

RecordTask(s, t, status, r) ==
  /\ Loaded(s)
  /\ LET c == use[s].copy IN
     /\ TaskMayBecome(c, t, status)
     /\ IF status = "complete" /\ t \in Implementation
        THEN r # None /\ Accepted(c, t, r)
        ELSE r = None
     /\ Saves(s, [c EXCEPT !.task[t] = [status |-> status, run |-> r]])
  /\ UNCHANGED <<comparison, runs>>

----------------------------------------------------------------------------
(* record_campaign_intervention.                                           *)

RecordIntervention(s, i, resolved) ==
  /\ Loaded(s)
  /\ LET c == use[s].copy IN
     /\ Open(c)
     /\ c.blocker[i] = "none" \/ (c.blocker[i] = "open" /\ resolved)
     /\ Saves(s, [c EXCEPT !.blocker[i] = IF resolved THEN "resolved" ELSE "open"])
  /\ UNCHANGED <<comparison, runs>>

----------------------------------------------------------------------------
(* create_run for a task: it reads the campaign, and once more when it     *)
(* adopts the version of the plugin, before it creates the run.            *)

PrepareRun(s, t) ==
  /\ Loaded(s)
  /\ LET c == use[s].copy IN
     /\ Open(c)
     /\ t \in Implementation /\ c.task[t].status = "in_progress"
     /\ HasBase(c, t)
     /\ NotNewer(Base(c, t), checkout[Plan[t].workspace].head)
     /\ use' = [use EXCEPT ![s] =
          [copy |-> campaign,
           starting |-> RunRecord(t, Plan[t].workspace, Base(c, t), version[s])]]
  /\ UNCHANGED <<campaign, comparison, runs, checkout, version>>

MutWaveNeverFrozen(c, w, v) == TRUE

WaveOpen(c, w, v) == c.frozen[w] \in {None, v}

(* An upgrade comes before the first task of a wave.                       *)
MayUpgrade(c, t, v) ==
  /\ v > c.version
  /\ \A u \in Tasks \ {t} : c.task[u].status # "in_progress"
  /\ \A u \in Implementation \ {t} :
       Plan[u].wave = Plan[t].wave => c.task[u].status = "pending"
  /\ Plan[t].wave > 1 =>
       /\ Plan[Plan[t].from].role = "integration"
       /\ Plan[Plan[t].from].wave = Plan[t].wave - 1
       /\ Complete(c, Plan[t].from)

MutLinksEarly(c, t, v) ==
  [c EXCEPT !.version = v, !.frozen[Plan[t].wave] = v, !.task[t].run = Len(runs) + 1]

Adopted(c, t, v) == [c EXCEPT !.version = v, !.frozen[Plan[t].wave] = v]

(* _adopt_campaign_runtime, and RunStore.create unless the server dies in  *)
(* between.                                                                *)
CreateRun(s, created) ==
  /\ use[s] # None /\ use[s].starting # None
  /\ Len(runs) < MaxRuns
  /\ LET c == use[s].copy
         t == use[s].starting.task
         v == use[s].starting.version IN
     /\ WaveOpen(c, Plan[t].wave, v)
     /\ c.version = v \/ MayUpgrade(c, t, v)
     /\ IF c.version = v /\ c.frozen[Plan[t].wave] = v
        THEN Returns(s) /\ UNCHANGED <<campaign, checkout, version>>
        ELSE Saves(s, Adopted(c, t, v))
     /\ runs' = IF created THEN Append(runs, use[s].starting) ELSE runs
  /\ UNCHANGED comparison

----------------------------------------------------------------------------
(* seal_campaign_candidate.                                                *)

RunOf(c, t) == c.task[t].run
Linked(c) == {t \in Tasks : RunOf(c, t) # None}
RunPaths(r) == Changed(runs[r].base, runs[r].verified)
PathsOf(c, ts) == UNION {RunPaths(RunOf(c, t)) : t \in ts \cap Linked(c)}

(* Two slices of one wave need an integration run that covers them.        *)
Integrated(c) ==
  \A f, g \in Features :
    f # g /\ RepositoryOf(f) = RepositoryOf(g) /\ Plan[f].wave = Plan[g].wave =>
      LET slices == {u \in Features : /\ RepositoryOf(u) = RepositoryOf(f)
                                      /\ Plan[u].wave = Plan[f].wave} IN
      \E t \in Implementation \cap Linked(c) :
        /\ Plan[t].role = "integration" /\ Plan[t].wave = Plan[f].wave
        /\ RepositoryOf(t) = RepositoryOf(f) /\ slices \subseteq Plan[t].deps
        /\ PathsOf(c, slices) \subseteq RunPaths(RunOf(c, t))

In(c, w) == {t \in Linked(c) : Plan[t].workspace = w}

(* _candidate_git_snapshots: the worktrees against the base of their first *)
(* run, the campaign's own against the campaign's.                         *)
SnapshotBase(c, w) == IF w = Primary THEN Initial ELSE runs[RunOf(c, Min(In(c, w)))].base

Snapshots(c) == [w \in {Primary} \cup {Plan[t].workspace : t \in Linked(c)} |-> checkout[w]]

Covered(c) ==
  \A w \in DOMAIN Snapshots(c) :
    Changed(SnapshotBase(c, w), checkout[w]) \subseteq PathsOf(c, In(c, w))

MutSealAgain(s) ==
  /\ Loaded(s)
  /\ LET c == use[s].copy IN
     /\ Open(c)
     /\ \A t \in Tasks : Complete(c, t)
     /\ Blockers(c) = {}
     /\ Integrated(c) /\ Covered(c)
     /\ Saves(s, [c EXCEPT !.candidate = Snapshots(c), !.phase = "candidate_ready"])
  /\ UNCHANGED <<comparison, runs>>

Seal(s) ==
  /\ Loaded(s)
  /\ LET c == use[s].copy IN
     /\ c.candidate = None
     /\ Open(c)
     /\ \A t \in Tasks : Complete(c, t)
     /\ Blockers(c) = {}
     /\ Integrated(c) /\ Covered(c)
     /\ Saves(s, [c EXCEPT !.candidate = Snapshots(c), !.phase = "candidate_ready"])
  /\ UNCHANGED <<comparison, runs>>

----------------------------------------------------------------------------
(* record_campaign_comparison writes comparison.json first.                *)

Comparable(s) ==
  /\ Loaded(s)
  /\ ~comparison
  /\ Replay
  /\ use[s].copy.phase = "candidate_ready" /\ use[s].copy.candidate # None

Compare(s) ==
  /\ Comparable(s)
  /\ comparison' = TRUE
  /\ Saves(s, [use[s].copy EXCEPT !.phase = "comparing"])
  /\ UNCHANGED runs

CompareCrash(s) ==
  /\ Comparable(s)
  /\ comparison' = TRUE
  /\ Returns(s)
  /\ UNCHANGED <<campaign, runs, checkout, version>>

----------------------------------------------------------------------------
(* finish_campaign.                                                        *)

MutFinishAnyTree(c) ==
  /\ c.candidate # None /\ Covered(c)
  /\ Blockers(c) = {}
  /\ Replay => comparison

MutFinishUncompared(c) ==
  /\ c.candidate # None /\ Covered(c) /\ c.candidate = Snapshots(c)
  /\ Blockers(c) = {}

MayComplete(c) ==
  /\ c.candidate # None /\ Covered(c) /\ c.candidate = Snapshots(c)
  /\ Blockers(c) = {}
  /\ Replay => comparison

Finish(s, status) ==
  /\ Loaded(s)
  /\ LET c == use[s].copy IN
     /\ Open(c)
     /\ CASE status = "complete" -> MayComplete(c)
          [] status = "needs_human" -> Blockers(c) # {}
          [] OTHER -> TRUE
     /\ Saves(s, [c EXCEPT !.phase = status])
  /\ UNCHANGED <<comparison, runs>>

----------------------------------------------------------------------------

Handler(s) ==
  \/ Load(s) \/ Refuse(s)
  \/ \E t \in Tasks :
       \/ \E status \in {"in_progress", "complete"} \cup Stops, r \in {None} \cup Runs :
            RecordTask(s, t, status, r)
       \/ PrepareRun(s, t)
  \/ \E i \in Interventions, resolved \in BOOLEAN : RecordIntervention(s, i, resolved)
  \/ \E created \in BOOLEAN : CreateRun(s, created)
  \/ Seal(s)
  \/ Compare(s) \/ CompareCrash(s)
  \/ \E status \in Ends : Finish(s, status)

Next ==
  \/ \E s \in Servers : Handler(s)
  \/ \E w \in Workspaces : Commit(w) \/ \E p \in Paths : Edit(w, p)
  \/ \E w \in Workspaces, base \in Tree : CreatePlainRun(w, base)
  \/ \E r \in Runs : RunCompletes(r)
  \/ \E s \in Servers, v \in Versions : Restart(s, v)

Spec == Init /\ [][Next]_vars

----------------------------------------------------------------------------
(* Properties.                                                             *)

Commits == [head : Tree, work : Tree]
CampaignRecord ==
  [phase : {"executing", "candidate_ready", "comparing"} \cup Ends,
   task : [Tasks -> [status : Statuses, run : {None} \cup Nat]],
   blocker : [Interventions -> {"none", "open", "resolved"}],
   version : Versions, frozen : [Waves -> {None} \cup Versions],
   candidate : {None} \cup UNION {[ws -> Commits] : ws \in SUBSET Workspaces}]
RunType ==
  [task : {None} \cup Implementation, workspace : Workspaces, base : Tree,
   version : {None} \cup Versions, verified : {None} \cup Commits]

(* Every variable has its type, and the runs a campaign names exist.       *)
TypeOK ==
  /\ campaign \in CampaignRecord /\ comparison \in BOOLEAN
  /\ runs \in Seq(RunType)
  /\ \A t \in Linked(campaign) : RunOf(campaign, t) \in Runs
  /\ checkout \in [Workspaces -> Commits]
  /\ version \in [Servers -> Versions]
  /\ use \in [Servers -> {None} \cup [copy : CampaignRecord,
                                      starting : {None} \cup RunType]]

(* A task is worked on or complete only after all it depends on, and stays *)
(* so whatever is retried, blocked or restarted in between.                *)
DependenciesOf(c) ==
  \A t \in Tasks : c.task[t].status \in {"in_progress", "complete"} =>
    \A d \in Plan[t].deps : Complete(c, d)
DependenciesFirst == DependenciesOf(campaign)

(* The runs of complete tasks form chains: each was verified in full, is   *)
(* the run of one task only, and begins at the clean commit, ahead of its  *)
(* own base, that the run of its base_from_task was verified at.           *)
BasesOf(c) ==
  /\ \A t \in Implementation : Complete(c, t) <=> t \in Linked(c)
  /\ \A t \in Linked(c) :
       LET r == runs[RunOf(c, t)] IN
       /\ r.verified # None
       /\ r.task \in {None, t}
       /\ \A u \in Linked(c) \ {t} : RunOf(c, u) # RunOf(c, t)
       /\ IF Plan[t].from = None THEN r.base = Initial
          ELSE LET before == runs[RunOf(c, Plan[t].from)] IN
               /\ Plan[t].from \in Linked(c)
               /\ r.base = before.verified.head
               /\ before.verified.head = before.verified.work
               /\ before.verified.head # before.base
BasesVerified == BasesOf(campaign)

(* A campaign is complete only with all its tasks, nothing that waits for  *)
(* a human, the integration its waves need, and a replay's comparison.     *)
FinishedOf(c) ==
  /\ c.candidate # None => \A t \in Tasks : Complete(c, t)
  /\ c.candidate # None => Integrated(c)
  /\ c.phase = "complete" => c.candidate # None /\ Blockers(c) = {} /\ (Replay => comparison)
FinishedIsWhole == FinishedOf(campaign)

(* The runs created for tasks do not go back in version, and those of one  *)
(* wave have one: _adopt_campaign_runtime, over restarts and updates.      *)
OneVersionPerWave ==
  \A i, j \in Runs :
    i < j /\ runs[i].task # None /\ runs[j].task # None =>
      /\ runs[i].version <= runs[j].version
      /\ Plan[runs[i].task].wave = Plan[runs[j].task].wave => runs[i].version = runs[j].version

(* What was sealed stays as it was: candidate and tasks do not change, and *)
(* a campaign that is over does not change at all.                         *)
CandidateFrozen ==
  [][/\ campaign.candidate # None => /\ campaign'.candidate = campaign.candidate
                                     /\ campaign'.task = campaign.task
     /\ ~Open(campaign) => campaign' = campaign]_vars

(* A campaign becomes complete on the very trees that were sealed, of the  *)
(* primary worktree and of every task's, however often they moved between. *)
CompletesAsSealed ==
  [][campaign'.phase = "complete" /\ Open(campaign) =>
       \A w \in {Primary} \cup {Plan[t].workspace : t \in Implementation} :
         /\ w \in DOMAIN campaign.candidate
         /\ checkout[w] = campaign.candidate[w]]_vars

(* docs/epic-campaigns.md:52 lets long campaigns update the plugin only    *)
(* between task waves: a wave that ran under an older version is over.     *)
UpgradedBetweenWaves ==
  \A t \in Implementation :
    campaign.frozen[Plan[t].wave] \in {None, campaign.version} \/ Complete(campaign, t)
=============================================================================
