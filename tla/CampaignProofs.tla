---------------------------- MODULE CampaignProofs ----------------------------
(***************************************************************************)
(* What holds of a campaign for any plan and any number of servers that    *)
(* load and replace its state: whatever copy a server holds is consistent  *)
(* in itself, and stays so, since the runs of complete tasks never change. *)
(***************************************************************************)
EXTENDS Campaign, TLAPS

(* What a complete task's run is, with what later tasks need of it.        *)
Clean(c) ==
  \A t \in Linked(c) :
    IsPredecessor(t) =>
      /\ runs[RunOf(c, t)].verified.head = runs[RunOf(c, t)].verified.work
      /\ runs[RunOf(c, t)].verified.head # runs[RunOf(c, t)].base

Chains(c) ==
  /\ Linked(c) \subseteq Implementation
  /\ \A t \in Linked(c) : RunOf(c, t) \in Runs
  /\ BasesOf(c)
  /\ Clean(c)

GoodCopy(c) ==
  /\ c \in CampaignRecord
  /\ DependenciesOf(c)
  /\ Chains(c)
  /\ FinishedOf(c)

Copies == {campaign} \cup {use[s].copy : s \in {v \in Servers : use[v] # None}}

Starting == {r \in RunType : r.task \in Implementation /\ r.version \in Versions}

Shapes ==
  /\ comparison \in BOOLEAN
  /\ runs \in Seq(RunType)
  /\ checkout \in [Workspaces -> Commits]
  /\ version \in [Servers -> Versions]
  /\ use \in [Servers -> {None} \cup [copy : CampaignRecord, starting : {None} \cup Starting]]

IInv == Shapes /\ \A c \in Copies : GoodCopy(c)

(* A step adds runs, or completes one that was not verified.               *)
RunsGrow ==
  /\ Runs \subseteq Runs'
  /\ \A i \in Runs : runs[i].verified # None => runs'[i] = runs[i]

----------------------------------------------------------------------------

LEMMA PlanFacts ==
  /\ Tasks \subseteq Nat
  /\ \A t \in Tasks :
       /\ Plan[t] \in PlanRecord /\ Plan[t].workspace \in Workspaces
       /\ Plan[t].deps \subseteq 1 .. t - 1
       /\ Plan[t].from # None => Plan[t].from \in Plan[t].deps /\ Plan[t].from \in Tasks
       /\ t \in Implementation => Plan[t].wave \in Waves
       /\ Plan[t].from # None => IsPredecessor(Plan[t].from)
<1>1. Plan \in Seq(PlanRecord) /\ Tasks = 1 .. Len(Plan) /\ Len(Plan) \in Nat
  BY CampaignAssumption DEF Tasks
<1>2. ASSUME NEW t \in Tasks
      PROVE /\ Plan[t] \in PlanRecord /\ Plan[t].workspace \in Workspaces
            /\ Plan[t].deps \subseteq 1 .. t - 1
            /\ Plan[t].from # None => Plan[t].from \in Plan[t].deps /\ Plan[t].from \in Tasks
            /\ t \in Implementation => Plan[t].wave \in Waves
            /\ Plan[t].from # None => IsPredecessor(Plan[t].from)
  <2>1. Plan[t] \in PlanRecord
    BY <1>1
  <2>2. Plan[t].workspace \in Workspaces
    BY <2>1 DEF PlanRecord
  <2>3. Plan[t].deps \subseteq 1 .. t - 1
    BY CampaignAssumption
  <2>4. Plan[t].from # None => Plan[t].from \in Plan[t].deps
    BY CampaignAssumption
  <2>5. Plan[t].from # None => Plan[t].from \in Tasks
    BY <2>3, <2>4, <1>1
  <2>6. t \in Implementation => Plan[t].wave \in Waves
    BY DEF Waves
  <2>7. Plan[t].from # None => IsPredecessor(Plan[t].from)
    BY DEF IsPredecessor
  <2> QED BY <2>1, <2>2, <2>3, <2>4, <2>5, <2>6, <2>7
<1> QED BY <1>1, <1>2

(* A copy stays good while runs are added or completed.                    *)
LEMMA LinkedRunsKept ==
  ASSUME NEW c, Chains(c), RunsGrow
  PROVE  \A t \in Linked(c) : /\ RunOf(c, t) \in Runs'
                              /\ runs'[RunOf(c, t)] = runs[RunOf(c, t)]
BY DEF Chains, BasesOf, RunsGrow

LEMMA CopyKept ==
  ASSUME NEW c, GoodCopy(c), RunsGrow, comparison => comparison'
  PROVE  GoodCopy(c)'
<1>1. Chains(c)
  BY DEF GoodCopy
<1>2. \A t \in Linked(c) : /\ RunOf(c, t) \in Runs'
                           /\ runs'[RunOf(c, t)] = runs[RunOf(c, t)]
  BY <1>1, LinkedRunsKept
<1>3. Linked(c)' = Linked(c)
  BY DEF Linked, RunOf
<1>4. BasesOf(c)'
  <2>1. BasesOf(c)
    BY <1>1 DEF Chains
  <2>2. (\A t \in Implementation : Complete(c, t) <=> t \in Linked(c))'
    BY <2>1, <1>3 DEF BasesOf, Complete
  <2>3. ASSUME NEW t \in Linked(c)
        PROVE  (LET r == runs[RunOf(c, t)] IN
                 /\ r.verified # None
                 /\ r.task \in {None, t}
                 /\ \A u \in Linked(c) \ {t} : RunOf(c, u) # RunOf(c, t)
                 /\ IF Plan[t].from = None THEN r.base = Initial
                    ELSE LET before == runs[RunOf(c, Plan[t].from)] IN
                         /\ Plan[t].from \in Linked(c)
                         /\ r.base = before.verified.head
                         /\ before.verified.head = before.verified.work
                         /\ before.verified.head # before.base)'
    BY <2>1, <1>2, <1>3 DEF BasesOf, RunOf
  <2> QED BY <2>2, <2>3, <1>3 DEF BasesOf
<1>5. Chains(c)'
  BY <1>1, <1>2, <1>3, <1>4 DEF Chains, Clean, RunOf
<1>6. Integrated(c) => Integrated(c)'
  <2>1. \A t \in Linked(c) : RunPaths(RunOf(c, t))' = RunPaths(RunOf(c, t))
    BY <1>2 DEF RunPaths, RunOf
  <2>2. \A ts : PathsOf(c, ts)' = PathsOf(c, ts)
    BY <2>1, <1>3 DEF PathsOf, RunOf
  <2> QED BY <2>1, <2>2, <1>3 DEF Integrated, RunOf
<1>7. FinishedOf(c)'
  BY <1>6 DEF GoodCopy, FinishedOf, Complete, Blockers
<1>8. DependenciesOf(c)'
  BY DEF GoodCopy, DependenciesOf, Complete
<1> QED BY <1>5, <1>7, <1>8 DEF GoodCopy

(* The steps that write no copy.                                           *)
LEMMA NoNewCopy ==
  ASSUME IInv, Shapes', RunsGrow, comparison => comparison', Copies' \subseteq Copies
  PROVE  IInv'
<1>1. ASSUME NEW c \in Copies'
      PROVE  GoodCopy(c)'
  <2>1. GoodCopy(c)
    BY DEF IInv
  <2> QED BY <2>1, CopyKept
<1> QED BY <1>1 DEF IInv

(* A step that writes one: it is enough that the new copy is good.         *)
LEMMA NewCopy ==
  ASSUME IInv, Shapes', RunsGrow, comparison => comparison',
         NEW n, GoodCopy(n), Copies' \subseteq Copies \cup {n}
  PROVE  IInv'
<1>1. ASSUME NEW c \in Copies'
      PROVE  GoodCopy(c)'
  <2>1. GoodCopy(c)
    BY DEF IInv
  <2> QED BY <2>1, CopyKept
<1> QED BY <1>1 DEF IInv

LEMMA SameRuns ==
  ASSUME runs' = runs
  PROVE  RunsGrow
BY DEF RunsGrow, Runs

(* What a handler has loaded is a good copy.                               *)
LEMMA LoadedGood ==
  ASSUME IInv, NEW s \in Servers, use[s] # None
  PROVE  /\ GoodCopy(use[s].copy) /\ use[s].copy \in CampaignRecord
         /\ use[s].starting # None => use[s].starting \in Starting
<1>1. use[s].copy \in Copies
  BY DEF Copies
<1>2. GoodCopy(use[s].copy)
  BY <1>1 DEF IInv
<1>3. use[s].copy \in CampaignRecord
  BY <1>2 DEF GoodCopy
<1>4. use[s].starting # None => use[s].starting \in Starting
  BY DEF IInv, Shapes
<1> QED BY <1>2, <1>3, <1>4

LEMMA CampaignGood ==
  ASSUME IInv
  PROVE  GoodCopy(campaign) /\ campaign \in CampaignRecord
BY DEF IInv, Copies, GoodCopy

(* A handler that returns leaves the copies of the other servers.          *)
LEMMA ReturnsKeeps ==
  ASSUME IInv, NEW s \in Servers, Returns(s)
  PROVE  /\ use' \in [Servers -> {None} \cup [copy : CampaignRecord, starting : {None} \cup Starting]]
         /\ Copies' \subseteq Copies \cup {campaign'}
<1>1. use \in [Servers -> {None} \cup [copy : CampaignRecord, starting : {None} \cup Starting]]
  BY DEF IInv, Shapes
<1>2. \A v \in Servers : use'[v] # None => use[v] # None /\ use'[v] = use[v]
  BY <1>1 DEF Returns
<1>3. Copies' \subseteq Copies \cup {campaign'}
  BY <1>2 DEF Copies
<1> QED BY <1>1, <1>3 DEF Returns

(* A handler that saves: types and growth follow, the new state has to be  *)
(* good.                                                                   *)
LEMMA SavedGood ==
  ASSUME IInv, NEW s \in Servers, NEW n, Saves(s, n), GoodCopy(n),
         runs' \in Seq(RunType), RunsGrow, comparison' \in BOOLEAN, comparison => comparison'
  PROVE  IInv'
<1>1. Returns(s) /\ campaign' = n /\ UNCHANGED <<checkout, version>>
  BY DEF Saves
<1>2. /\ use' \in [Servers -> {None} \cup [copy : CampaignRecord, starting : {None} \cup Starting]]
      /\ Copies' \subseteq Copies \cup {n}
  BY <1>1, ReturnsKeeps
<1>3. Shapes'
  BY <1>1, <1>2 DEF IInv, Shapes
<1> QED BY <1>2, <1>3, NewCopy

(* Only the tasks and the runs matter for the chains.                      *)
LEMMA SameTasks ==
  ASSUME NEW c, NEW n, n.task = c.task
  PROVE  /\ DependenciesOf(c) => DependenciesOf(n)
         /\ Chains(c) => Chains(n)
         /\ Integrated(c) = Integrated(n)
         /\ \A t : Complete(n, t) = Complete(c, t)
<1>1. \A t : Complete(n, t) = Complete(c, t)
  BY DEF Complete
<1>2. DependenciesOf(c) => DependenciesOf(n)
  BY <1>1 DEF DependenciesOf
<1>3. Linked(n) = Linked(c)
  BY DEF Linked, RunOf
<1>4. \A t : RunOf(n, t) = RunOf(c, t)
  BY DEF RunOf
<1>5. BasesOf(c) => BasesOf(n)
  BY <1>1, <1>3, <1>4 DEF BasesOf
<1>6. Chains(c) => Chains(n)
  BY <1>3, <1>4, <1>5 DEF Chains, Clean
<1>7. \A ts : PathsOf(n, ts) = PathsOf(c, ts)
  BY <1>3, <1>4 DEF PathsOf
<1>8. Integrated(c) = Integrated(n)
  BY <1>3, <1>4, <1>7 DEF Integrated
<1> QED BY <1>1, <1>2, <1>6, <1>8

----------------------------------------------------------------------------
(* The actions around the handlers.                                        *)

LEMMA InitGood ==
  ASSUME Init
  PROVE  IInv
<1>1. checkout \in [Workspaces -> Commits] /\ Initial \in Tree
  BY CampaignAssumption DEF Init, Commits, Tree, Initial
<1>2. runs \in Seq(RunType) /\ comparison \in BOOLEAN
  <2>1. runs = << >> /\ << >> \in Seq(RunType)
    BY DEF Init
  <2>2. comparison \in BOOLEAN
    BY DEF Init
  <2> QED BY <2>1, <2>2
<1>3. version \in [Servers -> Versions]
  BY DEF Init
<1>4. \A s \in Servers : use[s] = None
  BY DEF Init
<1>5. use \in [Servers -> {None} \cup [copy : CampaignRecord, starting : {None} \cup Starting]]
  BY DEF Init
<1>6. Copies = {campaign}
  BY <1>4 DEF Copies
<1>7. campaign \in CampaignRecord
  BY DEF Init, CampaignRecord, Statuses
<1>8. Linked(campaign) = {}
  BY DEF Init, Linked, RunOf
<1>9. \A t \in Tasks : campaign.task[t].status = "pending"
  BY DEF Init
<1>10. DependenciesOf(campaign)
  BY <1>9 DEF DependenciesOf
<1>11. Chains(campaign)
  BY <1>8, <1>9 DEF Chains, BasesOf, Clean, Complete, Implementation
<1>12. FinishedOf(campaign)
  BY DEF Init, FinishedOf
<1>13. GoodCopy(campaign)
  BY <1>7, <1>10, <1>11, <1>12 DEF GoodCopy
<1> QED BY <1>1, <1>2, <1>3, <1>5, <1>6, <1>13 DEF IInv, Shapes

LEMMA StutterGood ==
  ASSUME IInv, UNCHANGED vars
  PROVE  IInv'
<1>1. RunsGrow
  BY SameRuns DEF vars
<1>2. Copies' = Copies
  BY DEF vars, Copies
<1> QED BY <1>1, <1>2, NoNewCopy DEF vars, IInv, Shapes

LEMMA WorldGood ==
  ASSUME IInv,
         \E w \in Workspaces : Commit(w) \/ \E p \in Paths : Edit(w, p)
  PROVE  IInv'
<1>1. UNCHANGED <<campaign, comparison, runs, version, use>>
  BY DEF Commit, Edit
<1>2. RunsGrow /\ Copies' = Copies
  BY <1>1, SameRuns DEF Copies
<1>3. checkout' \in [Workspaces -> Commits]
  <2>1. checkout \in [Workspaces -> Commits]
    BY DEF IInv, Shapes
  <2>2. ASSUME NEW w \in Workspaces, Commit(w)
        PROVE  checkout' \in [Workspaces -> Commits]
    <3>1. checkout[w] \in Commits /\ [checkout[w] EXCEPT !.head = checkout[w].work] \in Commits
      BY <2>1 DEF Commits
    <3>2. checkout' = [checkout EXCEPT ![w] = [checkout[w] EXCEPT !.head = checkout[w].work]]
      BY <2>2, <2>1 DEF Commit
    <3> QED BY <3>1, <3>2, <2>1
  <2>3. ASSUME NEW w \in Workspaces, NEW p \in Paths, Edit(w, p)
        PROVE  checkout' \in [Workspaces -> Commits]
    <3>1. checkout[w].work \in Tree /\ checkout[w].work[p] \in 0 .. MaxContent
      BY <2>1 DEF Commits, Tree
    <3>2. checkout[w].work[p] + 1 \in 0 .. MaxContent
      BY <2>3, <3>1, CampaignAssumption DEF Edit
    <3>3. [checkout[w].work EXCEPT ![p] = checkout[w].work[p] + 1] \in Tree
      BY <3>1, <3>2 DEF Tree
    <3>4. checkout[w] \in Commits
      BY <2>1
    <3>5. [checkout[w] EXCEPT !.work = [checkout[w].work EXCEPT ![p] = checkout[w].work[p] + 1]]
            \in Commits
      BY <3>3, <3>4 DEF Commits
    <3>6. checkout' = [checkout EXCEPT ![w] =
             [checkout[w] EXCEPT !.work = [checkout[w].work EXCEPT ![p] = checkout[w].work[p] + 1]]]
      BY <2>3, <2>1 DEF Edit
    <3> QED BY <3>5, <3>6, <2>1
  <2> QED BY <2>2, <2>3
<1>4. Shapes'
  BY <1>1, <1>3 DEF IInv, Shapes
<1> QED BY <1>1, <1>2, <1>4, NoNewCopy

LEMMA PlainRunGood ==
  ASSUME IInv, NEW w \in Workspaces, NEW base \in Tree, CreatePlainRun(w, base)
  PROVE  IInv'
<1>1. RunRecord(None, w, base, None) \in RunType
  BY DEF RunRecord, RunType
<1>2. runs \in Seq(RunType)
  BY DEF IInv, Shapes
<1>3. runs' \in Seq(RunType) /\ RunsGrow
  BY <1>1, <1>2 DEF CreatePlainRun, RunsGrow, Runs
<1>4. Copies' = Copies
  BY DEF CreatePlainRun, Copies
<1> QED BY <1>3, <1>4, NoNewCopy DEF CreatePlainRun, IInv, Shapes

LEMMA RunCompletesGood ==
  ASSUME IInv, NEW r \in Runs, RunCompletes(r)
  PROVE  IInv'
<1>1. runs \in Seq(RunType) /\ checkout \in [Workspaces -> Commits]
  BY DEF IInv, Shapes
<1>2. runs[r] \in RunType
  BY <1>1 DEF Runs
<1>3. checkout[runs[r].workspace] \in Commits
  BY <1>1, <1>2 DEF RunType
<1>4. [runs[r] EXCEPT !.verified = checkout[runs[r].workspace]] \in RunType
  BY <1>2, <1>3 DEF RunType
<1>5. runs' = [runs EXCEPT ![r] = [runs[r] EXCEPT !.verified = checkout[runs[r].workspace]]]
  BY DEF RunCompletes
<1>6. runs' \in Seq(RunType)
  BY <1>1, <1>4, <1>5 DEF Runs
<1>7. RunsGrow
  BY <1>1, <1>5 DEF RunsGrow, Runs, RunCompletes
<1>8. Copies' = Copies
  BY DEF RunCompletes, Copies
<1> QED BY <1>6, <1>7, <1>8, NoNewCopy DEF RunCompletes, IInv, Shapes

LEMMA ReturnGood ==
  ASSUME IInv, NEW s \in Servers, Returns(s),
         UNCHANGED <<campaign, runs, checkout>>, version' \in [Servers -> Versions],
         comparison' \in BOOLEAN, comparison => comparison'
  PROVE  IInv'
<1>1. /\ use' \in [Servers -> {None} \cup [copy : CampaignRecord, starting : {None} \cup Starting]]
      /\ Copies' \subseteq Copies
  BY ReturnsKeeps DEF Copies
<1>2. RunsGrow
  BY SameRuns
<1>3. Shapes'
  BY <1>1 DEF IInv, Shapes
<1> QED BY <1>1, <1>2, <1>3, NoNewCopy

LEMMA QuietGood ==
  ASSUME IInv, NEW s \in Servers,
         Refuse(s) \/ CompareCrash(s) \/ \E v \in Versions : Restart(s, v)
  PROVE  IInv'
<1>1. version \in [Servers -> Versions] /\ comparison \in BOOLEAN
  BY DEF IInv, Shapes
<1>2. CASE Refuse(s)
  BY <1>1, <1>2, ReturnGood DEF Refuse
<1>3. CASE CompareCrash(s)
  BY <1>1, <1>3, ReturnGood DEF CompareCrash
<1>4. ASSUME NEW v \in Versions, Restart(s, v)
      PROVE  IInv'
  <2>1. Returns(s) /\ UNCHANGED <<campaign, comparison, runs, checkout>>
    BY <1>4 DEF Restart, Returns
  <2>2. version' \in [Servers -> Versions]
    BY <1>1, <1>4 DEF Restart
  <2> QED BY <1>1, <2>1, <2>2, ReturnGood
<1> QED BY <1>2, <1>3, <1>4

LEMMA LoadGood ==
  ASSUME IInv, NEW s \in Servers, Load(s)
  PROVE  IInv'
<1>1. campaign \in CampaignRecord
  BY CampaignGood
<1>2. use \in [Servers -> {None} \cup [copy : CampaignRecord, starting : {None} \cup Starting]]
  BY DEF IInv, Shapes
<1>3. use' \in [Servers -> {None} \cup [copy : CampaignRecord, starting : {None} \cup Starting]]
  BY <1>1, <1>2 DEF Load
<1>4. \A v \in Servers : use'[v] = use[v] \/ use'[v].copy = campaign
  BY <1>2 DEF Load
<1>5. Copies' \subseteq Copies
  BY <1>4 DEF Copies, Load
<1>6. RunsGrow
  BY SameRuns DEF Load
<1> QED BY <1>3, <1>5, <1>6, NoNewCopy DEF Load, IInv, Shapes

----------------------------------------------------------------------------
(* The handlers.                                                           *)

(* The base a task calls for is a tree, once its predecessor has a run.    *)
LEMMA BaseIsTree ==
  ASSUME NEW c \in CampaignRecord, Chains(c), runs \in Seq(RunType),
         NEW t \in Implementation, HasBase(c, t)
  PROVE  Base(c, t) \in Tree
<1>1. Initial \in Tree
  BY CampaignAssumption DEF Initial, Tree
<1>2. ASSUME Plan[t].from # None
      PROVE  runs[c.task[Plan[t].from].run].verified.head \in Tree
  <2>1. t \in Tasks /\ Plan[t].from \in Tasks
    BY <1>2, PlanFacts DEF Implementation
  <2>2. Plan[t].from \in Linked(c)
    BY <1>2, <2>1 DEF HasBase, Linked, RunOf
  <2>3. RunOf(c, Plan[t].from) \in Runs /\ runs[RunOf(c, Plan[t].from)].verified # None
    BY <2>2 DEF Chains, BasesOf
  <2>4. runs[RunOf(c, Plan[t].from)] \in RunType
    BY <2>3 DEF Runs
  <2>5. runs[RunOf(c, Plan[t].from)].verified \in Commits
    BY <2>3, <2>4 DEF RunType
  <2> QED BY <2>5 DEF Commits, RunOf
<1> QED BY <1>1, <1>2 DEF Base

LEMMA PrepareRunGood ==
  ASSUME IInv, NEW s \in Servers, NEW t \in Tasks, PrepareRun(s, t)
  PROVE  IInv'
<1> DEFINE c == use[s].copy
           r == RunRecord(t, Plan[t].workspace, Base(c, t), version[s])
<1>1. use[s] # None /\ t \in Implementation /\ HasBase(c, t)
  BY DEF PrepareRun, Loaded
<1>2. GoodCopy(c) /\ c \in CampaignRecord
  BY <1>1, LoadedGood
<1>3. Base(c, t) \in Tree
  BY <1>1, <1>2, BaseIsTree DEF GoodCopy, IInv, Shapes
<1>4. Plan[t].workspace \in Workspaces /\ version[s] \in Versions
  BY PlanFacts DEF IInv, Shapes
<1>5. r \in Starting
  BY <1>1, <1>3, <1>4 DEF RunRecord, RunType, Starting
<1>6. campaign \in CampaignRecord
  BY CampaignGood
<1>7. use \in [Servers -> {None} \cup [copy : CampaignRecord, starting : {None} \cup Starting]]
  BY DEF IInv, Shapes
<1>8. use' = [use EXCEPT ![s] = [copy |-> campaign, starting |-> r]]
  BY DEF PrepareRun
<1>9. use' \in [Servers -> {None} \cup [copy : CampaignRecord, starting : {None} \cup Starting]]
  BY <1>5, <1>6, <1>7, <1>8
<1>10. \A v \in Servers : use'[v] = use[v] \/ use'[v].copy = campaign
  BY <1>7, <1>8
<1>11. Copies' \subseteq Copies
  BY <1>10 DEF Copies, PrepareRun
<1>12. RunsGrow
  BY SameRuns DEF PrepareRun
<1> QED BY <1>9, <1>11, <1>12, NoNewCopy DEF PrepareRun, IInv, Shapes

(* A new run is the last one.                                              *)
LEMMA RunAppended ==
  ASSUME IInv, NEW r \in RunType, runs' = Append(runs, r)
  PROVE  runs' \in Seq(RunType) /\ RunsGrow
BY DEF IInv, Shapes, RunsGrow, Runs

LEMMA AdoptedGood ==
  ASSUME NEW c \in CampaignRecord, GoodCopy(c), NEW t \in Implementation, NEW v \in Versions
  PROVE  GoodCopy(Adopted(c, t, v))
<1> DEFINE n == Adopted(c, t, v)
<1>1. Plan[t].wave \in Waves
  BY DEF Waves
<1>2. n \in CampaignRecord
  BY <1>1 DEF Adopted, CampaignRecord
<1>3. n.task = c.task /\ n.phase = c.phase /\ n.blocker = c.blocker /\ n.candidate = c.candidate
  BY DEF Adopted, CampaignRecord
<1>4. DependenciesOf(n) /\ Chains(n)
  BY <1>3, SameTasks DEF GoodCopy
<1>5. FinishedOf(n)
  BY <1>3, SameTasks DEF GoodCopy, FinishedOf, Blockers
<1> QED BY <1>2, <1>4, <1>5 DEF GoodCopy

LEMMA CreateRunGood ==
  ASSUME IInv, NEW s \in Servers, NEW created \in BOOLEAN, CreateRun(s, created)
  PROVE  IInv'
<1> DEFINE c == use[s].copy
           t == use[s].starting.task
           v == use[s].starting.version
<1>1. use[s] # None /\ use[s].starting # None
  BY DEF CreateRun
<1>2. GoodCopy(c) /\ c \in CampaignRecord /\ use[s].starting \in Starting
  BY <1>1, LoadedGood
<1>3. t \in Implementation /\ v \in Versions /\ use[s].starting \in RunType
  BY <1>2 DEF Starting
<1>4. runs' = Append(runs, use[s].starting) \/ runs' = runs
  BY DEF CreateRun
<1>5. runs \in Seq(RunType) /\ comparison \in BOOLEAN /\ version \in [Servers -> Versions]
  BY DEF IInv, Shapes
<1>6. runs' \in Seq(RunType) /\ RunsGrow
  BY <1>3, <1>4, <1>5, RunAppended, SameRuns
<1>7. comparison' = comparison
  BY DEF CreateRun
<1>8. CASE Returns(s) /\ UNCHANGED <<campaign, checkout, version>>
  <2>1. /\ use' \in [Servers -> {None} \cup [copy : CampaignRecord, starting : {None} \cup Starting]]
        /\ Copies' \subseteq Copies
    BY <1>8, ReturnsKeeps DEF Copies
  <2>2. Shapes'
    BY <1>6, <1>7, <1>8, <2>1 DEF IInv, Shapes
  <2> QED BY <1>6, <1>7, <2>1, <2>2, NoNewCopy
<1>9. CASE Saves(s, Adopted(c, t, v))
  <2>1. GoodCopy(Adopted(c, t, v))
    BY <1>2, <1>3, AdoptedGood
  <2> QED BY <1>5, <1>6, <1>7, <1>9, <2>1, SavedGood
<1>10. \/ Returns(s) /\ UNCHANGED <<campaign, checkout, version>>
       \/ Saves(s, Adopted(c, t, v))
  BY DEF CreateRun
<1> QED BY <1>8, <1>9, <1>10

(* The task changes; the others, and all that is complete, stay.           *)
LEMMA RecordedTask ==
  ASSUME NEW c \in CampaignRecord, GoodCopy(c), NEW t \in Tasks, NEW status \in Statuses,
         NEW r \in {None} \cup Nat, TaskMayBecome(c, t, status),
         r # None => r \in Runs,
         IF status = "complete" /\ t \in Implementation
         THEN r # None /\ Accepted(c, t, r)
         ELSE r = None
  PROVE  GoodCopy([c EXCEPT !.task[t] = [status |-> status, run |-> r]])
<1> DEFINE n == [c EXCEPT !.task[t] = [status |-> status, run |-> r]]
<1>1. /\ n.task = [c.task EXCEPT ![t] = [status |-> status, run |-> r]]
      /\ n.phase = c.phase /\ n.blocker = c.blocker /\ n.candidate = c.candidate
      /\ c.task \in [Tasks -> [status : Statuses, run : {None} \cup Nat]]
      /\ n \in CampaignRecord
  BY DEF CampaignRecord
<1>2. ~Complete(c, t)
  BY DEF TaskMayBecome, Allowed, Complete
<1>3. \A u \in Tasks \ {t} : n.task[u] = c.task[u] /\ (Complete(n, u) <=> Complete(c, u))
  BY <1>1 DEF Complete
<1>4. n.task[t].status = status /\ n.task[t].run = r
  BY <1>1
<1>5. DependenciesOf(n)
  <2> SUFFICES ASSUME NEW u \in Tasks, n.task[u].status \in {"in_progress", "complete"},
                      NEW d \in Plan[u].deps
               PROVE  Complete(n, d)
    BY DEF DependenciesOf
  <2>1. d \in 1 .. u - 1 /\ Tasks = 1 .. Len(Plan) /\ Len(Plan) \in Nat
    BY PlanFacts, CampaignAssumption DEF Tasks
  <2>2. d \in Tasks /\ d # u
    BY <2>1
  <2>3. Complete(c, d)
    <3>1. CASE u = t
      BY <3>1, <1>4 DEF TaskMayBecome
    <3>2. CASE u # t
      BY <3>2, <1>3 DEF GoodCopy, DependenciesOf
    <3> QED BY <3>1, <3>2
  <2>4. d # t
    BY <2>3, <1>2
  <2> QED BY <2>2, <2>3, <2>4, <1>3
<1>6. t \notin Linked(c)
  BY <1>2 DEF GoodCopy, Chains, BasesOf
<1>7. Linked(n) \subseteq Linked(c) \cup {t} /\ (t \in Linked(n) <=> r # None)
  BY <1>3, <1>4 DEF Linked, RunOf
<1>8. \A u \in Linked(c) : u \in Linked(n) /\ u # t /\ RunOf(n, u) = RunOf(c, u)
  BY <1>3, <1>6 DEF Linked, RunOf
<1>9. r # None => t \in Implementation /\ status = "complete" /\ Accepted(c, t, r)
  OBVIOUS
<1>10. Linked(n) \subseteq Implementation
  BY <1>7, <1>9 DEF GoodCopy, Chains
<1>11. \A u \in Linked(n) : RunOf(n, u) \in Runs
  BY <1>4, <1>7, <1>8 DEF GoodCopy, Chains, RunOf
<1>12. Clean(n)
  <2> SUFFICES ASSUME NEW u \in Linked(n), IsPredecessor(u)
               PROVE  /\ runs[RunOf(n, u)].verified.head = runs[RunOf(n, u)].verified.work
                      /\ runs[RunOf(n, u)].verified.head # runs[RunOf(n, u)].base
    BY DEF Clean
  <2>1. CASE u = t
    <3>1. Accepted(c, t, r) /\ RunOf(n, u) = r
      BY <2>1, <1>4, <1>7, <1>9 DEF RunOf
    <3> QED BY <2>1, <3>1 DEF Accepted
  <2>2. CASE u # t
    BY <2>2, <1>7, <1>8 DEF GoodCopy, Chains, Clean
  <2> QED BY <2>1, <2>2
<1>13. \A u \in Implementation : Complete(n, u) <=> u \in Linked(n)
  <2> SUFFICES ASSUME NEW u \in Implementation
               PROVE  Complete(n, u) <=> u \in Linked(n)
    OBVIOUS
  <2>1. u \in Tasks
    BY DEF Implementation
  <2>2. CASE u = t
    BY <2>2, <1>4, <1>7, <1>9 DEF Complete
  <2>3. CASE u # t
    BY <2>1, <2>3, <1>3, <1>7, <1>8 DEF GoodCopy, Chains, BasesOf
  <2> QED BY <2>2, <2>3
<1>14. ASSUME NEW u \in Linked(n)
       PROVE  LET x == runs[RunOf(n, u)] IN
              /\ x.verified # None
              /\ x.task \in {None, u}
              /\ \A v \in Linked(n) \ {u} : RunOf(n, v) # RunOf(n, u)
              /\ IF Plan[u].from = None THEN x.base = Initial
                 ELSE LET before == runs[RunOf(n, Plan[u].from)] IN
                      /\ Plan[u].from \in Linked(n)
                      /\ x.base = before.verified.head
                      /\ before.verified.head = before.verified.work
                      /\ before.verified.head # before.base
  <2>1. u \in Tasks /\ (Plan[u].from # None => Plan[u].from \in Tasks)
    BY PlanFacts DEF Linked
  <2>2. CASE u = t
    <3>1. r # None /\ RunOf(n, u) = r /\ Accepted(c, t, r)
      BY <2>2, <1>4, <1>7, <1>9 DEF RunOf
    <3>2. runs[r].verified # None /\ runs[r].task \in {None, t}
      BY <3>1 DEF Accepted
    <3>3. \A v \in Linked(n) \ {u} : RunOf(n, v) # r
      BY <3>1, <2>2, <1>7, <1>8 DEF Accepted, RunOf, Linked
    <3>4. CASE Plan[u].from = None
      BY <3>1, <3>2, <3>3, <3>4, <2>2 DEF Accepted, Base
    <3>5. CASE Plan[u].from # None
      <4>1. Plan[u].from \in Linked(c)
        BY <3>1, <3>5, <2>1, <2>2 DEF Accepted, HasBase, Linked, RunOf
      <4>2. Plan[u].from \in Linked(n) /\ RunOf(n, Plan[u].from) = RunOf(c, Plan[u].from)
        BY <4>1, <1>8
      <4>3. runs[r].base = runs[RunOf(n, Plan[u].from)].verified.head
        BY <4>2, <3>1, <3>5, <2>2 DEF Accepted, Base, RunOf
      <4>4. IsPredecessor(Plan[u].from)
        BY <3>5, <2>1, PlanFacts
      <4> QED BY <4>2, <4>3, <4>4, <1>12, <3>1, <3>2, <3>3, <3>5, <2>2 DEF Clean
    <3> QED BY <3>4, <3>5
  <2>3. CASE u # t
    <3>1. u \in Linked(c) /\ RunOf(n, u) = RunOf(c, u)
      BY <2>3, <1>7, <1>8
    <3>2. BasesOf(c)
      BY DEF GoodCopy, Chains
    <3>3. \A v \in Linked(n) \ {u} : RunOf(n, v) # RunOf(n, u)
      <4> SUFFICES ASSUME NEW v \in Linked(n) \ {u}
                   PROVE  RunOf(n, v) # RunOf(n, u)
        OBVIOUS
      <4>1. CASE v = t
        <5>1. Accepted(c, t, r) /\ RunOf(n, v) = r
          BY <4>1, <1>4, <1>7, <1>9 DEF RunOf
        <5> QED BY <5>1, <3>1, <2>1, <2>3 DEF Accepted, RunOf
      <4>2. CASE v # t
        BY <4>2, <3>1, <3>2, <1>7, <1>8 DEF BasesOf
      <4> QED BY <4>1, <4>2
    <3>4. CASE Plan[u].from = None
      BY <3>1, <3>2, <3>3, <3>4 DEF BasesOf
    <3>5. CASE Plan[u].from # None
      <4>1. Plan[u].from \in Linked(c)
        BY <3>1, <3>2, <3>5 DEF BasesOf
      <4>2. Plan[u].from \in Linked(n) /\ RunOf(n, Plan[u].from) = RunOf(c, Plan[u].from)
        BY <4>1, <1>8
      <4> QED BY <4>2, <3>1, <3>2, <3>3, <3>5 DEF BasesOf
    <3> QED BY <3>4, <3>5
  <2> QED BY <2>2, <2>3
<1>15. BasesOf(n)
  BY <1>13, <1>14 DEF BasesOf
<1>16. Chains(n)
  BY <1>10, <1>11, <1>12, <1>15 DEF Chains
<1>17. c.candidate = None
  BY <1>2 DEF GoodCopy, FinishedOf
<1>18. FinishedOf(n)
  BY <1>1, <1>17 DEF FinishedOf, TaskMayBecome, Open, Ends
<1> QED BY <1>1, <1>5, <1>16, <1>18 DEF GoodCopy

LEMMA RecordTaskGood ==
  ASSUME IInv, NEW s \in Servers, NEW t \in Tasks,
         NEW status \in {"in_progress", "complete"} \cup Stops,
         NEW r \in {None} \cup Runs, RecordTask(s, t, status, r)
  PROVE  IInv'
<1> DEFINE c == use[s].copy
           n == [c EXCEPT !.task[t] = [status |-> status, run |-> r]]
<1>1. use[s] # None /\ TaskMayBecome(c, t, status) /\ Saves(s, n)
      /\ UNCHANGED <<comparison, runs>>
  BY DEF RecordTask, Loaded
<1>2. GoodCopy(c) /\ c \in CampaignRecord
  BY <1>1, LoadedGood
<1>3. status \in Statuses
  BY CampaignAssumption DEF Statuses
<1>4. runs \in Seq(RunType) /\ comparison \in BOOLEAN
  BY DEF IInv, Shapes
<1>5. r \in {None} \cup Nat /\ (r # None => r \in Runs)
  BY <1>4 DEF Runs
<1>6. IF status = "complete" /\ t \in Implementation THEN r # None /\ Accepted(c, t, r) ELSE r = None
  BY DEF RecordTask
<1>7. GoodCopy(n)
  BY <1>1, <1>2, <1>3, <1>5, <1>6, RecordedTask
<1>8. RunsGrow
  BY <1>1, SameRuns
<1> QED BY <1>1, <1>4, <1>7, <1>8, SavedGood

(* A change of phase, of a blocker or of the candidate leaves the tasks.   *)
LEMMA SavesWithTasks ==
  ASSUME IInv, NEW s \in Servers, use[s] # None, NEW n \in CampaignRecord,
         n.task = use[s].copy.task, FinishedOf(n), Saves(s, n),
         runs' = runs, comparison' = comparison
  PROVE  IInv'
<1>1. GoodCopy(use[s].copy)
  BY LoadedGood
<1>2. GoodCopy(n)
  BY <1>1, SameTasks DEF GoodCopy
<1>3. runs \in Seq(RunType) /\ comparison \in BOOLEAN /\ RunsGrow
  BY SameRuns DEF IInv, Shapes
<1> QED BY <1>2, <1>3, SavedGood

LEMMA InterventionGood ==
  ASSUME IInv, NEW s \in Servers, NEW i \in Interventions, NEW resolved \in BOOLEAN,
         RecordIntervention(s, i, resolved)
  PROVE  IInv'
<1> DEFINE c == use[s].copy
           n == [c EXCEPT !.blocker[i] = IF resolved THEN "resolved" ELSE "open"]
<1>1. use[s] # None /\ Open(c) /\ Saves(s, n) /\ UNCHANGED <<comparison, runs>>
  BY DEF RecordIntervention, Loaded
<1>2. GoodCopy(c) /\ c \in CampaignRecord
  BY <1>1, LoadedGood
<1>3. /\ n \in CampaignRecord /\ n.task = c.task /\ n.phase = c.phase
      /\ n.candidate = c.candidate
  BY <1>2 DEF CampaignRecord
<1>4. c.phase # "complete"
  BY <1>1 DEF Open, Ends
<1>5. FinishedOf(n)
  BY <1>2, <1>3, <1>4, SameTasks DEF GoodCopy, FinishedOf
<1> QED BY <1>1, <1>3, <1>5, SavesWithTasks

(* The snapshots are of worktrees of the campaign.                         *)
LEMMA SnapshotsTyped ==
  ASSUME NEW c, checkout \in [Workspaces -> Commits]
  PROVE  Snapshots(c) \in UNION {[ws -> Commits] : ws \in SUBSET Workspaces}
<1> DEFINE ws == {Primary} \cup {Plan[t].workspace : t \in Linked(c)}
<1>1. ws \subseteq Workspaces
  BY PlanFacts, CampaignAssumption DEF Linked
<1>2. Snapshots(c) \in [ws -> Commits]
  BY <1>1 DEF Snapshots
<1> QED BY <1>1, <1>2

LEMMA SealGood ==
  ASSUME IInv, NEW s \in Servers, Seal(s)
  PROVE  IInv'
<1> DEFINE c == use[s].copy
           n == [c EXCEPT !.candidate = Snapshots(c), !.phase = "candidate_ready"]
<1>1. /\ use[s] # None /\ Saves(s, n) /\ UNCHANGED <<comparison, runs>>
      /\ \A t \in Tasks : Complete(c, t)
      /\ Integrated(c)
  BY DEF Seal, Loaded
<1>2. GoodCopy(c) /\ c \in CampaignRecord
  BY <1>1, LoadedGood
<1>3. Snapshots(c) \in UNION {[ws -> Commits] : ws \in SUBSET Workspaces}
  BY SnapshotsTyped DEF IInv, Shapes
<1>4. n \in CampaignRecord /\ n.task = c.task /\ n.phase = "candidate_ready"
  BY <1>2, <1>3 DEF CampaignRecord
<1>5. FinishedOf(n)
  BY <1>1, <1>4, SameTasks DEF FinishedOf
<1> QED BY <1>1, <1>4, <1>5, SavesWithTasks

LEMMA CompareGood ==
  ASSUME IInv, NEW s \in Servers, Compare(s)
  PROVE  IInv'
<1> DEFINE c == use[s].copy
           n == [c EXCEPT !.phase = "comparing"]
<1>1. use[s] # None /\ Saves(s, n) /\ runs' = runs /\ comparison' = TRUE
  BY DEF Compare, Comparable, Loaded
<1>2. GoodCopy(c) /\ c \in CampaignRecord
  BY <1>1, LoadedGood
<1>3. n \in CampaignRecord /\ n.task = c.task /\ n.phase = "comparing" /\ n.candidate = c.candidate
  BY <1>2 DEF CampaignRecord
<1>4. FinishedOf(n)
  BY <1>2, <1>3, SameTasks DEF GoodCopy, FinishedOf
<1>5. GoodCopy(n)
  BY <1>2, <1>3, <1>4, SameTasks DEF GoodCopy
<1>6. runs' \in Seq(RunType) /\ RunsGrow
  BY <1>1, SameRuns DEF IInv, Shapes
<1> QED BY <1>1, <1>5, <1>6, SavedGood

LEMMA FinishGood ==
  ASSUME IInv, NEW s \in Servers, NEW status \in Ends, Finish(s, status)
  PROVE  IInv'
<1> DEFINE c == use[s].copy
           n == [c EXCEPT !.phase = status]
<1>1. /\ use[s] # None /\ Saves(s, n) /\ UNCHANGED <<comparison, runs>>
      /\ status = "complete" => MayComplete(c)
  BY DEF Finish, Loaded
<1>2. GoodCopy(c) /\ c \in CampaignRecord
  BY <1>1, LoadedGood
<1>3. /\ n \in CampaignRecord /\ n.task = c.task /\ n.phase = status
      /\ n.candidate = c.candidate /\ n.blocker = c.blocker
  BY <1>2 DEF CampaignRecord
<1>4. FinishedOf(n)
  BY <1>1, <1>2, <1>3, SameTasks DEF GoodCopy, FinishedOf, MayComplete, Blockers
<1> QED BY <1>1, <1>3, <1>4, SavesWithTasks

----------------------------------------------------------------------------

LEMMA NextGood ==
  ASSUME IInv, [Next]_vars
  PROVE  IInv'
<1>1. ASSUME NEW s \in Servers, Handler(s)
      PROVE  IInv'
  <2>1. CASE Load(s)
    BY <2>1, LoadGood
  <2>2. CASE Refuse(s)
    BY <2>2, QuietGood
  <2>3. ASSUME NEW t \in Tasks, NEW status \in {"in_progress", "complete"} \cup Stops,
               NEW r \in {None} \cup Runs, RecordTask(s, t, status, r)
        PROVE  IInv'
    BY <2>3, RecordTaskGood
  <2>4. ASSUME NEW t \in Tasks, PrepareRun(s, t)
        PROVE  IInv'
    BY <2>4, PrepareRunGood
  <2>5. ASSUME NEW i \in Interventions, NEW resolved \in BOOLEAN,
               RecordIntervention(s, i, resolved)
        PROVE  IInv'
    BY <2>5, InterventionGood
  <2>6. ASSUME NEW created \in BOOLEAN, CreateRun(s, created)
        PROVE  IInv'
    BY <2>6, CreateRunGood
  <2>7. CASE Seal(s)
    BY <2>7, SealGood
  <2>8. CASE Compare(s)
    BY <2>8, CompareGood
  <2>9. CASE CompareCrash(s)
    BY <2>9, QuietGood
  <2>10. ASSUME NEW status \in Ends, Finish(s, status)
         PROVE  IInv'
    BY <2>10, FinishGood
  <2> QED BY <1>1, <2>1, <2>2, <2>3, <2>4, <2>5, <2>6, <2>7, <2>8, <2>9, <2>10 DEF Handler
<1>2. CASE \E w \in Workspaces : Commit(w) \/ \E p \in Paths : Edit(w, p)
  BY <1>2, WorldGood
<1>3. ASSUME NEW w \in Workspaces, NEW base \in Tree, CreatePlainRun(w, base)
      PROVE  IInv'
  BY <1>3, PlainRunGood
<1>4. ASSUME NEW r \in Runs, RunCompletes(r)
      PROVE  IInv'
  BY <1>4, RunCompletesGood
<1>5. ASSUME NEW s \in Servers, NEW v \in Versions, Restart(s, v)
      PROVE  IInv'
  BY <1>5, QuietGood
<1>6. CASE UNCHANGED vars
  BY <1>6, StutterGood
<1> QED BY <1>1, <1>2, <1>3, <1>4, <1>5, <1>6 DEF Next

LEMMA GoodAlways == Spec => []IInv
<1>1. Init => IInv
  BY InitGood
<1>2. IInv /\ [Next]_vars => IInv'
  BY NextGood
<1> QED BY <1>1, <1>2, PTL DEF Spec

(* The state of a campaign keeps its shape and names only runs that exist, *)
(* for any plan and however many servers replace each other's state.       *)
THEOREM CampaignTypeCorrect == Spec => []TypeOK
<1>1. IInv => TypeOK
  BY CampaignGood DEF IInv, Shapes, Starting, TypeOK, GoodCopy, Chains
<1> QED BY <1>1, GoodAlways, PTL

(* record_campaign_task never lets a task be worked on or complete before  *)
(* what it depends on, even if a server writes back an old state.          *)
THEOREM DependenciesAlwaysFirst == Spec => []DependenciesFirst
<1>1. IInv => DependenciesFirst
  BY CampaignGood DEF GoodCopy, DependenciesFirst
<1> QED BY <1>1, GoodAlways, PTL

(* The runs of complete tasks always form chains: _completed_run_reference *)
(* accepts a run once, verified, and based on what its task calls for.     *)
THEOREM BasesAlwaysVerified == Spec => []BasesVerified
<1>1. IInv => BasesVerified
  BY CampaignGood DEF GoodCopy, Chains, BasesVerified
<1> QED BY <1>1, GoodAlways, PTL

(* A campaign that seal_campaign_candidate sealed and finish_campaign      *)
(* completed has all its tasks, its integrations and its comparison.       *)
THEOREM FinishedAlwaysWhole == Spec => []FinishedIsWhole
<1>1. IInv => FinishedIsWhole
  BY CampaignGood DEF GoodCopy, FinishedIsWhole
<1> QED BY <1>1, GoodAlways, PTL

----------------------------------------------------------------------------
(* One server.  Nobody else replaces the state it has loaded.              *)

OneServer == \A s, v \in Servers : s = v

CopyCurrent ==
  \A s \in Servers : use[s] # None =>
    /\ use[s].copy = campaign
    /\ use[s].starting # None => Open(campaign)

(* The one handler that is under way: what a step may do to the campaign.  *)
Replaces(s) ==
  \/ UNCHANGED campaign /\ Returns(s)
  \/ \E t \in Tasks, status \in {"in_progress", "complete"} \cup Stops, r \in {None} \cup Runs :
       RecordTask(s, t, status, r)
  \/ \E i \in Interventions, resolved \in BOOLEAN : RecordIntervention(s, i, resolved)
  \/ \E created \in BOOLEAN : CreateRun(s, created)
  \/ Seal(s) \/ Compare(s)
  \/ \E status \in Ends : Finish(s, status)

LEMMA StepCases ==
  ASSUME [Next]_vars
  PROVE  \/ UNCHANGED <<campaign, use>>
         \/ \E s \in Servers : Load(s) \/ Replaces(s) \/ \E t \in Tasks : PrepareRun(s, t)
<1>1. ASSUME NEW s \in Servers, Handler(s)
      PROVE  Load(s) \/ Replaces(s) \/ \E t \in Tasks : PrepareRun(s, t)
  <2>1. Refuse(s) => Replaces(s)
    BY DEF Refuse, Replaces
  <2>2. CompareCrash(s) => Replaces(s)
    BY DEF CompareCrash, Replaces
  <2>3. ASSUME NEW t \in Tasks, NEW status \in {"in_progress", "complete"} \cup Stops,
               NEW r \in {None} \cup Runs, RecordTask(s, t, status, r)
        PROVE  Replaces(s)
    BY <2>3 DEF Replaces
  <2> QED BY <1>1, <2>1, <2>2, <2>3 DEF Handler, Replaces
<1>2. CASE \E w \in Workspaces : Commit(w) \/ \E p \in Paths : Edit(w, p)
  BY <1>2 DEF Commit, Edit
<1>3. CASE \E w \in Workspaces, base \in Tree : CreatePlainRun(w, base)
  BY <1>3 DEF CreatePlainRun
<1>4. CASE \E r \in Runs : RunCompletes(r)
  BY <1>4 DEF RunCompletes
<1>5. ASSUME NEW s \in Servers, NEW v \in Versions, Restart(s, v)
      PROVE  Replaces(s)
  BY <1>5 DEF Restart, Replaces, Returns
<1>6. CASE UNCHANGED vars
  BY <1>6 DEF vars
<1> QED BY <1>1, <1>2, <1>3, <1>4, <1>5, <1>6 DEF Next

(* A replacement is by a server that then holds no copy.                   *)
LEMMA ReplacesReturns ==
  ASSUME NEW s \in Servers, Replaces(s)
  PROVE  Returns(s)
BY DEF Replaces, RecordTask, RecordIntervention, CreateRun, Seal, Compare, Finish, Saves

LEMMA CopyStaysCurrent ==
  ASSUME OneServer, IInv, CopyCurrent, [Next]_vars
  PROVE  CopyCurrent'
<1>1. use \in [Servers -> {None} \cup [copy : CampaignRecord, starting : {None} \cup Starting]]
  BY DEF IInv, Shapes
<1>2. CASE UNCHANGED <<campaign, use>>
  BY <1>2 DEF CopyCurrent, Open
<1>3. ASSUME NEW s \in Servers, Load(s)
      PROVE  CopyCurrent'
  BY <1>1, <1>3 DEF CopyCurrent, Load, OneServer, Open
<1>4. ASSUME NEW s \in Servers, Replaces(s)
      PROVE  CopyCurrent'
  <2>1. use' = [use EXCEPT ![s] = None]
    BY <1>4, ReplacesReturns DEF Returns
  <2>2. \A v \in Servers : use'[v] = None
    BY <1>1, <2>1 DEF OneServer
  <2> QED BY <2>2 DEF CopyCurrent
<1>5. ASSUME NEW s \in Servers, NEW t \in Tasks, PrepareRun(s, t)
      PROVE  CopyCurrent'
  <2>1. use[s] # None /\ Open(use[s].copy) /\ campaign' = campaign
    BY <1>5 DEF PrepareRun, Loaded
  <2>2. Open(campaign)
    BY <2>1 DEF CopyCurrent
  <2>3. use'[s].copy = campaign /\ \A v \in Servers : v = s
    BY <1>1, <1>5 DEF PrepareRun, OneServer
  <2> QED BY <2>1, <2>2, <2>3 DEF CopyCurrent, Open
<1> QED BY <1>2, <1>3, <1>4, <1>5, StepCases

(* How each handler leaves what others may rest on.                        *)
LEMMA CampaignSteps ==
  ASSUME OneServer, IInv, CopyCurrent, [Next]_vars
  PROVE  \/ campaign' = campaign
         \/ /\ Open(campaign)
            /\ campaign'.candidate = campaign.candidate
            /\ campaign'.task = campaign.task \/ campaign.candidate = None
            /\ \/ campaign'.phase # "complete"
               \/ campaign.candidate # None /\ campaign.candidate = Snapshots(campaign)
         \/ /\ Open(campaign) /\ campaign.candidate = None
            /\ campaign'.phase # "complete"
<1> DEFINE Goal ==
             \/ campaign' = campaign
             \/ /\ Open(campaign)
                /\ campaign'.candidate = campaign.candidate
                /\ campaign'.task = campaign.task \/ campaign.candidate = None
                /\ \/ campaign'.phase # "complete"
                   \/ campaign.candidate # None /\ campaign.candidate = Snapshots(campaign)
             \/ /\ Open(campaign) /\ campaign.candidate = None
                /\ campaign'.phase # "complete"
<1>1. GoodCopy(campaign) /\ campaign \in CampaignRecord
  BY CampaignGood
<1>2. \A s \in Servers : use[s] # None => use[s].copy = campaign
  BY DEF CopyCurrent
<1>3. ASSUME NEW s \in Servers, NEW t \in Tasks,
             NEW status \in {"in_progress", "complete"} \cup Stops, NEW r \in {None} \cup Runs,
             RecordTask(s, t, status, r)
      PROVE  Goal
  <2>1. /\ TaskMayBecome(campaign, t, status)
        /\ campaign' = [campaign EXCEPT !.task[t] = [status |-> status, run |-> r]]
    BY <1>2, <1>3 DEF RecordTask, Loaded, Saves
  <2>2. Open(campaign) /\ ~Complete(campaign, t)
    BY <2>1 DEF TaskMayBecome, Allowed, Complete
  <2>3. campaign.candidate = None
    BY <1>1, <2>2 DEF GoodCopy, FinishedOf
  <2>4. campaign'.phase = campaign.phase
    BY <1>1, <2>1 DEF CampaignRecord
  <2> QED BY <2>2, <2>3, <2>4 DEF Open, Ends
<1>4. ASSUME NEW s \in Servers, NEW i \in Interventions, NEW resolved \in BOOLEAN,
             RecordIntervention(s, i, resolved)
      PROVE  Goal
  <2>1. /\ Open(campaign)
        /\ campaign' = [campaign EXCEPT !.blocker[i] = IF resolved THEN "resolved" ELSE "open"]
    BY <1>2, <1>4 DEF RecordIntervention, Loaded, Saves
  <2>2. /\ campaign'.phase = campaign.phase /\ campaign'.candidate = campaign.candidate
        /\ campaign'.task = campaign.task
    BY <1>1, <2>1 DEF CampaignRecord
  <2> QED BY <2>1, <2>2 DEF Open, Ends
<1>5. ASSUME NEW s \in Servers, NEW created \in BOOLEAN, CreateRun(s, created)
      PROVE  Goal
  <2>1. Open(campaign) /\ use[s].copy = campaign
    BY <1>5, <1>2 DEF CreateRun, CopyCurrent
  <2>2. \/ campaign' = campaign
        \/ \E t, v : campaign' = Adopted(campaign, t, v)
    BY <1>5, <2>1 DEF CreateRun, Saves
  <2>3. \/ campaign' = campaign
        \/ /\ campaign'.phase = campaign.phase /\ campaign'.candidate = campaign.candidate
           /\ campaign'.task = campaign.task
    BY <1>1, <2>2 DEF Adopted, CampaignRecord
  <2> QED BY <2>1, <2>3 DEF Open, Ends
<1>6. ASSUME NEW s \in Servers, Seal(s)
      PROVE  Goal
  <2>1. /\ Open(campaign) /\ campaign.candidate = None
        /\ campaign' = [campaign EXCEPT !.candidate = Snapshots(campaign), !.phase = "candidate_ready"]
    BY <1>2, <1>6 DEF Seal, Loaded, Saves
  <2>2. campaign'.phase = "candidate_ready"
    BY <1>1, <2>1 DEF CampaignRecord
  <2> QED BY <2>1, <2>2
<1>7. ASSUME NEW s \in Servers, Compare(s)
      PROVE  Goal
  <2>1. /\ campaign.phase = "candidate_ready"
        /\ campaign' = [campaign EXCEPT !.phase = "comparing"]
    BY <1>2, <1>7 DEF Compare, Comparable, Loaded, Saves
  <2>2. /\ campaign'.phase = "comparing" /\ campaign'.candidate = campaign.candidate
        /\ campaign'.task = campaign.task
    BY <1>1, <2>1 DEF CampaignRecord
  <2> QED BY <2>1, <2>2 DEF Open, Ends
<1>8. ASSUME NEW s \in Servers, NEW status \in Ends, Finish(s, status)
      PROVE  Goal
  <2>1. /\ Open(campaign) /\ campaign' = [campaign EXCEPT !.phase = status]
        /\ status = "complete" => MayComplete(campaign)
    BY <1>2, <1>8 DEF Finish, Loaded, Saves
  <2>2. /\ campaign'.phase = status /\ campaign'.candidate = campaign.candidate
        /\ campaign'.task = campaign.task
    BY <1>1, <2>1 DEF CampaignRecord
  <2> QED BY <2>1, <2>2 DEF MayComplete
<1>9. ASSUME NEW s \in Servers, Load(s) \/ Replaces(s) \/ \E t \in Tasks : PrepareRun(s, t)
      PROVE  Goal
  <2>1. CASE Load(s)
    BY <2>1 DEF Load
  <2>2. CASE \E t \in Tasks : PrepareRun(s, t)
    BY <2>2 DEF PrepareRun
  <2>3. CASE Replaces(s)
    <3> HIDE DEF Goal
    <3>1. UNCHANGED campaign => Goal
      BY DEF Goal
    <3> QED BY <2>3, <3>1, <1>3, <1>4, <1>5, <1>6, <1>7, <1>8 DEF Replaces
  <2> QED BY <1>9, <2>1, <2>2, <2>3
<1> QED BY <1>9, StepCases

(* With one server, what seal_campaign_candidate sealed and the tasks it   *)
(* sealed them with never change, and a finished campaign does not at all. *)
THEOREM CandidateStaysFrozen == OneServer => (Spec => CandidateFrozen)
<1> SUFFICES ASSUME OneServer PROVE Spec => CandidateFrozen
  OBVIOUS
<1>1. Init => CopyCurrent
  BY DEF Init, CopyCurrent
<1>2. IInv /\ CopyCurrent /\ [Next]_vars => CopyCurrent'
  BY CopyStaysCurrent
<1>3. IInv /\ CopyCurrent /\ [Next]_vars =>
        [/\ campaign.candidate # None => /\ campaign'.candidate = campaign.candidate
                                         /\ campaign'.task = campaign.task
         /\ ~Open(campaign) => campaign' = campaign]_vars
  BY CampaignSteps
<1> QED BY <1>1, <1>2, <1>3, GoodAlways, PTL DEF Spec, CandidateFrozen

(* With one server, finish_campaign completes a campaign only while every  *)
(* worktree it names holds the tree that was sealed.                       *)
THEOREM AlwaysCompletesAsSealed == OneServer => (Spec => CompletesAsSealed)
<1> SUFFICES ASSUME OneServer PROVE Spec => CompletesAsSealed
  OBVIOUS
<1>1. Init => CopyCurrent
  BY DEF Init, CopyCurrent
<1>2. IInv /\ CopyCurrent /\ [Next]_vars => CopyCurrent'
  BY CopyStaysCurrent
<1>3. ASSUME IInv, CopyCurrent, [Next]_vars, campaign'.phase = "complete", Open(campaign)
      PROVE  \A w \in {Primary} \cup {Plan[t].workspace : t \in Implementation} :
               w \in DOMAIN campaign.candidate /\ checkout[w] = campaign.candidate[w]
  <2>1. campaign.candidate # None /\ campaign.candidate = Snapshots(campaign)
    BY <1>3, CampaignSteps DEF Open, Ends
  <2>2. GoodCopy(campaign)
    BY <1>3, CampaignGood
  <2>3. Implementation \subseteq Linked(campaign)
    BY <2>1, <2>2 DEF GoodCopy, Chains, BasesOf, FinishedOf, Implementation
  <2>4. Linked(campaign) \subseteq Implementation
    BY <2>2 DEF GoodCopy, Chains
  <2> QED BY <2>1, <2>3, <2>4 DEF Snapshots
<1>4. IInv /\ CopyCurrent /\ [Next]_vars =>
        [campaign'.phase = "complete" /\ Open(campaign) =>
           \A w \in {Primary} \cup {Plan[t].workspace : t \in Implementation} :
             /\ w \in DOMAIN campaign.candidate
             /\ checkout[w] = campaign.candidate[w]]_vars
  BY <1>3
<1> QED BY <1>1, <1>2, <1>4, GoodAlways, PTL DEF Spec, CompletesAsSealed

----------------------------------------------------------------------------
(* The versions of the runs follow the version of the campaign.            *)

Versioned ==
  /\ \A i \in Runs : runs[i].task # None =>
       /\ runs[i].version \in Versions /\ runs[i].version <= campaign.version
       /\ campaign.frozen[Plan[runs[i].task].wave] = runs[i].version
  /\ OneVersionPerWave

LEMMA VersionedKept ==
  ASSUME Versioned, campaign'.version = campaign.version, campaign'.frozen = campaign.frozen,
         \A i \in Runs' : runs'[i].task # None =>
           i \in Runs /\ runs'[i].task = runs[i].task /\ runs'[i].version = runs[i].version
  PROVE  Versioned'
<1>1. \A i \in Runs' : runs'[i].task # None =>
        /\ runs'[i].version \in Versions /\ runs'[i].version <= campaign'.version
        /\ campaign'.frozen[Plan[runs'[i].task].wave] = runs'[i].version
  BY DEF Versioned
<1>2. OneVersionPerWave'
  BY DEF Versioned, OneVersionPerWave
<1> QED BY <1>1, <1>2 DEF Versioned

(* A run created for a task has the version its wave is frozen at, which no older run exceeds. *)
LEMMA CreateRunVersioned ==
  ASSUME OneServer, IInv, CopyCurrent, Versioned, NEW s \in Servers, NEW created \in BOOLEAN,
         CreateRun(s, created)
  PROVE  Versioned'
<1> DEFINE new == use[s].starting
           t == new.task
           v == new.version
<1>1. /\ campaign \in CampaignRecord /\ runs \in Seq(RunType) /\ new \in Starting
      /\ t \in Implementation /\ v \in Versions
  <2>1. new \in Starting
    BY DEF IInv, Shapes, CreateRun
  <2> QED BY <2>1, CampaignGood DEF IInv, Shapes, GoodCopy, Starting
<1>2. /\ WaveOpen(campaign, Plan[t].wave, v)
      /\ campaign.version = v \/ MayUpgrade(campaign, t, v)
      /\ \/ campaign' = campaign /\ campaign.version = v /\ campaign.frozen[Plan[t].wave] = v
         \/ campaign' = Adopted(campaign, t, v)
      /\ runs' = IF created THEN Append(runs, new) ELSE runs
  BY DEF CreateRun, CopyCurrent, Saves
<1>3. Plan[t].wave \in Waves /\ campaign.frozen \in [Waves -> {None} \cup Versions] /\ campaign.version \in Versions
  BY <1>1 DEF Waves, CampaignRecord
<1>4. /\ campaign'.version = v /\ campaign'.frozen = [campaign.frozen EXCEPT ![Plan[t].wave] = v]
  <2>1. CASE campaign' = campaign /\ campaign.version = v /\ campaign.frozen[Plan[t].wave] = v
    BY <1>3, <2>1
  <2>2. CASE campaign' = Adopted(campaign, t, v)
    BY <1>1, <1>3, <2>2 DEF Adopted, CampaignRecord
  <2> QED BY <1>2, <2>1, <2>2
<1>5. Versions \subseteq Nat /\ None \notin Versions
  BY CampaignAssumption, NoneAssumption
<1>6. campaign.version <= v
  <2>1. campaign.version = v \/ v > campaign.version
    BY <1>2 DEF MayUpgrade
  <2>2. campaign.version \in Nat /\ v \in Nat
    BY <1>1, <1>3, <1>5
  <2> HIDE DEF new, t, v
  <2> QED BY <2>1, <2>2
<1>7. campaign.frozen[Plan[t].wave] \in {None, v}
  BY <1>2 DEF WaveOpen
<1>8. ASSUME NEW i \in Runs, runs[i].task # None
      PROVE  /\ runs[i].version \in Versions /\ runs[i].version <= v
             /\ campaign'.frozen[Plan[runs[i].task].wave] = runs[i].version
             /\ Plan[runs[i].task].wave = Plan[t].wave => runs[i].version = v
  <2>1. /\ runs[i].version \in Versions /\ runs[i].version <= campaign.version
        /\ campaign.frozen[Plan[runs[i].task].wave] = runs[i].version
    BY <1>8 DEF Versioned
  <2>2. runs[i].version <= v
    <3>1. campaign.version \in Nat /\ v \in Nat /\ runs[i].version \in Nat
      BY <1>1, <1>3, <1>5, <2>1
    <3> HIDE DEF new, t, v
    <3> QED BY <1>6, <2>1, <3>1
  <2>3. Plan[runs[i].task].wave = Plan[t].wave => runs[i].version = v
    BY <1>5, <1>7, <2>1
  <2>4. Plan[runs[i].task].wave \in Waves
    <3>1. runs[i] \in RunType
      BY <1>1, <1>8 DEF Runs
    <3>2. runs[i].task \in Implementation
      BY <1>8, <3>1 DEF RunType
    <3> QED BY <3>2 DEF Waves
  <2> QED BY <1>3, <1>4, <2>1, <2>2, <2>3, <2>4
<1>9. ASSUME NEW i \in Runs'
      PROVE  \/ i \in Runs /\ runs'[i] = runs[i]
             \/ runs'[i] = new /\ created /\ \A j \in Runs' : j < i => j \in Runs /\ runs'[j] = runs[j]
  <2> HIDE DEF new
  <2>1. CASE created
    <3>1. /\ runs' = Append(runs, new) /\ Runs = 1 .. Len(runs) /\ Runs' = 1 .. Len(runs) + 1 /\ Len(runs) \in Nat
          /\ \A j \in 1 .. Len(runs) : runs'[j] = runs[j]
          /\ runs'[Len(runs) + 1] = new
      BY <1>1, <1>2, <2>1 DEF Runs, Starting
    <3> QED BY <1>9, <2>1, <3>1
  <2>2. CASE ~ created
    BY <1>2, <1>9, <2>2 DEF Runs
  <2> QED BY <2>1, <2>2
<1> HIDE DEF new, t, v
<1>10. ASSUME NEW i \in Runs', runs'[i].task # None
       PROVE  /\ runs'[i].version \in Versions /\ runs'[i].version <= campaign'.version
              /\ campaign'.frozen[Plan[runs'[i].task].wave] = runs'[i].version
  <2>1. CASE i \in Runs /\ runs'[i] = runs[i]
    BY <1>4, <1>8, <1>10, <2>1
  <2>2. CASE runs'[i] = new
    <3>1. v \in Nat /\ runs'[i].version = v /\ runs'[i].task = t
      BY <1>1, <1>5, <2>2 DEF t, v
    <3>2. campaign'.version = v /\ campaign'.frozen[Plan[t].wave] = v
      BY <1>3, <1>4
    <3>3. v <= v
      BY <3>1
    <3> QED BY <1>1, <3>1, <3>2, <3>3
  <2> QED BY <1>9, <2>1, <2>2
<1>11. ASSUME NEW i \in Runs', NEW j \in Runs', i < j, runs'[i].task # None, runs'[j].task # None
       PROVE  /\ runs'[i].version <= runs'[j].version
              /\ Plan[runs'[i].task].wave = Plan[runs'[j].task].wave => runs'[i].version = runs'[j].version
  <2>1. CASE j \in Runs /\ runs'[j] = runs[j]
    <3>1. i \in Runs /\ runs'[i] = runs[i]
      <4>1. Runs = 1 .. Len(runs) /\ Len(runs) \in Nat /\ Runs' \subseteq 1 .. Len(runs) + 1
        BY <1>1, <1>2 DEF Runs, Starting, new
      <4>2. i \in Runs
        BY <1>11, <2>1, <4>1
      <4>3. runs'[i] = runs[i]
        <5>1. CASE created
          BY <1>1, <1>2, <4>1, <4>2, <5>1 DEF Runs, Starting, new
        <5>2. CASE ~ created
          BY <1>2, <5>2
        <5> QED BY <5>1, <5>2
      <4> QED BY <4>2, <4>3
    <3> QED BY <1>11, <2>1, <3>1 DEF Versioned, OneVersionPerWave
  <2>2. CASE runs'[j] = new /\ \A k \in Runs' : k < j => k \in Runs /\ runs'[k] = runs[k]
    <3>1. i \in Runs /\ runs'[i] = runs[i]
      BY <1>11, <2>2
    <3> QED BY <1>8, <1>11, <2>2, <3>1 DEF t, v
  <2> QED BY <1>9, <2>1, <2>2
<1> QED BY <1>10, <1>11 DEF Versioned, OneVersionPerWave

LEMMA StepsVersioned ==
  ASSUME OneServer, IInv, CopyCurrent, Versioned, [Next]_vars
  PROVE  Versioned'
<1>1. campaign \in CampaignRecord /\ runs \in Seq(RunType) /\ \A s \in Servers : use[s] # None => use[s].copy = campaign
  BY CampaignGood DEF IInv, Shapes, GoodCopy, CopyCurrent
<1>2. CASE UNCHANGED <<campaign, runs>>
  BY <1>2, VersionedKept DEF Runs
<1>3. ASSUME runs' = runs, campaign'.version = campaign.version, campaign'.frozen = campaign.frozen
      PROVE  Versioned'
  BY <1>3, VersionedKept DEF Runs
<1>4. ASSUME NEW s \in Servers, Handler(s)
      PROVE  Versioned'
  <2>1. CASE Load(s) \/ Refuse(s) \/ CompareCrash(s) \/ \E t \in Tasks : PrepareRun(s, t)
    BY <1>2, <2>1 DEF Load, Refuse, CompareCrash, PrepareRun
  <2>2. ASSUME NEW t \in Tasks, NEW status \in {"in_progress", "complete"} \cup Stops,
               NEW r \in {None} \cup Runs, RecordTask(s, t, status, r)
        PROVE  Versioned'
    <3>1. runs' = runs /\ campaign' = [campaign EXCEPT !.task[t] = [status |-> status, run |-> r]]
      BY <1>1, <2>2 DEF RecordTask, Loaded, Saves
    <3> QED BY <1>1, <1>3, <3>1 DEF CampaignRecord
  <2>3. ASSUME NEW i \in Interventions, NEW resolved \in BOOLEAN, RecordIntervention(s, i, resolved)
        PROVE  Versioned'
    <3>1. runs' = runs /\ campaign' = [campaign EXCEPT !.blocker[i] = IF resolved THEN "resolved" ELSE "open"]
      BY <1>1, <2>3 DEF RecordIntervention, Loaded, Saves
    <3> QED BY <1>1, <1>3, <3>1 DEF CampaignRecord
  <2>4. ASSUME NEW created \in BOOLEAN, CreateRun(s, created) PROVE Versioned'
    BY <2>4, CreateRunVersioned
  <2>5. CASE Seal(s)
    <3>1. runs' = runs /\ campaign' = [campaign EXCEPT !.candidate = Snapshots(campaign), !.phase = "candidate_ready"]
      BY <1>1, <2>5 DEF Seal, Loaded, Saves
    <3> QED BY <1>1, <1>3, <3>1 DEF CampaignRecord
  <2>6. CASE Compare(s)
    <3>1. runs' = runs /\ campaign' = [campaign EXCEPT !.phase = "comparing"]
      BY <1>1, <2>6 DEF Compare, Comparable, Loaded, Saves
    <3> QED BY <1>1, <1>3, <3>1 DEF CampaignRecord
  <2>7. ASSUME NEW status \in Ends, Finish(s, status) PROVE Versioned'
    <3>1. runs' = runs /\ campaign' = [campaign EXCEPT !.phase = status]
      BY <1>1, <2>7 DEF Finish, Loaded, Saves
    <3> QED BY <1>1, <1>3, <3>1 DEF CampaignRecord
  <2> QED BY <1>4, <2>1, <2>2, <2>3, <2>4, <2>5, <2>6, <2>7 DEF Handler
<1>5. CASE \E w \in Workspaces : Commit(w) \/ \E p \in Paths : Edit(w, p)
  BY <1>2, <1>5 DEF Commit, Edit
<1>6. ASSUME NEW w \in Workspaces, NEW base \in Tree, CreatePlainRun(w, base)
      PROVE  Versioned'
  <2> DEFINE new == RunRecord(None, w, base, None)
  <2>1. campaign' = campaign /\ runs' = Append(runs, new) /\ new.task = None
    BY <1>6 DEF CreatePlainRun, RunRecord
  <2> HIDE DEF new
  <2>2. /\ Runs = 1 .. Len(runs) /\ Runs' = 1 .. Len(runs) + 1 /\ Len(runs) \in Nat
        /\ \A j \in 1 .. Len(runs) : runs'[j] = runs[j]
        /\ runs'[Len(runs) + 1] = new
    BY <1>1, <2>1 DEF Runs
  <2>3. \A i \in Runs' : runs'[i].task # None => i \in Runs /\ runs'[i] = runs[i]
    BY <2>1, <2>2
  <2> QED BY <2>1, <2>3, VersionedKept
<1>7. ASSUME NEW r \in Runs, RunCompletes(r)
      PROVE  Versioned'
  <2>1. campaign' = campaign /\ runs' = [runs EXCEPT ![r].verified = checkout[runs[r].workspace]]
    BY <1>7 DEF RunCompletes
  <2>2. Runs' = Runs /\ \A i \in Runs : runs'[i].task = runs[i].task /\ runs'[i].version = runs[i].version
    BY <1>1, <2>1 DEF Runs, RunType
  <2> QED BY <2>1, <2>2, VersionedKept
<1>8. ASSUME NEW s \in Servers, NEW v \in Versions, Restart(s, v)
      PROVE  Versioned'
  BY <1>2, <1>8 DEF Restart
<1>9. CASE UNCHANGED vars
  BY <1>2, <1>9 DEF vars
<1> QED BY <1>4, <1>5, <1>6, <1>7, <1>8, <1>9 DEF Next

(* With one server, the runs created for the tasks of a wave have one version, and later runs no
   older one, whatever is retried, restarted or updated between _prepare_campaign_run and the run. *)
THEOREM WavesHaveOneVersion == OneServer => (Spec => []OneVersionPerWave)
<1> SUFFICES ASSUME OneServer PROVE Spec => []OneVersionPerWave
  OBVIOUS
<1>1. Init => CopyCurrent /\ Versioned
  BY DEF Init, CopyCurrent, Versioned, OneVersionPerWave, Runs
<1>2. IInv /\ CopyCurrent /\ [Next]_vars => CopyCurrent'
  BY CopyStaysCurrent
<1>3. IInv /\ CopyCurrent /\ Versioned /\ [Next]_vars => Versioned'
  BY StepsVersioned
<1>4. Versioned => OneVersionPerWave
  BY DEF Versioned
<1> QED BY <1>1, <1>2, <1>3, <1>4, GoodAlways, PTL DEF Spec
----------------------------------------------------------------------------
(* Updates of the plugin.                                                  *)

(* An integration that a later wave is based on comes after all tasks of   *)
(* its wave and of the earlier ones, in whatever repository.               *)
IntegrationsWhole ==
  \A t \in Implementation : IsPredecessor(t) /\ Plan[t].role = "integration" =>
    \A u \in Implementation \ {t} : Plan[u].wave <= Plan[t].wave => u \in Plan[t].deps

(* A run is started for a task that is worked on.                          *)
Worked ==
  \A s \in Servers : use[s] # None =>
    (use[s].starting # None => campaign.task[use[s].starting.task].status = "in_progress")

(* A wave that is frozen has been reached by a task of it.                 *)
Reached ==
  \A w \in Waves : campaign.frozen[w] # None =>
    \E t \in Implementation : Plan[t].wave = w /\ \A d \in Plan[t].deps : Complete(campaign, d)

(* Up to a complete task, every wave has a complete one.                   *)
Descended ==
  \A t \in Implementation : Complete(campaign, t) =>
    \A w \in 1 .. Plan[t].wave : \E u \in Implementation : Plan[u].wave = w /\ Complete(campaign, u)

Updated == Worked /\ Reached /\ Descended /\ UpgradedBetweenWaves

LEMMA WaveFacts ==
  ASSUME NEW t \in Implementation
  PROVE  /\ t \in Tasks /\ Plan[t].wave \in Nat \ {0} /\ Plan[t].wave \in Waves
         /\ Plan[t].deps \subseteq Tasks
         /\ Plan[t].wave > 1 => /\ Plan[t].from \in Plan[t].deps /\ Plan[t].from \in Implementation
                                /\ Plan[Plan[t].from].wave = Plan[t].wave - 1
                                /\ IsPredecessor(Plan[t].from)
<1>1. /\ Plan[t] \in PlanRecord /\ t \in Tasks /\ Plan[t].deps \subseteq 1 .. t - 1
      /\ Plan[t].kind = "implementation" /\ Plan[t].wave \in Waves
      /\ Plan[t].from # None =>
           Plan[t].from \in Plan[t].deps /\ Plan[t].from \in Tasks /\ IsPredecessor(Plan[t].from)
  BY PlanFacts DEF Implementation
<1>2. Tasks = 1 .. Len(Plan) /\ Len(Plan) \in Nat
  BY CampaignAssumption DEF Tasks
<1>3. Plan[t].deps \subseteq Tasks
  BY <1>1, <1>2
<1>4. Plan[t].wave > 1 =>
        Plan[t].from # None /\ Plan[Plan[t].from].wave = Plan[t].wave - 1
  BY <1>1, CampaignAssumption
<1>5. Plan[t].from # None => Plan[Plan[t].from].kind = "implementation"
  BY <1>1, CampaignAssumption
<1>6. Plan[t].wave \in Nat \ {0}
  BY <1>1 DEF PlanRecord
<1> QED BY <1>1, <1>3, <1>4, <1>5, <1>6 DEF Implementation

(* Complete tasks stay, and as long as nothing is adopted that is enough.  *)
LEMMA UpdatedKept ==
  ASSUME Updated, campaign'.version = campaign.version, campaign'.frozen = campaign.frozen,
         \A t \in Tasks : Complete(campaign, t) => Complete(campaign', t), Descended'
  PROVE  Reached' /\ UpgradedBetweenWaves'
<1>1. Reached'
  <2> SUFFICES ASSUME NEW w \in Waves, campaign'.frozen[w] # None
               PROVE  \E t \in Implementation : Plan[t].wave = w /\ \A d \in Plan[t].deps : Complete(campaign', d)
    BY DEF Reached
  <2>1. PICK t \in Implementation : Plan[t].wave = w /\ \A d \in Plan[t].deps : Complete(campaign, d)
    BY DEF Updated, Reached
  <2>2. \A d \in Plan[t].deps : Complete(campaign', d)
    BY <2>1, WaveFacts
  <2> QED BY <2>1, <2>2
<1>2. UpgradedBetweenWaves'
  BY WaveFacts DEF Updated, UpgradedBetweenWaves
<1> QED BY <1>1, <1>2

LEMMA SameDescended ==
  ASSUME Updated, \A t \in Tasks : Complete(campaign, t) <=> Complete(campaign', t)
  PROVE  Descended'
<1> SUFFICES ASSUME NEW t \in Implementation, Complete(campaign', t), NEW w \in 1 .. Plan[t].wave
             PROVE  \E u \in Implementation : Plan[u].wave = w /\ Complete(campaign', u)
  BY DEF Descended
<1>1. PICK u \in Implementation : Plan[u].wave = w /\ Complete(campaign, u)
  BY WaveFacts DEF Updated, Descended
<1> QED BY <1>1, WaveFacts

(* A task that becomes complete has its base complete before it.           *)
LEMMA RecordedDescends ==
  ASSUME IInv, Updated, NEW t \in Tasks, NEW status, NEW r, TaskMayBecome(campaign, t, status),
         campaign' = [campaign EXCEPT !.task[t] = [status |-> status, run |-> r]]
  PROVE  Descended' /\ \A u \in Tasks : Complete(campaign, u) => Complete(campaign', u)
<1>1. /\ campaign'.task = [campaign.task EXCEPT ![t] = [status |-> status, run |-> r]]
      /\ campaign.task \in [Tasks -> [status : Statuses, run : {None} \cup Nat]]
  BY CampaignGood DEF CampaignRecord
<1>2. ~Complete(campaign, t)
  BY DEF TaskMayBecome, Allowed, Complete
<1>3. \A u \in Tasks \ {t} : Complete(campaign', u) <=> Complete(campaign, u)
  BY <1>1 DEF Complete
<1>4. Complete(campaign', t) => status = "complete"
  BY <1>1 DEF Complete
<1>5. \A u \in Tasks : Complete(campaign, u) => Complete(campaign', u)
  BY <1>2, <1>3
<1>6. Descended'
  <2> SUFFICES ASSUME NEW u \in Implementation, Complete(campaign', u), NEW w \in 1 .. Plan[u].wave
               PROVE  \E x \in Implementation : Plan[x].wave = w /\ Complete(campaign', x)
    BY DEF Descended
  <2>1. Plan[u].wave \in Nat \ {0} /\ w \in Nat /\ w >= 1 /\ w <= Plan[u].wave
    BY WaveFacts
  <2>2. CASE Complete(campaign, u)
    <3>1. PICK x \in Implementation : Plan[x].wave = w /\ Complete(campaign, x)
      BY <2>2 DEF Updated, Descended
    <3> QED BY <3>1, <1>5, WaveFacts
  <2>3. CASE w = Plan[u].wave
    BY <2>3
  <2>4. CASE ~ Complete(campaign, u) /\ w # Plan[u].wave
    <3> DEFINE before == Plan[u].from
    <3>1. u = t /\ status = "complete"
      BY <1>3, <1>4, <2>4, WaveFacts
    <3>2. Plan[u].wave > 1
      BY <2>1, <2>4
    <3>3. before \in Plan[u].deps /\ before \in Implementation /\ Plan[before].wave = Plan[u].wave - 1
      BY <3>2, WaveFacts
    <3>4. Complete(campaign, before)
      BY <3>1, <3>3 DEF TaskMayBecome
    <3>5. w \in 1 .. Plan[before].wave
      BY <2>1, <2>4, <3>3
    <3>6. PICK x \in Implementation : Plan[x].wave = w /\ Complete(campaign, x)
      BY <3>3, <3>4, <3>5 DEF Updated, Descended
    <3> QED BY <1>5, <3>6, WaveFacts
  <2> QED BY <2>2, <2>3, <2>4
<1> QED BY <1>5, <1>6

(* When the first task of a wave adopts a newer version, the earlier waves *)
(* are complete, for the integration it is based on is, and no later wave  *)
(* has been reached, for none of its own wave is complete.                 *)
LEMMA AdoptionIsBetween ==
  ASSUME IntegrationsWhole, IInv, Updated, NEW t \in Implementation, NEW v \in Versions,
         campaign.task[t].status = "in_progress", MayUpgrade(campaign, t, v),
         NEW u \in Implementation, Plan[u].wave # Plan[t].wave
  PROVE  campaign.frozen[Plan[u].wave] = None \/ Complete(campaign, u)
<1>1. /\ Plan[t].wave \in Nat \ {0} /\ Plan[u].wave \in Nat \ {0} /\ Plan[u].wave \in Waves
      /\ DependenciesOf(campaign)
  BY WaveFacts, CampaignGood DEF GoodCopy
<1>2. CASE Plan[u].wave < Plan[t].wave
  <2> DEFINE before == Plan[t].from
  <2>1. /\ Plan[t].wave > 1 /\ before \in Implementation /\ Plan[before].wave = Plan[t].wave - 1
        /\ IsPredecessor(before)
    BY <1>1, <1>2, WaveFacts
  <2>2. Complete(campaign, before) /\ Plan[before].role = "integration"
    BY <2>1 DEF MayUpgrade
  <2>3. u = before \/ u \in Plan[before].deps
    BY <1>1, <1>2, <2>1, <2>2 DEF IntegrationsWhole
  <2>4. \A d \in Plan[before].deps : Complete(campaign, d)
    BY <1>1, <2>1, <2>2, WaveFacts DEF DependenciesOf, Complete
  <2> QED BY <2>2, <2>3, <2>4
<1>3. CASE Plan[t].wave < Plan[u].wave
  <2> SUFFICES ASSUME campaign.frozen[Plan[u].wave] # None PROVE FALSE
    OBVIOUS
  <2>1. PICK x \in Implementation :
          Plan[x].wave = Plan[u].wave /\ \A d \in Plan[x].deps : Complete(campaign, d)
    BY <1>1 DEF Updated, Reached
  <2> DEFINE before == Plan[x].from
  <2>2. Plan[x].wave > 1
    BY <1>1, <1>3, <2>1
  <2>3. before \in Plan[x].deps /\ before \in Implementation /\ Plan[before].wave = Plan[x].wave - 1
    BY <2>2, WaveFacts
  <2>4. Complete(campaign, before) /\ Plan[t].wave \in 1 .. Plan[before].wave
    BY <1>1, <1>3, <2>1, <2>3
  <2>5. PICK y \in Implementation : Plan[y].wave = Plan[t].wave /\ Complete(campaign, y)
    BY <2>3, <2>4 DEF Updated, Descended
  <2>6. y # t
    BY <2>5 DEF Complete
  <2>7. campaign.task[y].status = "pending"
    BY <2>5, <2>6 DEF MayUpgrade
  <2> QED BY <2>5, <2>7 DEF Complete
<1> QED BY <1>1, <1>2, <1>3

LEMMA CreateRunUpdates ==
  ASSUME IntegrationsWhole, IInv, CopyCurrent, Updated, NEW s \in Servers, NEW created \in BOOLEAN,
         CreateRun(s, created)
  PROVE  Reached' /\ Descended' /\ UpgradedBetweenWaves'
<1> DEFINE t == use[s].starting.task
           v == use[s].starting.version
<1>1. t \in Implementation /\ v \in Versions /\ campaign.task[t].status = "in_progress"
  <2>1. use[s].starting \in Starting
    BY DEF IInv, Shapes, CreateRun
  <2> QED BY <2>1 DEF Starting, Updated, Worked, CreateRun
<1>2. /\ WaveOpen(campaign, Plan[t].wave, v)
      /\ campaign.version = v \/ MayUpgrade(campaign, t, v)
      /\ campaign' = campaign \/ campaign' = Adopted(campaign, t, v)
  BY DEF CreateRun, CopyCurrent, Saves
<1> HIDE DEF t, v
<1>3. campaign \in CampaignRecord /\ Plan[t].wave \in Waves /\ DependenciesOf(campaign)
  BY <1>1, CampaignGood, WaveFacts DEF GoodCopy
<1>4. CASE campaign' = campaign
  <2>1. UNCHANGED campaign
    BY <1>4
  <2> QED BY <2>1 DEF Updated, Reached, Descended, UpgradedBetweenWaves, Complete
<1>5. CASE campaign' = Adopted(campaign, t, v)
  <2>1. /\ campaign'.version = v /\ campaign'.task = campaign.task
        /\ campaign'.frozen = [campaign.frozen EXCEPT ![Plan[t].wave] = v]
        /\ campaign.frozen \in [Waves -> {None} \cup Versions]
    BY <1>3, <1>5 DEF Adopted, CampaignRecord
  <2>2. \A u \in Tasks : Complete(campaign, u) <=> Complete(campaign', u)
    BY <2>1 DEF Complete
  <2>3. Descended'
    BY <2>2, SameDescended
  <2>4. Reached'
    <3> SUFFICES ASSUME NEW w \in Waves, campaign'.frozen[w] # None
                 PROVE  \E x \in Implementation : Plan[x].wave = w /\ \A d \in Plan[x].deps : Complete(campaign', d)
      BY DEF Reached
    <3>1. PICK x \in Implementation : Plan[x].wave = w /\ \A d \in Plan[x].deps : Complete(campaign, d)
      <4>1. CASE w = Plan[t].wave
        <5>1. \A d \in Plan[t].deps : Complete(campaign, d)
          BY <1>1, <1>3, WaveFacts DEF DependenciesOf
        <5> QED BY <1>1, <4>1, <5>1
      <4>2. CASE w # Plan[t].wave
        BY <2>1, <4>2 DEF Updated, Reached
      <4> QED BY <4>1, <4>2
    <3> QED BY <2>2, <3>1, WaveFacts
  <2>5. ASSUME NEW u \in Implementation
        PROVE  campaign'.frozen[Plan[u].wave] \in {None, campaign'.version} \/ Complete(campaign', u)
    <3>1. Plan[u].wave \in Waves /\ u \in Tasks
      BY WaveFacts
    <3>2. CASE Plan[u].wave = Plan[t].wave
      BY <1>3, <2>1, <3>2
    <3>3. CASE Plan[u].wave # Plan[t].wave
      <4>1. campaign'.frozen[Plan[u].wave] = campaign.frozen[Plan[u].wave]
        BY <2>1, <3>1, <3>3
      <4>2. CASE campaign.version = v
        BY <2>1, <2>2, <3>1, <4>1, <4>2 DEF Updated, UpgradedBetweenWaves
      <4>3. CASE MayUpgrade(campaign, t, v)
        BY <1>1, <2>2, <3>1, <3>3, <4>1, <4>3, AdoptionIsBetween
      <4> QED BY <1>2, <4>2, <4>3
    <3> QED BY <3>2, <3>3
  <2> QED BY <2>3, <2>4, <2>5 DEF UpgradedBetweenWaves
<1> QED BY <1>2, <1>4, <1>5

LEMMA WorkedStep ==
  ASSUME OneServer, IInv, CopyCurrent, Worked, [Next]_vars
  PROVE  Worked'
<1>1. use \in [Servers -> {None} \cup [copy : CampaignRecord, starting : {None} \cup Starting]]
  BY DEF IInv, Shapes
<1>2. CASE UNCHANGED <<campaign, use>>
  BY <1>2 DEF Worked
<1>3. ASSUME NEW s \in Servers, Load(s) PROVE Worked'
  BY <1>1, <1>3 DEF Load, Worked, OneServer
<1>4. ASSUME NEW s \in Servers, Replaces(s) PROVE Worked'
  <2>1. use' = [use EXCEPT ![s] = None]
    BY <1>4, ReplacesReturns DEF Returns
  <2>2. \A u \in Servers : use'[u] = None
    BY <1>1, <2>1 DEF OneServer
  <2> QED BY <2>2 DEF Worked
<1>5. ASSUME NEW s \in Servers, NEW t \in Tasks, PrepareRun(s, t) PROVE Worked'
  <2>1. campaign.task[t].status = "in_progress" /\ campaign' = campaign
    BY <1>5 DEF PrepareRun, Loaded, CopyCurrent
  <2>2. \A u \in Servers : u = s
    BY DEF OneServer
  <2>3. use'[s].starting.task = t
    BY <1>1, <1>5 DEF PrepareRun, RunRecord
  <2> QED BY <2>1, <2>2, <2>3 DEF Worked
<1> QED BY <1>2, <1>3, <1>4, <1>5, StepCases

LEMMA UpdatedStep ==
  ASSUME OneServer, IntegrationsWhole, IInv, CopyCurrent, Updated, [Next]_vars
  PROVE  Updated'
<1> DEFINE Goal == Reached' /\ Descended' /\ UpgradedBetweenWaves'
<1>1. campaign \in CampaignRecord /\ \A s \in Servers : use[s] # None => use[s].copy = campaign
  BY CampaignGood DEF CopyCurrent
<1>2. ASSUME campaign'.version = campaign.version, campaign'.frozen = campaign.frozen,
             campaign'.task = campaign.task
      PROVE  Goal
  <2>1. \A t \in Tasks : Complete(campaign, t) <=> Complete(campaign', t)
    BY <1>2 DEF Complete
  <2> QED BY <1>2, <2>1, SameDescended, UpdatedKept
<1>3. ASSUME NEW s \in Servers, Replaces(s) PROVE Goal
  <2>1. CASE UNCHANGED campaign
    BY <1>2, <2>1
  <2>2. ASSUME NEW t \in Tasks, NEW status \in {"in_progress", "complete"} \cup Stops,
               NEW r \in {None} \cup Runs, RecordTask(s, t, status, r)
        PROVE  Goal
    <3>1. /\ TaskMayBecome(campaign, t, status)
          /\ campaign' = [campaign EXCEPT !.task[t] = [status |-> status, run |-> r]]
      BY <1>1, <2>2 DEF RecordTask, Loaded, Saves
    <3>2. campaign'.version = campaign.version /\ campaign'.frozen = campaign.frozen
      BY <1>1, <3>1 DEF CampaignRecord
    <3>3. Descended' /\ \A u \in Tasks : Complete(campaign, u) => Complete(campaign', u)
      BY <3>1, RecordedDescends
    <3> QED BY <3>2, <3>3, UpdatedKept
  <2>3. ASSUME NEW i \in Interventions, NEW resolved \in BOOLEAN, RecordIntervention(s, i, resolved)
        PROVE  Goal
    <3>1. campaign' = [campaign EXCEPT !.blocker[i] = IF resolved THEN "resolved" ELSE "open"]
      BY <1>1, <2>3 DEF RecordIntervention, Loaded, Saves
    <3> QED BY <1>1, <1>2, <3>1 DEF CampaignRecord
  <2>4. ASSUME NEW created \in BOOLEAN, CreateRun(s, created) PROVE Goal
    BY <2>4, CreateRunUpdates
  <2>5. CASE Seal(s)
    <3>1. campaign' = [campaign EXCEPT !.candidate = Snapshots(campaign), !.phase = "candidate_ready"]
      BY <1>1, <2>5 DEF Seal, Loaded, Saves
    <3> QED BY <1>1, <1>2, <3>1 DEF CampaignRecord
  <2>6. CASE Compare(s)
    <3>1. campaign' = [campaign EXCEPT !.phase = "comparing"]
      BY <1>1, <2>6 DEF Compare, Comparable, Loaded, Saves
    <3> QED BY <1>1, <1>2, <3>1 DEF CampaignRecord
  <2>7. ASSUME NEW status \in Ends, Finish(s, status) PROVE Goal
    <3>1. campaign' = [campaign EXCEPT !.phase = status]
      BY <1>1, <2>7 DEF Finish, Loaded, Saves
    <3> QED BY <1>1, <1>2, <3>1 DEF CampaignRecord
  <2> HIDE DEF Goal
  <2> QED BY <1>3, <2>1, <2>2, <2>3, <2>4, <2>5, <2>6, <2>7 DEF Replaces
<1>4. ASSUME NEW s \in Servers, Load(s) \/ \E t \in Tasks : PrepareRun(s, t) PROVE Goal
  <2>1. UNCHANGED campaign
    BY <1>4 DEF Load, PrepareRun
  <2> QED BY <1>2, <2>1
<1>5. Goal
  <2> HIDE DEF Goal
  <2>1. UNCHANGED campaign => Goal
    BY <1>2
  <2> QED BY <1>3, <1>4, <2>1, StepCases
<1> QED BY <1>5, WorkedStep DEF Updated

(* With one server, the plugin is updated only between waves (docs/epic-campaigns.md:52), as long as every
   integration a later wave is based on waits for all tasks up to its wave.  _adopt_campaign_runtime asks
   for that integration only, and the plan of the run late_upgrade, with two repositories, is one in which
   it does not wait for the other. *)
THEOREM UpdatedBetweenIfWhole == OneServer /\ IntegrationsWhole => (Spec => []UpgradedBetweenWaves)
<1> SUFFICES ASSUME OneServer, IntegrationsWhole PROVE Spec => []UpgradedBetweenWaves
  OBVIOUS
<1>1. Init => CopyCurrent /\ Updated
  <2> SUFFICES ASSUME Init PROVE CopyCurrent /\ Updated
    OBVIOUS
  <2>1. CopyCurrent /\ Worked
    BY DEF Init, CopyCurrent, Worked
  <2>2. \A t \in Tasks : ~ Complete(campaign, t)
    BY DEF Init, Complete
  <2>3. \A w \in Waves : campaign.frozen[w] = None
    BY DEF Init
  <2>4. Reached /\ Descended /\ UpgradedBetweenWaves
    BY <2>2, <2>3, WaveFacts DEF Reached, Descended, UpgradedBetweenWaves
  <2> QED BY <2>1, <2>4 DEF Updated
<1>2. IInv /\ CopyCurrent /\ [Next]_vars => CopyCurrent'
  BY CopyStaysCurrent
<1>3. IInv /\ CopyCurrent /\ Updated /\ [Next]_vars => Updated'
  BY UpdatedStep
<1>4. Updated => UpgradedBetweenWaves
  BY DEF Updated
<1> QED BY <1>1, <1>2, <1>3, <1>4, GoodAlways, PTL DEF Spec
=============================================================================
