---------------------------- MODULE ProviderCircuit ----------------------------
(***************************************************************************)
(* The Anthropic circuit of a campaign: one record in the campaign's       *)
(* state.json that every model stage of every run of the campaign reads    *)
(* before its launch and may update when it ends.  The file is read and    *)
(* replaced as a whole; the lock around that is one process's own, so a    *)
(* server's use of the file is a step that loads a copy and a later step   *)
(* that saves the copy, changed.                                           *)
(*                                                                         *)
(* Abstracted: a run is its stages; of the campaign's state only the       *)
(* circuit is kept; timestamps are ages counted in ticks, and no use of    *)
(* the file lasts a tick.                                                  *)
(***************************************************************************)
EXTENDS Integers

CONSTANTS
  Servers,   \* MCP server processes over one git_common_dir
  Stages,    \* model stages of the campaign's runs, each started once
  Cooldown,  \* AGENT_HARNESS_ANTHROPIC_COOLDOWN_SECONDS
  Timeout,   \* AGENT_HARNESS_TIMEOUT_SECONDS: how long a stage may run
  Lease,     \* how long a probe holds other stages back
  Faults,    \* faults considered: "crash", "callback"
  None

ASSUME CircuitAssumption ==
  /\ Lease \in Nat
  /\ Cooldown \in 1..Lease /\ Timeout \in 1..Lease
  /\ Faults \subseteq {"crash", "callback"}

VARIABLES
  circuit,    \* provider_circuits.anthropic on disk
  use,        \* each server's use of the campaign's state.json in progress
  stage,      \* each stage: whether it runs, where, for how long, as a probe?
              \* history: a probe is "superseded" when the circuit is opened anew
  sinceLimit  \* history: ticks since the last limit was recorded, up to Cooldown

vars == <<circuit, use, stage, sinceLimit>>

Closed == [status |-> "closed", cool |-> 0, probe |-> None]
Opened == [status |-> "open", cool |-> Cooldown, probe |-> None]

Free(s) == use[s] = None
Doing(s, task) == ~Free(s) /\ use[s].task = task
Loads(s, task, k) == use' = [use EXCEPT ![s] = [task |-> task, stage |-> k, copy |-> circuit]]
Frees(s) == use' = [use EXCEPT ![s] = None]

Live(k) == stage[k].status = "live"
OnlyProbe(k) == Live(k) /\ stage[k].probe = "yes"
Resting(status) == [status |-> status, server |-> None, age |-> 0, probe |-> "no"]

Init ==
  /\ circuit = Closed
  /\ use = [s \in Servers |-> None]
  /\ stage = [k \in Stages |-> Resting("idle")]
  /\ sinceLimit = Cooldown

----------------------------------------------------------------------------
(* _campaign_limit_action and the launch it decides on.                    *)

MutIgnoresProbe(c) == c.status = "open" /\ c.cool > 0

MutNoLease(c) == c.status = "open" /\ (c.cool > 0 \/ c.probe # None)

Skips(c) ==
  /\ c.status = "open"
  /\ \/ c.cool > 0
     \/ c.probe # None /\ c.probe.age < Lease

StartStage(s, k) ==
  /\ Free(s)
  /\ stage[k].status = "idle"
  /\ ~\E t \in Servers : ~Free(t) /\ use[t].stage = k
  /\ Loads(s, "start", k)
  /\ UNCHANGED <<circuit, stage, sinceLimit>>

Launched(s, k, probe) ==
  [stage EXCEPT ![k] = [status |-> "live", server |-> s, age |-> 0, probe |-> probe]]

(* A stage that is not launched, or has ended, is never started again.     *)
Over(k) == [stage EXCEPT ![k] = Resting("ended")]

LaunchNormal(s) ==
  /\ Doing(s, "start")
  /\ use[s].copy.status = "closed"
  /\ stage' = Launched(s, use[s].stage, "no")
  /\ Frees(s)
  /\ UNCHANGED <<circuit, sinceLimit>>

SkipLaunch(s) ==
  /\ Doing(s, "start")
  /\ Skips(use[s].copy)
  /\ stage' = Over(use[s].stage)
  /\ Frees(s)
  /\ UNCHANGED <<circuit, sinceLimit>>

ClaimProbe(s) ==
  /\ Doing(s, "start")
  /\ use[s].copy.status = "open"
  /\ ~Skips(use[s].copy)
  /\ circuit' = [use[s].copy EXCEPT !.probe = [stage |-> use[s].stage, age |-> 0]]
  /\ use' = [use EXCEPT ![s].task = "claimed"]
  /\ UNCHANGED <<stage, sinceLimit>>

LaunchProbe(s) ==
  /\ Doing(s, "claimed")
  /\ stage' = Launched(s, use[s].stage, "yes")
  /\ Frees(s)
  /\ UNCHANGED <<circuit, sinceLimit>>

LaunchFails(s) ==
  /\ \/ Doing(s, "start") /\ use[s].copy.status = "closed"
     \/ Doing(s, "claimed")
  /\ stage' = Over(use[s].stage)
  /\ Loads(s, "failed", use[s].stage)
  /\ UNCHANGED <<circuit, sinceLimit>>

----------------------------------------------------------------------------
(* _record_campaign_provider_terminal, at the end of _on_stage_terminal or *)
(* of a failed launch.                                                     *)

Outcomes == {"completed", "anthropic_limit", "failed"}

StageEnds(s, k, outcome) ==
  /\ Free(s)
  /\ Live(k) /\ stage[k].server = s
  /\ stage' = Over(k)
  /\ Loads(s, outcome, k)
  /\ UNCHANGED <<circuit, sinceLimit>>

(* The callback fails before it reaches the campaign.                      *)
CallbackLost(s, k) ==
  /\ "callback" \in Faults
  /\ Free(s)
  /\ Live(k) /\ stage[k].server = s
  /\ stage' = Over(k)
  /\ UNCHANGED <<circuit, use, sinceLimit>>

MutAnyCompletionCloses(c, k, outcome) ==
  CASE outcome = "anthropic_limit" -> Opened
    [] outcome = "completed" -> Closed
    [] OTHER -> IF c.probe # None /\ c.probe.stage = k THEN Opened ELSE c

MutCloseKeepsProbe(c, k, outcome) ==
  CASE outcome = "anthropic_limit" -> Opened
    [] outcome # "anthropic_limit" /\ c.probe # None /\ c.probe.stage = k ->
         IF outcome = "completed" THEN [c EXCEPT !.status = "closed", !.cool = 0] ELSE Opened
    [] OTHER -> c

(* Only the stage the circuit names as its probe can close it, or open it  *)
(* again without a limit.                                                  *)
Settled(c, k, outcome) ==
  CASE outcome = "anthropic_limit" -> Opened
    [] outcome # "anthropic_limit" /\ c.probe # None /\ c.probe.stage = k ->
         IF outcome = "completed" THEN Closed ELSE Opened
    [] OTHER -> c

(* An outcome that changes nothing is not saved.                           *)
Settle(s) ==
  /\ \E outcome \in Outcomes : Doing(s, outcome)
  /\ LET settled == Settled(use[s].copy, use[s].stage, use[s].task)
         limited == use[s].task = "anthropic_limit"
         saved   == limited \/ settled # use[s].copy
     IN  /\ circuit' = IF saved THEN settled ELSE circuit
         /\ sinceLimit' = IF limited THEN 0 ELSE sinceLimit
         /\ stage' = IF saved /\ settled = Opened
                     THEN [k \in Stages |-> IF OnlyProbe(k)
                                             THEN [stage[k] EXCEPT !.probe = "superseded"]
                                             ELSE stage[k]]
                     ELSE stage
  /\ Frees(s)

----------------------------------------------------------------------------
(* Every other campaign handler rewrites the state it loaded, the circuit  *)
(* in it as it was.                                                        *)

OtherHandler(s) ==
  /\ Free(s)
  /\ Loads(s, "other", None)
  /\ UNCHANGED <<circuit, stage, sinceLimit>>

OtherSaves(s) ==
  /\ Doing(s, "other")
  /\ circuit' = use[s].copy
  /\ Frees(s)
  /\ UNCHANGED <<stage, sinceLimit>>

----------------------------------------------------------------------------

(* The server dies.  The outcome of its stages reaches nobody; recovery    *)
(* marks them interrupted in their runs and leaves the circuit alone.      *)
Crash(s) ==
  /\ "crash" \in Faults
  /\ ~Free(s) \/ \E k \in Stages : Live(k) /\ stage[k].server = s
  /\ Frees(s)
  /\ stage' = [k \in Stages |-> IF Live(k) /\ stage[k].server = s
                                THEN Resting("ended") ELSE stage[k]]
  /\ UNCHANGED <<circuit, sinceLimit>>

UpTo(bound, n) == IF n < bound THEN n + 1 ELSE n

AgedProbe(probe) ==
  IF probe = None THEN None ELSE [probe EXCEPT !.age = UpTo(Lease, probe.age)]

Aged(c) ==
  [c EXCEPT !.cool = IF c.cool > 0 THEN c.cool - 1 ELSE 0, !.probe = AgedProbe(c.probe)]

(* Time passes; the watchdog lets no stage outlive its time limit.         *)
Tick ==
  /\ \A s \in Servers : Free(s)
  /\ \A k \in Stages : Live(k) => stage[k].age < Timeout
  /\ circuit' = Aged(circuit)
  /\ stage' = [k \in Stages |-> IF Live(k) THEN [stage[k] EXCEPT !.age = @ + 1] ELSE stage[k]]
  /\ sinceLimit' = UpTo(Cooldown, sinceLimit)
  /\ UNCHANGED use

Finishes(s) ==
  \/ LaunchNormal(s) \/ SkipLaunch(s) \/ ClaimProbe(s) \/ LaunchProbe(s)
  \/ LaunchFails(s) \/ Settle(s) \/ OtherSaves(s)

Ends(s, k) == CallbackLost(s, k) \/ \E outcome \in Outcomes : StageEnds(s, k, outcome)

Next ==
  \/ Tick
  \/ \E s \in Servers :
       \/ Finishes(s)
       \/ OtherHandler(s)
       \/ Crash(s)
       \/ \E k \in Stages : StartStage(s, k) \/ Ends(s, k)

Spec == Init /\ [][Next]_vars

(* Handlers return, stages end at the latest by their time limit, and the  *)
(* clock goes on however busy the servers are.                             *)
FairSpec ==
  /\ Spec
  /\ SF_vars(Tick)
  /\ \A s \in Servers : WF_vars(Finishes(s))
  /\ \A s \in Servers : \A k \in Stages : SF_vars(Ends(s, k))

----------------------------------------------------------------------------
(* Properties.                                                             *)

CircuitRecord ==
  [status : {"open", "closed"}, cool : 0..Cooldown,
   probe : {None} \cup [stage : Stages, age : 0..Lease]]

(* None is not one of the probes it stands in for.                         *)
ASSUME NoneAssumption == None \notin [stage : Stages, age : 0..Lease]

UseRecord ==
  [task : {"start", "claimed"} \cup Outcomes, stage : Stages, copy : CircuitRecord]
    \cup [task : {"other"}, stage : {None}, copy : CircuitRecord]

StageRecord ==
  [status : {"idle", "live", "ended"}, server : {None} \cup Servers,
   age : 0..Timeout, probe : {"no", "yes", "superseded"}]

(* The circuit and the copies of it have their shape, and a closed one has *)
(* neither a cooldown nor a probe left.                                    *)
TypeOK ==
  /\ circuit \in CircuitRecord
  /\ circuit.status = "closed" => circuit = Closed
  /\ use \in [Servers -> {None} \cup UseRecord]
  /\ stage \in [Stages -> StageRecord]
  /\ sinceLimit \in 0..Cooldown

(* The statement of epic-campaigns.md that a limit opens the cooldown the  *)
(* campaign's runs share: no stage is launched before the last recorded    *)
(* limit is Cooldown ticks old, whatever other stages end in between.      *)
CooldownRespected ==
  [][\A k \in Stages : ~Live(k) /\ Live(k)' => sinceLimit = Cooldown]_vars

(* One stage probes at a time: a second one runs beside it only after the  *)
(* circuit was opened anew over the first.                                 *)
OneProbe ==
  \A j, k \in Stages : OnlyProbe(j) /\ OnlyProbe(k) => j = k

(* No crash, lost callback or failed launch leaves a circuit that skips    *)
(* every stage for ever.                                                   *)
CircuitRecovers == []<>~Skips(circuit)
=============================================================================
