------------------------ MODULE ProviderCircuitProofs ------------------------
(* What holds of ProviderCircuit for every number of stages and every      *)
(* cooldown, time limit and lease.                                         *)
EXTENDS ProviderCircuit, TLAPS

USE DEF vars

(* The circuit is used by one server, whose lock then covers every use,    *)
(* and a stage cannot run as long as the lease of a probe.                 *)
OneServer == \A s, t \in Servers : s = t
ShortStages == Timeout < Lease

(* The one server's copy is what is on disk, and its stage is where the    *)
(* use of the file found it.                                               *)
CopyCurrent ==
  \A s \in Servers : ~Free(s) =>
    /\ use[s].task # "claimed" => use[s].copy = circuit
    /\ use[s].task # "other" => use[s].stage \in Stages /\ ~Live(use[s].stage)
    /\ use[s].task = "claimed" => /\ circuit.status = "open"
                                  /\ circuit.probe = [stage |-> use[s].stage, age |-> 0]
                                  /\ \A k \in Stages : ~OnlyProbe(k)

(* What the circuit says of the cooldown and of the probe is so.           *)
CircuitTells ==
  /\ circuit.cool + sinceLimit >= Cooldown
  /\ circuit.probe # None => circuit.status = "open" /\ circuit.cool = 0
  /\ \A k \in Stages : OnlyProbe(k) => circuit.probe = [stage |-> k, age |-> stage[k].age]

Inductive == TypeOK /\ CopyCurrent /\ CircuitTells

----------------------------------------------------------------------------
(* Types, for any number of servers.                                       *)

LEMMA ClosedAndOpened == Closed \in CircuitRecord /\ Opened \in CircuitRecord
  BY CircuitAssumption DEF Closed, Opened, CircuitRecord

LEMMA UseType ==
  ASSUME TypeOK, NEW s \in Servers, ~Free(s)
  PROVE  use[s] \in UseRecord /\ use[s].copy \in CircuitRecord
  BY DEF TypeOK, Free, UseRecord

(* Only a copy that is closed in every field says it is closed.            *)
CopiesClosed ==
  \A s \in Servers : ~Free(s) /\ use[s].copy.status = "closed" => use[s].copy = Closed

TypeInv == TypeOK /\ CopiesClosed

LEMMA LoadsType ==
  ASSUME TypeInv, NEW s \in Servers, NEW task, NEW k, Loads(s, task, k),
         \/ task \in {"start", "claimed"} \cup Outcomes /\ k \in Stages
         \/ task = "other" /\ k = None
  PROVE  /\ use' \in [Servers -> {None} \cup UseRecord]
         /\ CopiesClosed'
<1>1. [task |-> task, stage |-> k, copy |-> circuit] \in UseRecord
  BY DEF TypeInv, TypeOK, UseRecord
<1>2. use' \in [Servers -> {None} \cup UseRecord]
  BY <1>1 DEF TypeInv, TypeOK, Loads
<1>3. CopiesClosed'
  BY DEF TypeInv, TypeOK, Loads, CopiesClosed, Free, Closed
<1>4. QED
  BY <1>2, <1>3

LEMMA FreesType ==
  ASSUME TypeInv, NEW s \in Servers, Frees(s)
  PROVE  /\ use' \in [Servers -> {None} \cup UseRecord]
         /\ CopiesClosed'
<1>1. use' \in [Servers -> {None} \cup UseRecord]
  BY DEF TypeInv, TypeOK, Frees
<1>2. CopiesClosed'
  BY DEF TypeInv, TypeOK, Frees, CopiesClosed, Free
<1>3. QED
  BY <1>1, <1>2

LEMMA RestingType ==
  ASSUME NEW status \in {"idle", "live", "ended"} PROVE Resting(status) \in StageRecord
  BY CircuitAssumption DEF Resting, StageRecord

LEMMA OverType ==
  ASSUME TypeOK, NEW k PROVE Over(k) \in [Stages -> StageRecord]
  BY RestingType DEF TypeOK, Over

LEMMA LaunchedType ==
  ASSUME TypeOK, NEW s \in Servers, NEW k, NEW probe \in {"no", "yes"}
  PROVE  Launched(s, k, probe) \in [Stages -> StageRecord]
<1>1. [status |-> "live", server |-> s, age |-> 0, probe |-> probe] \in StageRecord
  BY CircuitAssumption DEF StageRecord
<1>2. QED
  BY <1>1 DEF TypeOK, Launched

LEMMA SettledType ==
  ASSUME NEW c \in CircuitRecord, NEW k, NEW outcome \in Outcomes,
         c.status = "closed" => c = Closed
  PROVE  /\ Settled(c, k, outcome) \in CircuitRecord
         /\ Settled(c, k, outcome).status = "closed" => Settled(c, k, outcome) = Closed
<1>1. CASE outcome = "anthropic_limit"
  BY <1>1, ClosedAndOpened DEF Settled, Opened
<1>2. CASE outcome # "anthropic_limit" /\ c.probe # None /\ c.probe.stage = k
  BY <1>2, ClosedAndOpened DEF Settled, Opened
<1>3. CASE outcome # "anthropic_limit" /\ ~(c.probe # None /\ c.probe.stage = k)
  BY <1>3 DEF Settled
<1>4. QED
  BY <1>1, <1>2, <1>3

LEMMA AgedProbeType ==
  ASSUME NEW probe \in {None} \cup [stage : Stages, age : 0..Lease]
  PROVE  AgedProbe(probe) \in {None} \cup [stage : Stages, age : 0..Lease]
<1>1. CASE probe = None
  BY <1>1 DEF AgedProbe
<1>2. CASE probe # None
  <2>1. UpTo(Lease, probe.age) \in 0..Lease
    BY <1>2, CircuitAssumption DEF UpTo
  <2>2. QED
    BY <1>2, <2>1 DEF AgedProbe
<1>3. QED
  BY <1>1, <1>2

LEMMA AgedType ==
  ASSUME TypeOK
  PROVE  /\ Aged(circuit) \in CircuitRecord
         /\ Aged(circuit).status = "closed" => Aged(circuit) = Closed
<1>1. circuit \in CircuitRecord /\ (circuit.status = "closed" => circuit = Closed)
  BY DEF TypeOK
<1>2. circuit.cool \in 0..Cooldown /\ Cooldown \in Nat
  BY <1>1, CircuitAssumption DEF CircuitRecord
<1>3. (IF circuit.cool > 0 THEN circuit.cool - 1 ELSE 0) \in 0..Cooldown
  BY <1>2
<1>4. AgedProbe(circuit.probe) \in {None} \cup [stage : Stages, age : 0..Lease]
  BY <1>1, AgedProbeType DEF CircuitRecord
<1>5. Aged(circuit) \in CircuitRecord
  BY <1>1, <1>3, <1>4 DEF CircuitRecord, Aged
<1>6. ASSUME Aged(circuit).status = "closed" PROVE Aged(circuit) = Closed
  <2>1. circuit = Closed
    BY <1>1, <1>6 DEF CircuitRecord, Aged
  <2>2. circuit.cool = 0 /\ circuit.probe = None
    BY <2>1 DEF Closed
  <2>3. Aged(circuit).cool = 0 /\ Aged(circuit).probe = None
    BY <1>1, <2>2 DEF Aged, AgedProbe, CircuitRecord
  <2>4. QED
    BY <1>5, <1>6, <2>3 DEF Closed, CircuitRecord
<1>7. QED
  BY <1>5, <1>6

LEMMA InitTypeInv == Init => TypeInv
<1> SUFFICES ASSUME Init PROVE TypeInv
  OBVIOUS
<1>1. circuit = Closed /\ circuit \in CircuitRecord
  BY ClosedAndOpened DEF Init
<1>2. use \in [Servers -> {None} \cup UseRecord] /\ CopiesClosed
  BY DEF Init, CopiesClosed, Free
<1>3. stage \in [Stages -> StageRecord]
  BY RestingType DEF Init
<1>4. sinceLimit \in 0..Cooldown
  BY CircuitAssumption DEF Init
<1>5. QED
  BY <1>1, <1>2, <1>3, <1>4 DEF TypeInv, TypeOK

LEMMA NextTypeInv == TypeInv /\ [Next]_vars => TypeInv'
<1> SUFFICES ASSUME TypeInv, [Next]_vars PROVE TypeInv'
  OBVIOUS
<1> USE DEF TypeInv
<1>1. CASE UNCHANGED vars
  BY <1>1 DEF TypeOK, CopiesClosed, Free
<1>2. CASE Tick
  <2>1. use' = use /\ CopiesClosed'
    BY <1>2 DEF Tick, CopiesClosed, Free
  <2>2. circuit' \in CircuitRecord /\ (circuit'.status = "closed" => circuit' = Closed)
    BY <1>2, AgedType DEF Tick
  <2>3. stage' \in [Stages -> StageRecord]
    <3>1. ASSUME NEW k \in Stages PROVE stage'[k] \in StageRecord
      <4>1. stage[k] \in StageRecord
        BY DEF TypeOK
      <4>2. CASE Live(k)
        <5>1. stage[k].age + 1 \in 0..Timeout
          BY <1>2, <4>1, <4>2, CircuitAssumption DEF Tick, StageRecord
        <5>2. stage'[k] = [stage[k] EXCEPT !.age = stage[k].age + 1]
          BY <1>2, <4>2 DEF Tick
        <5>3. QED
          BY <4>1, <5>1, <5>2 DEF StageRecord
      <4>3. CASE ~Live(k)
        BY <1>2, <4>1, <4>3 DEF Tick
      <4>4. QED
        BY <4>2, <4>3
    <3>2. QED
      BY <1>2, <3>1 DEF Tick
  <2>4. sinceLimit' \in 0..Cooldown
    BY <1>2, CircuitAssumption DEF Tick, UpTo, TypeOK
  <2>5. QED
    BY <2>1, <2>2, <2>3, <2>4 DEF TypeOK
<1>3. ASSUME NEW s \in Servers, NEW k \in Stages, StartStage(s, k) PROVE TypeInv'
  <2>1. use' \in [Servers -> {None} \cup UseRecord] /\ CopiesClosed'
    BY <1>3, LoadsType DEF StartStage
  <2>2. QED
    BY <1>3, <2>1 DEF StartStage, TypeOK
<1>4. ASSUME NEW s \in Servers, LaunchNormal(s) PROVE TypeInv'
  BY <1>4, LaunchedType, FreesType DEF LaunchNormal, TypeOK
<1>5. ASSUME NEW s \in Servers, SkipLaunch(s) PROVE TypeInv'
  BY <1>5, OverType, FreesType DEF SkipLaunch, TypeOK
<1>6. ASSUME NEW s \in Servers, ClaimProbe(s) PROVE TypeInv'
  <2>1. /\ use[s] \in UseRecord /\ use[s].task = "start"
        /\ use[s].copy \in CircuitRecord /\ use[s].copy.status = "open"
    BY <1>6, UseType DEF ClaimProbe, Doing
  <2>2. use[s].stage \in Stages
    BY <2>1 DEF UseRecord
  <2>3. [stage |-> use[s].stage, age |-> 0] \in [stage : Stages, age : 0..Lease]
    BY <2>2, CircuitAssumption
  <2>4. circuit' \in CircuitRecord /\ circuit'.status = "open"
    BY <1>6, <2>1, <2>3 DEF ClaimProbe, CircuitRecord
  <2>5. [use[s] EXCEPT !.task = "claimed"] \in UseRecord
    BY <2>1, <2>2 DEF UseRecord
  <2>6. use' = [use EXCEPT ![s] = [use[s] EXCEPT !.task = "claimed"]]
    BY <1>6 DEF ClaimProbe
  <2>7. use' \in [Servers -> {None} \cup UseRecord]
    BY <2>5, <2>6 DEF TypeOK
  <2>8. CopiesClosed'
    <3>1. ASSUME NEW t \in Servers, ~Free(t)', use'[t].copy.status = "closed"
          PROVE  use'[t].copy = Closed
      <4>1. CASE t = s
        BY <2>1, <2>6, <3>1, <4>1 DEF TypeOK, UseRecord
      <4>2. CASE t # s
        BY <2>6, <3>1, <4>2 DEF TypeOK, CopiesClosed, Free
      <4>3. QED
        BY <4>1, <4>2
    <3>2. QED
      BY <3>1 DEF CopiesClosed, Free
  <2>9. QED
    BY <1>6, <2>4, <2>7, <2>8 DEF ClaimProbe, TypeOK, Closed
<1>7. ASSUME NEW s \in Servers, LaunchProbe(s) PROVE TypeInv'
  BY <1>7, LaunchedType, FreesType DEF LaunchProbe, TypeOK
<1>8. ASSUME NEW s \in Servers, LaunchFails(s) PROVE TypeInv'
  <2>1. use[s] \in UseRecord /\ use[s].task \in {"start", "claimed"}
    BY <1>8, UseType DEF LaunchFails, Doing
  <2>2. use[s].stage \in Stages
    BY <2>1 DEF UseRecord
  <2>3. use' \in [Servers -> {None} \cup UseRecord] /\ CopiesClosed'
    BY <1>8, <2>2, LoadsType DEF LaunchFails, Outcomes
  <2>4. stage' \in [Stages -> StageRecord]
    BY <1>8, OverType DEF LaunchFails
  <2>5. QED
    BY <1>8, <2>3, <2>4 DEF LaunchFails, TypeOK
<1>9. ASSUME NEW s \in Servers, Settle(s) PROVE TypeInv'
  <2>1. /\ use[s] \in UseRecord /\ use[s].copy \in CircuitRecord /\ use[s].task \in Outcomes
        /\ use[s].copy.status = "closed" => use[s].copy = Closed
    BY <1>9, UseType DEF Settle, Doing, CopiesClosed
  <2> DEFINE settled == Settled(use[s].copy, use[s].stage, use[s].task)
  <2>2. settled \in CircuitRecord /\ (settled.status = "closed" => settled = Closed)
    BY <2>1, SettledType
  <2>3. circuit' = settled \/ circuit' = circuit
    BY <1>9 DEF Settle
  <2>4. circuit' \in CircuitRecord /\ (circuit'.status = "closed" => circuit' = Closed)
    <3> HIDE DEF settled
    <3>1. QED
      BY <2>2, <2>3 DEF TypeOK
  <2>5. stage' \in [Stages -> StageRecord]
    <3>1. ASSUME NEW k \in Stages
          PROVE  [stage[k] EXCEPT !.probe = "superseded"] \in StageRecord
      BY DEF TypeOK, StageRecord
    <3>2. \/ stage' = stage
          \/ stage' = [k \in Stages |-> IF OnlyProbe(k)
                                         THEN [stage[k] EXCEPT !.probe = "superseded"]
                                         ELSE stage[k]]
      BY <1>9 DEF Settle
    <3>3. QED
      BY <3>1, <3>2 DEF TypeOK
  <2>6. sinceLimit' \in 0..Cooldown
    BY <1>9, CircuitAssumption DEF Settle, TypeOK
  <2>7. use' \in [Servers -> {None} \cup UseRecord] /\ CopiesClosed'
    BY <1>9, FreesType DEF Settle
  <2>8. QED
    BY <2>4, <2>5, <2>6, <2>7 DEF TypeOK
<1>10. ASSUME NEW s \in Servers, OtherSaves(s) PROVE TypeInv'
  <2>1. use[s].copy \in CircuitRecord /\ (use[s].copy.status = "closed" => use[s].copy = Closed)
    BY <1>10, UseType DEF OtherSaves, Doing, CopiesClosed
  <2>2. QED
    BY <1>10, <2>1, FreesType DEF OtherSaves, TypeOK
<1>11. ASSUME NEW s \in Servers, OtherHandler(s) PROVE TypeInv'
  BY <1>11, LoadsType DEF OtherHandler, TypeOK
<1>12. ASSUME NEW s \in Servers, Crash(s) PROVE TypeInv'
  BY <1>12, FreesType, RestingType DEF Crash, TypeOK
<1>13. ASSUME NEW s \in Servers, NEW k \in Stages, NEW outcome \in Outcomes,
              StageEnds(s, k, outcome)
       PROVE  TypeInv'
  <2>1. use' \in [Servers -> {None} \cup UseRecord] /\ CopiesClosed'
    BY <1>13, LoadsType DEF StageEnds
  <2>2. QED
    BY <1>13, <2>1, OverType DEF StageEnds, TypeOK
<1>14. ASSUME NEW s \in Servers, NEW k \in Stages, CallbackLost(s, k) PROVE TypeInv'
  BY <1>14, OverType DEF CallbackLost, TypeOK, CopiesClosed, Free
<1>15. QED
  BY <1>1, <1>2, <1>3, <1>4, <1>5, <1>6, <1>7, <1>8, <1>9, <1>10, <1>11, <1>12, <1>13, <1>14
     DEF Next, Finishes, Ends

(* The circuit and every copy of it keep their shape, however many servers *)
(* share the campaign.                                                     *)
THEOREM CircuitTypeCorrect == Spec => []TypeOK
<1>1. TypeInv => TypeOK
  BY DEF TypeInv
<1>2. QED
  BY InitTypeInv, NextTypeInv, <1>1, PTL DEF Spec

----------------------------------------------------------------------------
(* One server and short stages.                                            *)

LEMMA InitInductive == Init => CopyCurrent /\ CircuitTells
<1> SUFFICES ASSUME Init PROVE CopyCurrent /\ CircuitTells
  OBVIOUS
<1>1. CopyCurrent
  BY DEF Init, CopyCurrent, Free
<1>2. CircuitTells
  BY CircuitAssumption DEF Init, CircuitTells, Closed, OnlyProbe, Live, Resting
<1>3. QED
  BY <1>1, <1>2

(* Nothing happens to the copy of a server that is not using the file.     *)
LEMMA FreesCurrent ==
  ASSUME OneServer, TypeOK, NEW s \in Servers, Frees(s) PROVE CopyCurrent'
  BY DEF OneServer, TypeOK, Frees, CopyCurrent, Free

LEMMA LoadsCurrent ==
  ASSUME OneServer, TypeOK, NEW s \in Servers, NEW task, NEW k, Loads(s, task, k),
         task # "claimed", circuit' = circuit,
         task # "other" => k \in Stages /\ ~Live(k)'
  PROVE  CopyCurrent'
  BY DEF OneServer, TypeOK, Loads, CopyCurrent, Free, Live

(* What runs as the only probe afterwards did so before, for as long, and  *)
(* nothing else the circuit tells has changed.                             *)
LEMMA TellsFrame ==
  ASSUME CircuitTells, circuit' = circuit, sinceLimit' = sinceLimit,
         \A k \in Stages : OnlyProbe(k)' => OnlyProbe(k) /\ stage'[k].age = stage[k].age
  PROVE  CircuitTells'
  BY DEF CircuitTells

LEMMA OverFrame ==
  ASSUME TypeOK, NEW k \in Stages, stage' = Over(k)
  PROVE  /\ \A j \in Stages : OnlyProbe(j)' => OnlyProbe(j) /\ stage'[j].age = stage[j].age
         /\ ~Live(k)'
<1>1. stage' = [stage EXCEPT ![k] = Resting("ended")] /\ stage \in [Stages -> StageRecord]
  BY DEF Over, TypeOK
<1>2. stage'[k].status = "ended"
  BY <1>1 DEF Resting
<1>3. \A j \in Stages : j # k => stage'[j] = stage[j]
  BY <1>1
<1>4. QED
  BY <1>2, <1>3 DEF OnlyProbe, Live

LEMMA LaunchedFrame ==
  ASSUME TypeOK, NEW s \in Servers, NEW k \in Stages, ~Live(k), stage' = Launched(s, k, "no")
  PROVE  \A j \in Stages : OnlyProbe(j)' => OnlyProbe(j) /\ stage'[j].age = stage[j].age
<1>1. stage'[k].probe = "no"
  BY DEF Launched, TypeOK
<1>2. \A j \in Stages : j # k => stage'[j] = stage[j]
  BY DEF Launched, TypeOK
<1>3. QED
  BY <1>1, <1>2 DEF OnlyProbe, Live

(* What is known of the server that is in the middle of using the file.    *)
LEMMA Using ==
  ASSUME TypeOK, CopyCurrent, NEW s \in Servers, ~Free(s), use[s].task # "other"
  PROVE  /\ use[s].stage \in Stages /\ ~Live(use[s].stage)
         /\ use[s].task # "claimed" => use[s].copy = circuit
  BY DEF CopyCurrent

(* An expired or missing probe is no stage that still runs as one.         *)
LEMMA NoProbeLeft ==
  ASSUME TypeOK, ShortStages, CircuitTells, circuit.status = "open", ~Skips(circuit)
  PROVE  circuit.cool = 0 /\ \A k \in Stages : ~OnlyProbe(k)
<1>1. circuit.cool = 0
  BY CircuitAssumption DEF Skips, TypeOK, CircuitRecord
<1>2. ASSUME NEW k \in Stages, OnlyProbe(k) PROVE FALSE
  <2>1. circuit.probe = [stage |-> k, age |-> stage[k].age] /\ stage[k].age \in 0..Timeout
    BY <1>2 DEF CircuitTells, TypeOK, StageRecord
  <2>2. stage[k].age < Lease /\ stage[k].age \in 0..Lease
    BY <2>1, CircuitAssumption DEF ShortStages
  <2>3. circuit.probe # None
    BY <2>1, <2>2, NoneAssumption
  <2>4. QED
    BY <2>1, <2>2, <2>3 DEF Skips
<1>3. QED
  BY <1>1, <1>2

LEMMA SettleInductive ==
  ASSUME OneServer, Inductive, NEW s \in Servers, Settle(s)
  PROVE  CopyCurrent' /\ CircuitTells'
<1> USE DEF Inductive
<1>1. /\ ~Free(s) /\ use[s].task \in Outcomes
      /\ use[s].stage \in Stages /\ ~Live(use[s].stage) /\ use[s].copy = circuit
  BY Using DEF Settle, Doing, Outcomes
<1>2. CopyCurrent'
  BY FreesCurrent DEF Settle
<1> DEFINE outcome == use[s].task
           settled == Settled(circuit, use[s].stage, outcome)
           reopened == [k \in Stages |-> IF OnlyProbe(k)
                                         THEN [stage[k] EXCEPT !.probe = "superseded"]
                                         ELSE stage[k]]
<1>3. CASE settled = Opened /\ (outcome = "anthropic_limit" \/ settled # circuit)
  <2>1. circuit' = Opened /\ stage' = reopened /\ sinceLimit' \in {0, sinceLimit}
    BY <1>1, <1>3 DEF Settle
  <2>2. circuit'.cool = Cooldown /\ circuit'.probe = None
    BY <2>1 DEF Opened
  <2>3. sinceLimit' \in Nat /\ Cooldown \in Nat
    BY <2>1, CircuitAssumption DEF TypeOK
  <2>4. ASSUME NEW k \in Stages PROVE ~OnlyProbe(k)'
    <3>1. CASE OnlyProbe(k)
      <4>1. stage'[k].probe = "superseded"
        BY <2>1, <3>1 DEF TypeOK, StageRecord
      <4>2. QED
        BY <4>1 DEF OnlyProbe
    <3>2. CASE ~OnlyProbe(k)
      BY <2>1, <3>2 DEF OnlyProbe, Live
    <3>3. QED
      BY <3>1, <3>2
  <2> HIDE DEF outcome, settled, reopened, Inductive
  <2>5. circuit'.cool + sinceLimit' >= Cooldown
    <3>1. \A n, c \in Nat : c + n >= c
      OBVIOUS
    <3>2. QED
      BY <2>2, <2>3, <3>1
  <2>6. QED
    BY <1>2, <2>2, <2>4, <2>5 DEF CircuitTells
<1>4. CASE settled = Closed /\ outcome = "completed" /\ circuit.probe # None
             /\ circuit.probe.stage = use[s].stage
  <2>1. Closed # Opened
    BY DEF Closed, Opened
  <2>2. sinceLimit' = sinceLimit /\ stage' = stage
    BY <1>1, <1>4, <2>1 DEF Settle
  <2>3. circuit' = Closed
    BY <1>1, <1>4 DEF Settle
  <2>4. circuit'.cool = 0 /\ circuit'.probe = None /\ circuit.cool = 0
    BY <1>4, <2>3 DEF Closed, CircuitTells
  <2>5. ASSUME NEW k \in Stages, OnlyProbe(k) PROVE FALSE
    <3>1. circuit.probe = [stage |-> k, age |-> stage[k].age]
      BY <2>5 DEF CircuitTells
    <3>2. use[s].stage = k
      BY <1>4, <3>1
    <3>3. QED
      BY <1>1, <2>5, <3>2 DEF OnlyProbe
  <2>6. QED
    BY <1>2, <2>2, <2>4, <2>5 DEF CircuitTells, OnlyProbe, Live
<1>5. CASE settled = circuit /\ outcome # "anthropic_limit"
  <2>1. circuit' = circuit /\ sinceLimit' = sinceLimit /\ stage' = stage
    BY <1>1, <1>5 DEF Settle
  <2>2. QED
    BY <1>2, <2>1 DEF CircuitTells, OnlyProbe, Live
<1>6. QED
  BY <1>1, <1>3, <1>4, <1>5 DEF Settled, Outcomes

LEMMA NextInductive ==
  ASSUME OneServer, ShortStages, Inductive, [Next]_vars
  PROVE  CopyCurrent' /\ CircuitTells'
<1> USE DEF Inductive
<1>1. CASE UNCHANGED vars
  BY <1>1 DEF CopyCurrent, CircuitTells, Free, OnlyProbe, Live
<1>2. CASE Tick
  <2>1. CopyCurrent'
    BY <1>2 DEF Tick, CopyCurrent, Free
  <2>2. /\ circuit.cool \in 0..Cooldown /\ sinceLimit \in 0..Cooldown
        /\ Cooldown \in Nat /\ Timeout \in Nat /\ Lease \in Nat /\ circuit \in CircuitRecord
    BY CircuitAssumption DEF TypeOK, CircuitRecord
  <2>3. /\ circuit'.cool = IF circuit.cool > 0 THEN circuit.cool - 1 ELSE 0
        /\ circuit'.probe = AgedProbe(circuit.probe)
        /\ circuit'.status = circuit.status
        /\ sinceLimit' = UpTo(Cooldown, sinceLimit)
    BY <1>2, <2>2 DEF Tick, Aged, CircuitRecord
  <2>4. circuit'.cool + sinceLimit' >= Cooldown
    BY <2>2, <2>3 DEF UpTo, CircuitTells
  <2>5. circuit'.probe # None => circuit'.status = "open" /\ circuit'.cool = 0
    BY <2>2, <2>3 DEF AgedProbe, CircuitTells
  <2>6. ASSUME NEW k \in Stages, OnlyProbe(k)'
        PROVE  circuit'.probe = [stage |-> k, age |-> stage'[k].age]
    <3>1. OnlyProbe(k) /\ stage'[k].age = stage[k].age + 1 /\ stage[k].age < Timeout
      BY <1>2, <2>6 DEF Tick, OnlyProbe, Live, TypeOK, StageRecord
    <3>2. circuit.probe = [stage |-> k, age |-> stage[k].age] /\ stage[k].age \in 0..Lease
      BY <2>2, <3>1, CircuitAssumption DEF CircuitTells, TypeOK, StageRecord
    <3>3. circuit.probe # None
      BY <3>2, NoneAssumption
    <3>4. UpTo(Lease, stage[k].age) = stage[k].age + 1
      BY <2>2, <3>1, <3>2 DEF UpTo, ShortStages
    <3>5. QED
      BY <2>3, <3>1, <3>2, <3>3, <3>4 DEF AgedProbe
  <2>7. QED
    BY <2>1, <2>4, <2>5, <2>6 DEF CircuitTells
<1>3. ASSUME NEW s \in Servers, NEW k \in Stages, StartStage(s, k)
      PROVE  CopyCurrent' /\ CircuitTells'
  <2>1. ~Live(k)' /\ circuit' = circuit /\ sinceLimit' = sinceLimit /\ stage' = stage
    BY <1>3 DEF StartStage, Live
  <2>2. CopyCurrent'
    BY <1>3, <2>1, LoadsCurrent DEF StartStage
  <2>3. QED
    BY <2>1, <2>2, TellsFrame DEF OnlyProbe, Live
<1>4. ASSUME NEW s \in Servers, LaunchNormal(s) \/ SkipLaunch(s)
      PROVE  CopyCurrent' /\ CircuitTells'
  <2>1. use[s].stage \in Stages /\ ~Live(use[s].stage)
    BY <1>4, Using DEF LaunchNormal, SkipLaunch, Doing
  <2>2. \A j \in Stages : OnlyProbe(j)' => OnlyProbe(j) /\ stage'[j].age = stage[j].age
    BY <1>4, <2>1, LaunchedFrame, OverFrame DEF LaunchNormal, SkipLaunch
  <2>3. QED
    BY <1>4, <2>2, TellsFrame, FreesCurrent DEF LaunchNormal, SkipLaunch
<1>5. ASSUME NEW s \in Servers, ClaimProbe(s) PROVE CopyCurrent' /\ CircuitTells'
  <2>1. /\ ~Free(s) /\ use[s].copy = circuit
        /\ use[s].stage \in Stages /\ ~Live(use[s].stage)
    BY <1>5, Using DEF ClaimProbe, Doing
  <2>2. circuit.cool = 0 /\ \A k \in Stages : ~OnlyProbe(k)
    BY <1>5, <2>1, NoProbeLeft DEF ClaimProbe
  <2>3. /\ circuit' = [circuit EXCEPT !.probe = [stage |-> use[s].stage, age |-> 0]]
        /\ use' = [use EXCEPT ![s].task = "claimed"]
        /\ stage' = stage /\ sinceLimit' = sinceLimit /\ circuit.status = "open"
    BY <1>5, <2>1 DEF ClaimProbe
  <2>4. /\ circuit'.probe = [stage |-> use[s].stage, age |-> 0]
        /\ circuit'.status = "open" /\ circuit'.cool = 0
    BY <2>2, <2>3 DEF TypeOK, CircuitRecord
  <2>5. \A k \in Stages : ~OnlyProbe(k)'
    BY <2>2, <2>3 DEF OnlyProbe, Live
  <2>6. CircuitTells'
    BY <2>2, <2>3, <2>4, <2>5 DEF CircuitTells
  <2>7. use[s] \in UseRecord
    BY <2>1, UseType
  <2>8. use'[s].task = "claimed" /\ use'[s].stage = use[s].stage
    BY <2>3, <2>7 DEF TypeOK, UseRecord
  <2>9. CopyCurrent'
    BY <2>1, <2>3, <2>4, <2>5, <2>8 DEF CopyCurrent, OneServer, Live
  <2>10. QED
    BY <2>6, <2>9
<1>6. ASSUME NEW s \in Servers, LaunchProbe(s) PROVE CopyCurrent' /\ CircuitTells'
  <2>1. /\ use[s].stage \in Stages /\ circuit.probe = [stage |-> use[s].stage, age |-> 0]
        /\ \A k \in Stages : ~OnlyProbe(k)
    BY <1>6 DEF LaunchProbe, Doing, CopyCurrent
  <2>2. stage'[use[s].stage].age = 0
    BY <1>6, <2>1 DEF LaunchProbe, Launched, TypeOK
  <2>3. \A k \in Stages : k # use[s].stage => stage'[k] = stage[k]
    BY <1>6, <2>1 DEF LaunchProbe, Launched, TypeOK
  <2>4. ASSUME NEW k \in Stages, OnlyProbe(k)'
        PROVE  circuit'.probe = [stage |-> k, age |-> stage'[k].age]
    <3>1. k = use[s].stage
      BY <2>1, <2>3, <2>4 DEF OnlyProbe, Live
    <3>2. QED
      BY <1>6, <2>1, <2>2, <3>1 DEF LaunchProbe
  <2>5. QED
    BY <1>6, <2>4, FreesCurrent DEF LaunchProbe, CircuitTells
<1>7. ASSUME NEW s \in Servers, LaunchFails(s) PROVE CopyCurrent' /\ CircuitTells'
  <2>1. use[s].stage \in Stages
    BY <1>7, Using DEF LaunchFails, Doing
  <2>2. QED
    BY <1>7, <2>1, OverFrame, LoadsCurrent, TellsFrame DEF LaunchFails
<1>8. ASSUME NEW s \in Servers, OtherSaves(s) PROVE CopyCurrent' /\ CircuitTells'
  <2>1. circuit' = circuit
    BY <1>8 DEF OtherSaves, Doing, CopyCurrent
  <2>2. QED
    BY <1>8, <2>1, FreesCurrent, TellsFrame DEF OtherSaves, OnlyProbe, Live
<1>9. ASSUME NEW s \in Servers, OtherHandler(s) PROVE CopyCurrent' /\ CircuitTells'
  <2>1. circuit' = circuit /\ sinceLimit' = sinceLimit /\ stage' = stage
    BY <1>9 DEF OtherHandler
  <2>2. CopyCurrent'
    BY <1>9, <2>1, LoadsCurrent DEF OtherHandler
  <2>3. QED
    BY <2>1, <2>2, TellsFrame DEF OnlyProbe, Live
<1>10. ASSUME NEW s \in Servers, Crash(s) PROVE CopyCurrent' /\ CircuitTells'
  <2>1. \A j \in Stages : OnlyProbe(j)' => OnlyProbe(j) /\ stage'[j].age = stage[j].age
    BY <1>10 DEF Crash, OnlyProbe, Live, Resting
  <2>2. QED
    BY <1>10, <2>1, FreesCurrent, TellsFrame DEF Crash
<1>11. ASSUME NEW s \in Servers, NEW k \in Stages, NEW outcome \in Outcomes,
              StageEnds(s, k, outcome)
       PROVE  CopyCurrent' /\ CircuitTells'
  <2>1. outcome # "claimed"
    BY DEF Outcomes
  <2>2. QED
    BY <1>11, <2>1, OverFrame, LoadsCurrent, TellsFrame DEF StageEnds
<1>12. ASSUME NEW s \in Servers, NEW k \in Stages, CallbackLost(s, k)
       PROVE  CopyCurrent' /\ CircuitTells'
  <2>1. CopyCurrent'
    BY <1>12 DEF CallbackLost, CopyCurrent, OneServer, Free
  <2>2. QED
    BY <1>12, <2>1, OverFrame, TellsFrame DEF CallbackLost
<1>13. QED
  BY <1>1, <1>2, <1>3, <1>4, <1>5, <1>6, <1>7, <1>8, <1>9, <1>10, <1>11, <1>12, SettleInductive
     DEF Next, Finishes, Ends

LEMMA InductiveInvariant == OneServer /\ ShortStages /\ Spec => []Inductive
<1>1. Inductive /\ CopiesClosed /\ OneServer /\ ShortStages /\ [Next]_vars
        => (Inductive /\ CopiesClosed)'
  BY NextTypeInv, NextInductive DEF TypeInv, Inductive
<1>2. Init => Inductive /\ CopiesClosed
  BY InitTypeInv, InitInductive DEF TypeInv, Inductive
<1>3. (OneServer /\ ShortStages) => [](OneServer /\ ShortStages)
  <2>1. (OneServer /\ ShortStages) => (OneServer /\ ShortStages)'
    BY DEF OneServer, ShortStages
  <2>2. QED
    BY <2>1, PTL
<1>4. QED
  BY <1>1, <1>2, <1>3, PTL DEF Spec

(* With one server, whatever crashes and however the callbacks and the     *)
(* clock fall, two stages never probe at a time under one opening.         *)
THEOREM OneProbeAtATime == OneServer /\ ShortStages /\ Spec => []OneProbe
<1>1. Inductive => OneProbe
  <2> SUFFICES ASSUME Inductive, NEW j \in Stages, NEW k \in Stages, OnlyProbe(j), OnlyProbe(k)
               PROVE  j = k
    BY DEF OneProbe
  <2>1. [stage |-> j, age |-> stage[j].age] = [stage |-> k, age |-> stage[k].age]
    BY DEF Inductive, CircuitTells
  <2>2. QED
    BY <2>1
<1>2. QED
  BY <1>1, InductiveInvariant, PTL

(* With one server no stage is launched before the last recorded limit is  *)
(* as old as the cooldown: neither a success that is not the probe's nor a *)
(* lease that ran out shortens it.                                         *)
THEOREM CooldownHeld == OneServer /\ ShortStages /\ Spec => CooldownRespected
<1>1. ASSUME Inductive, [Next]_vars, NEW k \in Stages, ~Live(k), Live(k)'
      PROVE  sinceLimit = Cooldown
  <2>1. PICK s \in Servers : LaunchNormal(s) \/ LaunchProbe(s)
    <3>1. CASE UNCHANGED vars
      BY <1>1, <3>1 DEF Live
    <3>2. CASE Tick
      BY <1>1, <3>2 DEF Tick, Live
    <3>3. ASSUME NEW s \in Servers,
                 SkipLaunch(s) \/ LaunchFails(s) \/ Crash(s)
                   \/ \E j \in Stages : Ends(s, j)
          PROVE  FALSE
      BY <1>1, <3>3
         DEF SkipLaunch, LaunchFails, Crash, Ends, StageEnds, CallbackLost, Over, Resting, Live,
             Inductive, TypeOK
    <3>4. ASSUME NEW s \in Servers, Settle(s) PROVE FALSE
      BY <1>1, <3>4 DEF Settle, Live, Inductive, TypeOK, StageRecord
    <3>5. ASSUME NEW s \in Servers,
                 ClaimProbe(s) \/ OtherSaves(s) \/ OtherHandler(s)
                   \/ \E j \in Stages : StartStage(s, j)
          PROVE  FALSE
      BY <1>1, <3>5 DEF ClaimProbe, OtherSaves, OtherHandler, StartStage, Live
    <3>6. QED
      BY <1>1, <3>1, <3>2, <3>3, <3>4, <3>5 DEF Next, Finishes
  <2>2. circuit.cool = 0
    <3>1. CASE LaunchNormal(s)
      <4>1. circuit = Closed
        BY <1>1, <3>1 DEF LaunchNormal, Doing, Inductive, CopyCurrent, TypeOK
      <4>2. QED
        BY <4>1 DEF Closed
    <3>2. CASE LaunchProbe(s)
      <4>1. circuit.probe = [stage |-> use[s].stage, age |-> 0] /\ use[s].stage \in Stages
        BY <1>1, <3>2 DEF LaunchProbe, Doing, Inductive, CopyCurrent
      <4>2. circuit.probe # None
        BY <4>1, NoneAssumption, CircuitAssumption
      <4>3. QED
        BY <1>1, <4>2 DEF Inductive, CircuitTells
    <3>3. QED
      BY <2>1, <3>1, <3>2
  <2>3. sinceLimit \in 0..Cooldown /\ Cooldown \in Nat
    BY <1>1, CircuitAssumption DEF Inductive, TypeOK
  <2>4. QED
    BY <1>1, <2>2, <2>3 DEF Inductive, CircuitTells
<1>2. Inductive /\ [Next]_vars
        => [\A k \in Stages : ~Live(k) /\ Live(k)' => sinceLimit = Cooldown]_vars
  BY <1>1
<1>3. QED
  BY <1>2, InductiveInvariant, PTL DEF Spec, CooldownRespected
=============================================================================
