--------------------------- MODULE FollowupChainProofs ---------------------------
(* What holds of FollowupChain for any plan of descendants, any worktrees  *)
(* and histories, and any order of requests, moves of writers and runs.    *)
EXTENDS FollowupChain, FiniteSetTheorems, SequenceTheorems, TLAPS

----------------------------------------------------------------------------
(* The inductive invariant.                                                *)

InHand == {"adapting", "checking", "paused"} \cup Ready
Pinned == Ready \cup {"adapting", "checking"}

(* Whoever is in hand has a worktree.                                      *)
Working == \A t \in Tasks : task[t].status \in InHand => task[t].ws \in Worktrees

(* A recorded candidate contains the parents its attempt was pinned to.    *)
Contained ==
  \A t \in Tasks : task[t].status \in Ready \cup {"checking"} =>
    \A n \in Parents(t) : task[t].parents[n] \subseteq task[t].cand

(* No run carries the reference of an attempt that is still to come.       *)
Dated ==
  \A r \in runs : \/ r.ref.epoch < epoch
                  \/ r.ref.epoch = epoch /\ r.ref.attempt <= task[r.ref.task].attempt

(* Work that waits for a review can only go on as semantic.                *)
Waits(t) ==
  /\ task[t].status \notin Ready
  /\ IF task[t].status \in InHand THEN task[t].mode = "semantic" ELSE ~ task[t].base.verified
Waiting == \A t \in unreviewed : Waits(t)

IInv ==
  /\ TypeOK /\ IsFiniteSet(runs)
  /\ Working /\ Contained /\ Dated /\ Waiting
  /\ ParentsPinned /\ WorktreesApart

----------------------------------------------------------------------------
(* Dependencies.                                                           *)

LEMMA ContractType ==
  ASSUME NEW t \in Tasks
  PROVE  /\ Contract[t].deps \subseteq Tasks /\ Parents(t) \subseteq Nodes /\ Contract[t].parent \in Parents(t)
         /\ Contract[t].baseline \in Baselines /\ Contract[t].baseline.ws # SourceWorktree
         /\ Contract[t].baseline.tree = StartTree[Contract[t].baseline.ws]
         /\ Contract[t].parent \in Nodes /\ Contract[t].active \in BOOLEAN
  BY ChainAssumption DEF ContractRecords, Parents, Nodes

(* The ancestors are the dependencies and theirs, and nothing more.        *)
LEMMA AncestorsClosed ==
  ASSUME NEW t \in Tasks
  PROVE  /\ Ancestors(t) \subseteq Tasks /\ Contract[t].deps \subseteq Ancestors(t)
         /\ \A x \in Ancestors(t) : Contract[x].deps \subseteq Ancestors(t)
<1>1. Ancestors(t) = {a \in Tasks : Depends(t, a)}
  BY DEF Ancestors, AncestorsOf
<1>2. Contract[t].deps \subseteq Ancestors(t)
  BY <1>1, ContractType DEF Depends
<1>3. ASSUME NEW x \in Ancestors(t), NEW d \in Contract[x].deps PROVE d \in Ancestors(t)
  <2>1. x \in Tasks /\ d \in Tasks
    BY <1>1, <1>3, ContractType
  <2>2. ASSUME NEW S \in SUBSET Tasks, Contract[t].deps \subseteq S, \A y \in S : Contract[y].deps \subseteq S
        PROVE  d \in S
    BY <1>1, <1>3, <2>2 DEF Depends
  <2>3. QED
    BY <1>1, <2>1, <2>2 DEF Depends
<1>4. QED
  BY <1>1, <1>2, <1>3

LEMMA AncestorsLeast ==
  ASSUME NEW t \in Tasks, NEW S \in SUBSET Tasks, Contract[t].deps \subseteq S,
         \A x \in S : Contract[x].deps \subseteq S
  PROVE  Ancestors(t) \subseteq S
  BY DEF Ancestors, AncestorsOf, Depends

LEMMA AncestorsGrow ==
  ASSUME NEW t \in Tasks, NEW d \in Ancestors(t)
  PROVE  Ancestors(d) \subseteq Ancestors(t)
  BY AncestorsClosed, AncestorsLeast

(* Whoever builds on a descendant is a descendant.                         *)
LEMMA DescendantsClosed ==
  ASSUME NEW t \in Tasks, NEW u \in Tasks, NEW d \in Contract[u].deps, d \in {t} \cup Descendants(t)
  PROVE  u \in Descendants(t)
<1>1. d \in Ancestors(u) /\ d \in Tasks
  BY AncestorsClosed, ContractType
<1>2. t \in Ancestors(u)
  BY <1>1, AncestorsGrow DEF Descendants, Ancestors
<1>3. QED
  BY <1>2 DEF Descendants, Ancestors

----------------------------------------------------------------------------
(* Types.                                                                  *)

LEMMA NewTaskType ==
  ASSUME NEW status \in Statuses, NEW attempt \in Nat, NEW baseline \in Baselines
  PROVE  LET new == NewTask(status, attempt, baseline) IN
         /\ new \in TaskStates /\ new.status = status /\ new.mode = None /\ new.cand = {} /\ new.checks = {}
         /\ new.attempt = attempt /\ new.base = baseline /\ new.ws = None /\ new.parents \in [Nodes -> Histories]
<1>1. {} \in Histories /\ {} \in SUBSET Checks /\ NoTree \in Trees /\ [n \in Nodes |-> {}] \in [Nodes -> Histories]
  BY DEF Histories, NoTree, Trees
<1>2. QED
  BY <1>1 DEF NewTask, TaskStates

LEMMA TaskType ==
  ASSUME TypeOK, NEW t \in Tasks
  PROVE  /\ task[t] \in TaskStates /\ task[t].status \in Statuses /\ task[t].mode \in {None, "mechanical", "semantic"}
         /\ task[t].cand \in Histories /\ task[t].checks \in SUBSET Checks /\ task[t].attempt \in Nat
         /\ task[t].base \in Baselines /\ task[t].ws \in Worktrees \cup {None} /\ task[t].parent \in Histories
         /\ task[t].parents \in [Nodes -> Histories] /\ task[t].preserved \in Histories
         /\ task[t].checkpoint \in Trees
  BY DEF TypeOK, TaskStates

LEMMA BaseType ==
  ASSUME NEW b \in Baselines
  PROVE  /\ b.ws \in Worktrees /\ b.base \in Histories /\ b.tree \in Trees /\ b.own \in Histories
         /\ b.verified \in BOOLEAN /\ b.tree.head \in Histories /\ b.tree.dirty \in SUBSET Changes
         /\ MustKeep(b) \in SUBSET Changes
  BY DEF Baselines, Trees, MustKeep, ChangesOf, Histories, Commits

LEMMA HeadsType ==
  ASSUME TypeOK, NEW t \in Tasks
  PROVE  /\ Heads(t) \in [Nodes -> Histories] /\ \A n \in Nodes : HeadOf(n) \in Histories
<1>1. source.head \in Histories
  BY DEF TypeOK, Sources
<1>2. \A n \in Nodes : HeadOf(n) \in Histories
  BY <1>1, TaskType DEF HeadOf, Nodes
<1>3. {} \in Histories
  BY DEF Histories
<1>4. QED
  BY <1>2, <1>3 DEF Heads

(* What a finished or a paused task leaves to what comes next.             *)
LEMMA BaselineTypes ==
  ASSUME TypeOK, Working, NEW t \in Tasks, task[t].status \in InHand
  PROVE  /\ CompletedBaseline(t) \in Baselines /\ PausedBaseline(t) \in Baselines
         /\ CompletedBaseline(t).ws = task[t].ws /\ PausedBaseline(t).ws = task[t].ws
         /\ PausedBaseline(t).verified = FALSE
<1>1. task[t].ws \in Worktrees
  BY DEF Working
<1>2. Candidate(t) \in Trees
  BY TaskType DEF Candidate, Trees
<1>3. task[t].cand \ task[t].parent \in Histories /\ task[t].checkpoint.head \ task[t].base.base \in Histories
  BY TaskType DEF Histories, Trees
<1>4. task[t].base.verified \in BOOLEAN /\ task[t].base.base \in Histories
  BY TaskType, BaseType
<1>5. CompletedBaseline(t) \in Baselines /\ CompletedBaseline(t).ws = task[t].ws
  BY <1>1, <1>2, <1>3, <1>4, TaskType DEF CompletedBaseline, Baselines
<1>6. PausedBaseline(t) \in Baselines /\ PausedBaseline(t).ws = task[t].ws /\ PausedBaseline(t).verified = FALSE
  BY <1>1, <1>3, <1>4, TaskType DEF PausedBaseline, Baselines
<1>7. QED
  BY <1>5, <1>6

----------------------------------------------------------------------------
(* The initial state.                                                      *)

LEMMA InitInvariant == Init => IInv
<1> SUFFICES ASSUME Init PROVE IInv
  OBVIOUS
<1> USE DEF Init
<1>1. \A t \in Tasks : /\ task[t] \in TaskStates /\ task[t].status \in {"awaiting_checkpoint", "pending"}
                       /\ task[t].base = Contract[t].baseline /\ task[t].ws = None
  <2> TAKE t \in Tasks
  <2> DEFINE status == IF Contract[t].active THEN "awaiting_checkpoint" ELSE "pending"
  <2>1. status \in Statuses /\ status \in {"awaiting_checkpoint", "pending"}
    BY DEF Statuses, Active, Ready
  <2>2. task[t] = NewTask(status, 0, Contract[t].baseline)
    OBVIOUS
  <2> HIDE DEF status
  <2>3. QED
    BY <2>1, <2>2, NewTaskType, ContractType, 0 \in Nat
<1>2. IsFiniteSet(runs) /\ Cardinality(runs) = 0
  BY FS_EmptySet
<1>3. TypeOK
  <2>1. task \in [Tasks -> TaskStates]
    BY <1>1
  <2>2. source \in Sources /\ queue \in Seq(Sources) /\ Len(queue) = 0 /\ tree \in [Worktrees -> Trees]
    <3>1. SourceWorktree \in Worktrees /\ StartTree \in [Worktrees -> Trees]
      BY ChainAssumption
    <3>2. StartTree[SourceWorktree].head \in Histories
      BY <3>1 DEF Trees
    <3>3. queue \in Seq(Sources) /\ Len(queue) = 0
      BY EmptySeq
    <3>4. QED
      BY <3>1, <3>2, <3>3 DEF Sources
  <2>3. kept \in [Tasks -> SUBSET Changes]
    BY ContractType, BaseType
  <2>4. epoch \in Nat \ {0} /\ epoch + Len(queue) <= MaxEpoch /\ cancelled \in BOOLEAN
        /\ moves \in Nat /\ moves + Cardinality(runs) <= MaxOutside
    <3>1. MaxEpoch \in Nat \ {0} /\ MaxOutside \in Nat
      BY ChainAssumption
    <3>2. epoch = 1 /\ moves = 0 /\ cancelled = FALSE
      OBVIOUS
    <3>3. epoch + Len(queue) <= MaxEpoch
      <4> HIDE DEF Init
      <4>1. QED
        BY <2>2, <3>1, <3>2
    <3>4. moves + Cardinality(runs) <= MaxOutside
      <4> HIDE DEF Init
      <4>1. QED
        BY <1>2, <3>1, <3>2
    <3>5. epoch \in Nat \ {0} /\ moves \in Nat /\ cancelled \in BOOLEAN
      <4>1. epoch \in Nat \ {0} /\ moves \in Nat
        BY ONLY <3>2
      <4>2. cancelled \in BOOLEAN
        BY ONLY <3>2
      <4>3. QED
        BY <4>1, <4>2
    <3>6. QED
      BY ONLY <3>3, <3>4, <3>5
  <2>5. QED
    BY <2>1, <2>2, <2>3, <2>4 DEF TypeOK
<1>4. Working /\ Contained /\ Dated /\ Waiting /\ ParentsPinned
  BY <1>1 DEF Working, Contained, Dated, Waiting, ParentsPinned, InHand, Ready
<1>5. WorktreesApart
  BY <1>1, ContractType, ChainAssumption DEF WorktreesApart, Baselines
<1>6. QED
  BY <1>2, <1>3, <1>4, <1>5 DEF IInv

----------------------------------------------------------------------------
(* Steps of one task.                                                      *)

rest == <<source, queue, epoch, cancelled, runs>>

(* A task that is not finished changes, and leaves the others alone.       *)
LEMMA OneTask ==
  ASSUME IInv, NEW t \in Tasks, task[t].status \notin Ready,
         NEW new \in TaskStates, task' = [task EXCEPT ![t] = new], UNCHANGED <<rest, tree, moves>>,
         kept' \in [Tasks -> SUBSET Changes], unreviewed' \subseteq Tasks,
         unreviewed' \subseteq unreviewed \cup {t},
         new.attempt >= task[t].attempt, new.base.ws = task[t].base.ws,
         new.status \in InHand => new.ws \in Worktrees,
         new.ws = task[t].ws \/ new.ws \in Worktrees \ Reserved(t),
         new.status \in Pinned =>
           (\A d \in Contract[t].deps : task[d].status \in Ready) /\ new.parents = Heads(t),
         new.status \in Ready \cup {"checking"} =>
           \A n \in Parents(t) : new.parents[n] \subseteq new.cand,
         t \in unreviewed' => /\ new.status \notin Ready
                              /\ IF new.status \in InHand THEN new.mode = "semantic" ELSE ~ new.base.verified
  PROVE  IInv'
<1> USE DEF rest
<1>1. task'[t] = new /\ (\A u \in Tasks \ {t} : task'[u] = task[u]) /\ task' \in [Tasks -> TaskStates]
  BY DEF IInv, TypeOK
<1>2. TypeOK' /\ IsFiniteSet(runs)'
  <2>1. TypeOK /\ IsFiniteSet(runs)
    BY DEF IInv
  <2>2. /\ epoch' = epoch /\ queue' = queue /\ cancelled' = cancelled /\ source' = source
        /\ tree' = tree /\ runs' = runs /\ moves' = moves
    OBVIOUS
  <2>3. TypeOK'
    BY <1>1, <2>1, <2>2 DEF TypeOK
  <2>4. QED
    BY <2>1, <2>2, <2>3
<1>3. Working'
  BY <1>1 DEF IInv, Working
<1>4. Contained'
  BY <1>1 DEF IInv, Contained
<1>5. Dated'
  <2>1. ASSUME NEW r \in runs, r.ref.epoch = epoch, r.ref.attempt <= task[r.ref.task].attempt
        PROVE  r.ref.attempt <= task'[r.ref.task].attempt
    <3>1. r.ref.task \in Tasks /\ r.ref.attempt \in Nat
      BY <2>1 DEF IInv, TypeOK, References
    <3>2. task[t].attempt \in Nat /\ new.attempt \in Nat
      BY DEF IInv, TypeOK, TaskStates
    <3>3. QED
      BY <1>1, <2>1, <3>1, <3>2
  <2>2. QED
    BY <2>1 DEF IInv, Dated
<1>6. Waiting'
  <2>1. ASSUME NEW u \in unreviewed', u # t PROVE Waits(u)'
    <3>1. u \in Tasks \ {t} /\ Waits(u)
      BY <2>1 DEF IInv, Waiting
    <3>2. QED
      BY <1>1, <3>1 DEF Waits
  <2>2. t \in unreviewed' => Waits(t)'
    BY <1>1 DEF Waits
  <2>3. QED
    BY <2>1, <2>2 DEF Waiting
<1>7. ParentsPinned'
  <2>1. ASSUME NEW u \in Tasks, task'[u].status \in Pinned
        PROVE  (\A d \in Contract[u].deps : task[d].status \in Ready) /\ task'[u].parents = Heads(u)
    <3>1. CASE u = t
      BY <1>1, <2>1, <3>1
    <3>2. CASE u # t
      BY <1>1, <2>1, <3>2 DEF IInv, ParentsPinned, Pinned
    <3>3. QED
      BY <3>1, <3>2
  <2>2. ASSUME NEW u \in Tasks, task'[u].status \in Pinned
        PROVE  (\A d \in Contract[u].deps : task'[d].status \in Ready) /\ Heads(u)' = Heads(u)
    <3>1. t \notin Contract[u].deps /\ Contract[u].deps \subseteq Tasks
      <4>1. \A d \in Contract[u].deps : task[d].status \in Ready
        BY <2>1, <2>2
      <4>2. QED
        BY <4>1, ContractType
    <3>2. \A d \in Contract[u].deps : task'[d] = task[d]
      BY <1>1, <3>1
    <3>3. Heads(u)' = Heads(u)
      <4>1. ASSUME NEW n \in Parents(u) PROVE HeadOf(n)' = HeadOf(n)
        <5>1. CASE n = Source
          BY <5>1 DEF HeadOf
        <5>2. CASE n # Source
          <6>1. n \in Contract[u].deps
            BY <5>2 DEF Parents
          <6>2. QED
            BY <5>2, <6>1, <3>2 DEF HeadOf
        <5>3. QED
          BY <5>1, <5>2
      <4>2. QED
        BY <4>1 DEF Heads, Parents
    <3>4. QED
      BY <2>1, <2>2, <3>2, <3>3
  <2>3. QED
    BY <2>1, <2>2 DEF ParentsPinned, Pinned
<1>8. WorktreesApart'
  <2>1. \A u \in Tasks : task'[u].base.ws = task[u].base.ws
    BY <1>1
  <2>2. CASE new.ws = task[t].ws
    <3>1. \A u \in Tasks : task'[u].ws = task[u].ws
      BY <1>1, <2>2
    <3>2. source' = source /\ queue' = queue /\ WorktreesApart
      BY DEF IInv
    <3>3. QED
      BY ONLY <2>1, <3>1, <3>2 DEF WorktreesApart
  <2>3. CASE new.ws \in Worktrees \ Reserved(t)
    <3>1. /\ new.ws # None /\ new.ws # source.ws /\ \A i \in DOMAIN queue : queue[i].ws # new.ws
          /\ \A u \in Tasks : task[u].base.ws # new.ws /\ Contract[u].baseline.ws # new.ws
          /\ \A u \in Tasks \ {t} : task[u].ws # new.ws
      BY <2>3, ChainAssumption DEF Reserved
    <3>2. /\ source' = source /\ queue' = queue /\ WorktreesApart /\ new.ws \in Worktrees
          /\ task'[t].ws = new.ws /\ \A u \in Tasks \ {t} : task'[u].ws = task[u].ws
      BY <1>1, <2>3 DEF IInv
    <3>3. ASSUME NEW u \in Tasks
          PROVE  /\ {source.ws} \cup {queue[i].ws : i \in DOMAIN queue}
                      \subseteq Worktrees \ ({task[u].base.ws, Contract[u].baseline.ws} \cup {task'[u].ws})
                 /\ task'[u].ws \notin {task[u].base.ws, Contract[u].baseline.ws}
      <4>1. CASE u = t
        BY ONLY <3>1, <3>2, <4>1 DEF WorktreesApart
      <4>2. CASE u # t
        BY ONLY <3>2, <3>3, <4>2 DEF WorktreesApart
      <4>3. QED
        BY <4>1, <4>2
    <3>4. ASSUME NEW u \in Tasks, NEW v \in Tasks \ {u}
          PROVE  /\ task'[v].ws \notin {task[u].base.ws, Contract[u].baseline.ws}
                 /\ task'[v].ws = task'[u].ws => task'[u].ws = None
                 /\ task[v].base.ws # task[u].base.ws
      BY ONLY <3>1, <3>2, <3>4 DEF WorktreesApart
    <3>5. QED
      BY ONLY <2>1, <3>2, <3>3, <3>4 DEF WorktreesApart
  <2>4. QED
    BY <2>2, <2>3
<1>9. QED
  BY <1>2, <1>3, <1>4, <1>5, <1>6, <1>7, <1>8 DEF IInv

(* The parents of a fresh attempt are finished.                            *)
LEMMA FreshParents ==
  ASSUME NEW t \in Tasks, ParentsFresh(t)
  PROVE  \A d \in Contract[t].deps : task[d].status \in Ready
  BY AncestorsClosed DEF ParentsFresh

LEMMA CheckpointStep ==
  ASSUME IInv, NEW t \in Tasks, Checkpoint(t)
  PROVE  IInv'
<1> DEFINE b == task[t].base
           now == tree[b.ws]
           base == [b EXCEPT !.tree = now, !.own = now.head \ b.base, !.verified = b.verified /\ now = b.tree]
           new == [task[t] EXCEPT !.status = "pending", !.base = base]
<1>1. task[t].status = "awaiting_checkpoint" /\ UNCHANGED <<rest, tree, moves>> /\ unreviewed' = unreviewed
  BY DEF Checkpoint, rest
<1>2. task[t] \in TaskStates /\ b \in Baselines /\ b.ws \in Worktrees /\ task[t].attempt \in Nat
  BY TaskType, BaseType DEF IInv
<1>3. now \in Trees
  BY <1>2 DEF IInv, TypeOK
<1>4. now.head \in Histories /\ now.head \ b.base \in Histories
  BY <1>3 DEF Trees, Histories
<1>5. base \in Baselines /\ base.ws = b.ws /\ (~ b.verified => ~ base.verified)
  BY <1>2, <1>3, <1>4 DEF Baselines
<1>6. /\ task' = [task EXCEPT ![t].status = "pending", ![t].base = base]
      /\ kept' = [kept EXCEPT ![t] = MustKeep(base)]
  BY DEF Checkpoint
<1> HIDE DEF now, base
<1>7. task' = [task EXCEPT ![t] = new]
  BY <1>6
<1>8. /\ new \in TaskStates /\ new.status = "pending" /\ new.base = base /\ new.attempt = task[t].attempt
      /\ new.ws = task[t].ws
  BY <1>2, <1>5 DEF TaskStates, Statuses
<1>9. kept' \in [Tasks -> SUBSET Changes]
  BY <1>5, <1>6, BaseType DEF IInv, TypeOK
<1>10. t \in unreviewed => ~ base.verified
  BY <1>1, <1>5 DEF IInv, Waiting, Waits, InHand, Ready
<1>11. unreviewed \subseteq Tasks
  BY DEF IInv, TypeOK
<1>12. /\ new.attempt >= task[t].attempt /\ new.base.ws = task[t].base.ws
       /\ new.status \notin InHand /\ new.status \notin Pinned /\ new.status \notin Ready \cup {"checking"}
       /\ task[t].status \notin Ready
  BY <1>1, <1>2, <1>5, <1>8 DEF InHand, Pinned, Ready
<1>13. unreviewed' \subseteq Tasks /\ unreviewed' \subseteq unreviewed \cup {t}
  BY <1>1, <1>11
<1>14. t \in unreviewed' => new.status \notin Ready /\ ~ new.base.verified
  BY <1>1, <1>8, <1>10, <1>12
<1> HIDE DEF new, b
<1>15. QED
  BY OneTask, <1>1, <1>7, <1>8, <1>9, <1>12, <1>13, <1>14

LEMMA BeginStep ==
  ASSUME IInv, NEW t \in Tasks, NEW w \in Worktrees, NEW mode \in {"mechanical", "semantic"}, Begin(t, w, mode)
  PROVE  IInv'
<1> DEFINE kept0 == Preserved(t, w)
           heads == Heads(t)
           head == HeadOf(Contract[t].parent)
           new == [task[t] EXCEPT !.status = "adapting", !.mode = mode, !.checks = {}, !.cand = {},
                                  !.attempt = task[t].attempt + 1, !.ws = w, !.parent = head,
                                  !.parents = heads, !.preserved = kept0]
<1>1. /\ task[t].status \in {"pending", "paused"} /\ UNCHANGED <<rest, tree, moves, kept>>
      /\ mode = "mechanical" => task[t].mode # "semantic" /\ task[t].base.verified
      /\ ParentsFresh(t) /\ w \notin Reserved(t) /\ task' = [task EXCEPT ![t] = new]
      /\ unreviewed' = IF mode = "semantic" THEN unreviewed \cup {t} ELSE unreviewed
  BY DEF Begin, rest
<1>2. task[t] \in TaskStates /\ task[t].attempt \in Nat /\ task[t].base \in Baselines /\ TypeOK
  BY TaskType DEF IInv
<1>3. heads \in [Nodes -> Histories] /\ head \in Histories
  BY <1>2, HeadsType, ContractType
<1>4. kept0 \in Histories
  <2>1. tree[w].head \in Histories
    BY <1>2 DEF TypeOK, Trees
  <2>2. Owned(t) \in Histories /\ task[t].checkpoint.head \in Histories
    BY <1>2, TaskType, BaseType DEF Owned, Trees
  <2>3. QED
    BY <2>1, <2>2 DEF Preserved, Histories
<1>5. {} \in SUBSET Checks /\ {} \in Histories /\ "adapting" \in Statuses
  BY DEF Histories, Statuses, Active
<1>6. t \in unreviewed => task[t].mode = "semantic" \/ ~ task[t].base.verified
  BY <1>1 DEF IInv, Waiting, Waits
<1>7. \A d \in Contract[t].deps : task[d].status \in Ready
  BY <1>1, FreshParents
<1>8. unreviewed \subseteq Tasks /\ kept' \in [Tasks -> SUBSET Changes]
  BY <1>1, <1>2 DEF TypeOK
<1> HIDE DEF kept0, heads, head
<1>9. /\ new \in TaskStates /\ new.status = "adapting" /\ new.base = task[t].base /\ new.mode = mode
      /\ new.attempt = task[t].attempt + 1 /\ new.ws = w /\ new.parents = heads
  <2>1. task[t].attempt + 1 \in Nat /\ mode \in {None, "mechanical", "semantic"} /\ w \in Worktrees \cup {None}
    BY <1>2
  <2>2. new \in TaskStates
    BY <1>2, <1>3, <1>4, <1>5, <2>1 DEF TaskStates
  <2>3. QED
    BY <1>2, <2>2 DEF TaskStates
<1>10. /\ new.attempt >= task[t].attempt /\ new.base.ws = task[t].base.ws
       /\ new.status \in InHand /\ new.status \notin Ready \cup {"checking"} /\ task[t].status \notin Ready
       /\ new.parents = Heads(t)
  BY <1>1, <1>2, <1>9 DEF InHand, Ready, heads
<1>11. unreviewed' \subseteq Tasks /\ unreviewed' \subseteq unreviewed \cup {t}
  BY <1>1, <1>8
<1>12. t \in unreviewed' => new.mode = "semantic"
  BY <1>1, <1>6, <1>9
<1>13. task' = [task EXCEPT ![t] = new] /\ UNCHANGED <<rest, tree, moves>>
  BY <1>1
<1>14. new.ws \in Worktrees \ Reserved(t)
  BY <1>1, <1>9
<1> HIDE DEF new
<1>15. QED
  BY OneTask, <1>7, <1>8, <1>9, <1>10, <1>11, <1>12, <1>13, <1>14

LEMMA RecordCandidateStep ==
  ASSUME IInv, NEW t \in Tasks, RecordCandidate(t)
  PROVE  IInv'
<1> DEFINE head == tree[task[t].ws].head
           new == [task[t] EXCEPT !.cand = head, !.checks = {}, !.status = "checking"]
<1>1. /\ task[t].status \in {"adapting", "checking"} /\ UNCHANGED <<rest, tree, moves, kept, unreviewed>>
      /\ ParentsFresh(t) /\ task[t].parents = Heads(t)
      /\ \A n \in Parents(t) : task[t].parents[n] \subseteq head
      /\ task' = [task EXCEPT ![t].cand = head, ![t].checks = {}, ![t].status = "checking"]
  BY DEF RecordCandidate, rest
<1>2. task[t] \in TaskStates /\ task[t].attempt \in Nat /\ TypeOK
  BY TaskType DEF IInv
<1>3. task[t].ws \in Worktrees
  BY <1>1 DEF IInv, Working, InHand
<1>4. head \in Histories
  BY <1>2, <1>3 DEF TypeOK, Trees
<1>5. {} \in SUBSET Checks /\ "checking" \in Statuses
  BY DEF Statuses, Active
<1>6. t \in unreviewed => task[t].mode = "semantic"
  BY <1>1 DEF IInv, Waiting, Waits, InHand
<1>7. \A d \in Contract[t].deps : task[d].status \in Ready
  BY <1>1, FreshParents
<1>8. unreviewed' \subseteq Tasks /\ unreviewed' \subseteq unreviewed \cup {t} /\ kept' \in [Tasks -> SUBSET Changes]
  BY <1>1, <1>2 DEF TypeOK
<1> HIDE DEF head
<1>9. /\ new \in TaskStates /\ new.status = "checking" /\ new.base = task[t].base /\ new.mode = task[t].mode
      /\ new.attempt = task[t].attempt /\ new.ws = task[t].ws /\ new.parents = task[t].parents /\ new.cand = head
  BY <1>2, <1>4, <1>5 DEF TaskStates
<1>10. /\ new.attempt >= task[t].attempt /\ new.base.ws = task[t].base.ws
       /\ new.status \in InHand /\ new.status \notin Ready /\ task[t].status \notin Ready
       /\ new.parents = Heads(t) /\ \A n \in Parents(t) : new.parents[n] \subseteq new.cand
  BY <1>1, <1>2, <1>9 DEF InHand, Ready
<1>11. t \in unreviewed' => new.mode = "semantic"
  BY <1>1, <1>6, <1>9
<1>12. task' = [task EXCEPT ![t] = new] /\ UNCHANGED <<rest, tree, moves>>
  BY <1>1
<1> HIDE DEF new
<1>13. QED
  BY OneTask, <1>3, <1>7, <1>8, <1>9, <1>10, <1>11, <1>12

LEMMA RecordCheckStep ==
  ASSUME IInv, NEW t \in Tasks, NEW name \in Bindings(t), NEW passed \in BOOLEAN, RecordCheck(t, name, passed)
  PROVE  IInv'
<1> DEFINE others == {c \in task[t].checks : c.name # name}
           checks == IF passed THEN others \cup {[name |-> name, head |-> task[t].cand]} ELSE others
           new == [task[t] EXCEPT !.checks = checks]
<1>1. /\ task[t].status = "checking" /\ UNCHANGED <<rest, tree, moves, kept, unreviewed>>
      /\ task' = [task EXCEPT ![t].checks = checks]
  BY DEF RecordCheck, rest
<1>2. task[t] \in TaskStates /\ task[t].attempt \in Nat /\ TypeOK
      /\ task[t].checks \in SUBSET Checks /\ task[t].cand \in Histories
  BY TaskType DEF IInv
<1>3. name \in [kind : {"build", "test"}, of : Tasks]
  BY AncestorsClosed DEF Bindings, ChainTests, Build, Test
<1>4. checks \in SUBSET Checks
  BY <1>2, <1>3 DEF Checks
<1>5. task[t].ws \in Worktrees /\ (t \in unreviewed => task[t].mode = "semantic")
  BY <1>1 DEF IInv, Working, Waiting, Waits, InHand
<1>6. (\A d \in Contract[t].deps : task[d].status \in Ready) /\ task[t].parents = Heads(t)
  BY <1>1 DEF IInv, ParentsPinned
<1>7. \A n \in Parents(t) : task[t].parents[n] \subseteq task[t].cand
  BY <1>1 DEF IInv, Contained
<1>8. unreviewed' \subseteq Tasks /\ unreviewed' \subseteq unreviewed \cup {t} /\ kept' \in [Tasks -> SUBSET Changes]
  BY <1>1, <1>2 DEF TypeOK
<1> HIDE DEF checks
<1>9. /\ new \in TaskStates /\ new.status = "checking" /\ new.base = task[t].base /\ new.mode = task[t].mode
      /\ new.attempt = task[t].attempt /\ new.ws = task[t].ws /\ new.parents = task[t].parents
      /\ new.cand = task[t].cand
  BY <1>1, <1>2, <1>4 DEF TaskStates
<1>10. /\ new.attempt >= task[t].attempt /\ new.base.ws = task[t].base.ws
       /\ new.status \in InHand /\ new.status \notin Ready /\ task[t].status \notin Ready
       /\ new.parents = Heads(t) /\ \A n \in Parents(t) : new.parents[n] \subseteq new.cand
  BY <1>1, <1>2, <1>6, <1>7, <1>9 DEF InHand, Ready
<1>11. t \in unreviewed' => new.mode = "semantic"
  BY <1>1, <1>5, <1>9
<1>12. task' = [task EXCEPT ![t] = new] /\ UNCHANGED <<rest, tree, moves>>
  BY <1>1
<1> HIDE DEF new
<1>13. QED
  BY OneTask, <1>5, <1>6, <1>8, <1>9, <1>10, <1>11, <1>12

LEMMA FinishStep ==
  ASSUME IInv, NEW t \in Tasks, Finish(t)
  PROVE  IInv'
<1>1. task[t].status = "checking" /\ UNCHANGED <<rest, tree, moves, kept>>
  BY DEF Finish, rest
<1>2. task[t] \in TaskStates /\ task[t].attempt \in Nat /\ TypeOK
  BY TaskType DEF IInv
<1>3. task[t].ws \in Worktrees /\ (t \in unreviewed => task[t].mode = "semantic")
  BY <1>1 DEF IInv, Working, Waiting, Waits, InHand
<1>4. PICK status \in Ready : /\ task' = [task EXCEPT ![t].status = status]
                              /\ unreviewed' = unreviewed \ {t}
  <2>1. CASE task[t].mode = "mechanical" /\ task' = [task EXCEPT ![t].status = "mechanical_checked"]
             /\ UNCHANGED unreviewed
    <3>1. unreviewed' = unreviewed \ {t}
      BY <1>3, <2>1
    <3>2. QED
      BY <2>1, <3>1 DEF Ready
  <2>2. CASE task' = [task EXCEPT ![t].status = "complete"] /\ unreviewed' = unreviewed \ {t}
    BY <2>2 DEF Ready
  <2>3. QED
    BY <2>1, <2>2 DEF Finish
<1> DEFINE new == [task[t] EXCEPT !.status = status]
<1>5. (\A d \in Contract[t].deps : task[d].status \in Ready) /\ task[t].parents = Heads(t)
  BY <1>1 DEF IInv, ParentsPinned
<1>6. \A n \in Parents(t) : task[t].parents[n] \subseteq task[t].cand
  BY <1>1 DEF IInv, Contained
<1>7. /\ unreviewed' \subseteq Tasks /\ unreviewed' \subseteq unreviewed \cup {t} /\ t \notin unreviewed'
      /\ kept' \in [Tasks -> SUBSET Changes]
  BY <1>1, <1>2, <1>4 DEF TypeOK
<1>8. /\ new \in TaskStates /\ new.status \in Ready /\ new.base = task[t].base
      /\ new.attempt = task[t].attempt /\ new.ws = task[t].ws /\ new.parents = task[t].parents
      /\ new.cand = task[t].cand
  BY <1>2 DEF TaskStates, Statuses
<1>9. /\ new.attempt >= task[t].attempt /\ new.base.ws = task[t].base.ws /\ task[t].status \notin Ready
      /\ new.parents = Heads(t) /\ \A n \in Parents(t) : new.parents[n] \subseteq new.cand
  BY <1>1, <1>2, <1>5, <1>6, <1>8 DEF Ready
<1>10. task' = [task EXCEPT ![t] = new] /\ UNCHANGED <<rest, tree, moves>>
  BY <1>1, <1>4
<1> HIDE DEF new
<1>11. QED
  BY OneTask, <1>3, <1>5, <1>7, <1>8, <1>9, <1>10

LEMMA PauseStep ==
  ASSUME IInv, NEW t \in Tasks, Pause(t)
  PROVE  IInv'
<1> DEFINE now == tree[task[t].ws]
           new == [task[t] EXCEPT !.status = "paused", !.checkpoint = now]
<1>1. /\ task[t].status \in {"adapting", "checking"} /\ UNCHANGED <<rest, tree, moves, unreviewed>>
      /\ task' = [task EXCEPT ![t].status = "paused", ![t].checkpoint = now]
      /\ kept' = [kept EXCEPT ![t] = @ \cup ChangesOf(now.head \ task[t].base.base) \cup now.dirty]
  BY DEF Pause, rest
<1>2. task[t] \in TaskStates /\ task[t].attempt \in Nat /\ TypeOK
  BY TaskType DEF IInv
<1>3. task[t].ws \in Worktrees /\ (t \in unreviewed => task[t].mode = "semantic")
  BY <1>1 DEF IInv, Working, Waiting, Waits, InHand
<1>4. now \in Trees
  BY <1>2, <1>3 DEF TypeOK
<1>5. kept' \in [Tasks -> SUBSET Changes]
  <2>1. ChangesOf(now.head \ task[t].base.base) \subseteq Changes /\ now.dirty \subseteq Changes
    BY <1>4 DEF ChangesOf, Trees, Histories, Commits
  <2>2. QED
    BY <1>1, <1>2, <2>1 DEF TypeOK
<1>6. unreviewed' \subseteq Tasks /\ unreviewed' \subseteq unreviewed \cup {t}
  BY <1>1, <1>2 DEF TypeOK
<1> HIDE DEF now
<1>7. /\ new \in TaskStates /\ new.status = "paused" /\ new.base = task[t].base /\ new.mode = task[t].mode
      /\ new.attempt = task[t].attempt /\ new.ws = task[t].ws
  BY <1>2, <1>4 DEF TaskStates, Statuses
<1>8. /\ new.attempt >= task[t].attempt /\ new.base.ws = task[t].base.ws
      /\ new.status \in InHand /\ new.status \notin Pinned /\ new.status \notin Ready \cup {"checking"}
      /\ task[t].status \notin Ready /\ new.status \notin Ready
  BY <1>1, <1>2, <1>7 DEF InHand, Ready, Pinned
<1>9. t \in unreviewed' => new.mode = "semantic"
  BY <1>1, <1>3, <1>7
<1>10. task' = [task EXCEPT ![t] = new] /\ UNCHANGED <<rest, tree, moves>>
  BY <1>1
<1> HIDE DEF new
<1>11. QED
  BY OneTask, <1>3, <1>5, <1>6, <1>7, <1>8, <1>9, <1>10

----------------------------------------------------------------------------
(* Steps that leave every task alone.                                      *)

LEMMA QuietStep ==
  ASSUME IInv, UNCHANGED <<task, source, epoch, unreviewed>>, TypeOK', IsFiniteSet(runs'), Dated',
         \A i \in DOMAIN queue' :
           \/ \E j \in DOMAIN queue : queue'[i].ws = queue[j].ws
           \/ queue'[i].ws \in Worktrees \ Occupied
  PROVE  IInv'
<1>1. task' = task /\ source' = source /\ unreviewed' = unreviewed
  OBVIOUS
<1>2. Working' /\ Contained' /\ Waiting'
  BY <1>1 DEF IInv, Working, Contained, Waiting, Waits
<1>3. ParentsPinned'
  BY <1>1 DEF IInv, ParentsPinned, Heads, HeadOf
<1>4. WorktreesApart'
  <2>1. ASSUME NEW t \in Tasks, NEW i \in DOMAIN queue'
        PROVE  queue'[i].ws \in Worktrees \ {task[t].base.ws, Contract[t].baseline.ws, task[t].ws}
    <3>1. CASE \E j \in DOMAIN queue : queue'[i].ws = queue[j].ws
      BY <3>1 DEF IInv, WorktreesApart
    <3>2. CASE queue'[i].ws \in Worktrees \ Occupied
      BY <3>2 DEF Occupied
    <3>3. QED
      BY <2>1, <3>1, <3>2
  <2>2. WorktreesApart
    BY DEF IInv
  <2>3. QED
    BY ONLY <1>1, <2>1, <2>2 DEF WorktreesApart
<1>5. QED
  BY <1>2, <1>3, <1>4 DEF IInv

LEMMA GitPreserves ==
  ASSUME IInv, NEW w \in Worktrees, NEW t \in Trees, Git(w, t),
         moves' = moves \/ (moves' = moves + 1 /\ moves + Cardinality(runs) < MaxOutside)
  PROVE  IInv'
<1>1. UNCHANGED <<task, source, queue, epoch, cancelled, runs, kept, unreviewed>> /\ tree' = [tree EXCEPT ![w] = t]
  BY DEF Git, journal
<1>2. TypeOK /\ IsFiniteSet(runs) /\ Dated
  BY DEF IInv
<1>3. tree' \in [Worktrees -> Trees]
  BY <1>1, <1>2 DEF TypeOK
<1>4. moves' \in Nat /\ moves' + Cardinality(runs) <= MaxOutside
  <2>1. Cardinality(runs) \in Nat /\ MaxOutside \in Nat /\ moves \in Nat /\ moves + Cardinality(runs) <= MaxOutside
    BY <1>2, ChainAssumption, FS_CardinalityType DEF TypeOK
  <2>2. QED
    BY <2>1
<1>5. TypeOK'
  BY <1>1, <1>2, <1>3, <1>4 DEF TypeOK
<1>6. Dated' /\ IsFiniteSet(runs')
  BY <1>1, <1>2 DEF Dated
<1>7. QED
  BY <1>1, <1>5, <1>6, QuietStep

LEMMA GitPreservesInvariant ==
  ASSUME IInv, GitStep
  PROVE  IInv'
<1>1. tree \in [Worktrees -> Trees]
  BY DEF IInv, TypeOK
<1>2. Written \subseteq Worktrees /\ Switched \subseteq Worktrees \X Worktrees /\ Edits \subseteq Changes
  BY ChainAssumption
<1>3. ASSUME NEW w \in Written, NEW x \in Edits, Edit(w, x) PROVE IInv'
  <2> DEFINE t == [tree[w] EXCEPT !.dirty = @ \cup ({x} \ Manifest(tree[w]))]
  <2>1. w \in Worktrees /\ t \in Trees
    BY <1>1, <1>2, <1>3 DEF Trees
  <2>2. Git(w, t) /\ moves' = moves + 1 /\ moves + Cardinality(runs) < MaxOutside
    BY <1>3 DEF Edit, Move
  <2> HIDE DEF t
  <2>3. QED
    BY <2>1, <2>2, GitPreserves
<1>4. ASSUME NEW w \in Written, NEW k \in Copies, Commit(w, k) PROVE IInv'
  <2> DEFINE made == [change : tree[w].dirty, copy : {k}]
             t == [head |-> tree[w].head \cup made, dirty |-> {}]
  <2>1. tree[w] \in Trees /\ w \in Worktrees
    BY <1>1, <1>2
  <2>2. made \subseteq Commits
    BY <2>1 DEF Trees, Commits
  <2>3. t \in Trees
    BY <2>1, <2>2 DEF Trees, Histories
  <2>4. Git(w, t) /\ moves' = moves
    BY <1>4 DEF Commit
  <2> HIDE DEF t
  <2>5. QED
    BY <2>1, <2>3, <2>4, GitPreserves
<1>5. ASSUME NEW m \in Switched, Switch(m[1], m[2]) PROVE IInv'
  <2> DEFINE t == [head |-> tree[m[2]].head, dirty |-> {}]
  <2>1. m[1] \in Worktrees /\ m[2] \in Worktrees
    BY <1>2
  <2>2. t \in Trees
    BY <1>1, <2>1 DEF Trees
  <2>3. Git(m[1], t) /\ moves' = moves + 1 /\ moves + Cardinality(runs) < MaxOutside
    BY <1>5 DEF Switch, Move
  <2> HIDE DEF t
  <2>4. QED
    BY <2>1, <2>2, <2>3, GitPreserves
<1>6. QED
  BY <1>3, <1>4, <1>5 DEF GitStep

LEMMA AbandonStep ==
  ASSUME IInv, Abandon
  PROVE  IInv'
<1>1. UNCHANGED <<task, source, queue, epoch, tree, runs, moves, kept, unreviewed>> /\ cancelled' = TRUE
  BY DEF Abandon
<1>2. TypeOK' /\ Dated' /\ IsFiniteSet(runs')
  BY <1>1 DEF IInv, TypeOK, Dated
<1>3. QED
  BY <1>1, <1>2, QuietStep

LEMMA QueueSourceStep ==
  ASSUME IInv, NEW w \in Worktrees, QueueSource(w)
  PROVE  IInv'
<1> DEFINE new == [ws |-> w, head |-> tree[w].head]
<1>1. /\ UNCHANGED <<task, source, epoch, cancelled, tree, runs, moves, kept, unreviewed>>
      /\ epoch + Len(queue) < MaxEpoch /\ w \notin Occupied /\ queue' = Append(queue, new)
  BY DEF QueueSource
<1>2. TypeOK /\ IsFiniteSet(runs) /\ Dated /\ queue \in Seq(Sources) /\ epoch \in Nat /\ MaxEpoch \in Nat
  BY ChainAssumption DEF IInv, TypeOK
<1>3. new \in Sources
  BY <1>2 DEF TypeOK, Sources, Trees
<1> HIDE DEF new
<1>4. /\ queue' \in Seq(Sources) /\ Len(queue') = Len(queue) + 1 /\ Len(queue) \in Nat
      /\ DOMAIN queue = 1 .. Len(queue) /\ DOMAIN queue' = 1 .. Len(queue) + 1
      /\ \A i \in 1 .. Len(queue) : queue'[i] = queue[i]
      /\ queue'[Len(queue) + 1] = new
  BY <1>1, <1>2, <1>3
<1>5. epoch + Len(queue') <= MaxEpoch
  BY <1>1, <1>2, <1>4
<1>6. TypeOK'
  BY <1>1, <1>2, <1>4, <1>5 DEF TypeOK
<1>7. Dated' /\ IsFiniteSet(runs')
  BY <1>1, <1>2 DEF Dated
<1>8. ASSUME NEW i \in DOMAIN queue'
      PROVE  \/ \E j \in DOMAIN queue : queue'[i].ws = queue[j].ws
             \/ queue'[i].ws \in Worktrees \ Occupied
  <2>1. CASE i \in 1 .. Len(queue)
    BY <1>4, <2>1
  <2>2. CASE i = Len(queue) + 1
    BY <1>1, <1>4, <2>2 DEF new
  <2>3. QED
    BY <1>4, <1>8, <2>1, <2>2
<1>9. QED
  BY <1>1, <1>6, <1>7, <1>8, QuietStep

LEMMA CreateRunStep ==
  ASSUME IInv, NEW t \in Tasks, CreateRun(t)
  PROVE  IInv'
<1> DEFINE new == [ref |-> Reference(t), phase |-> "open", result |-> NoTree]
<1>1. /\ UNCHANGED <<task, source, queue, epoch, cancelled, tree, moves, kept, unreviewed>>
      /\ task[t].status \in {"adapting", "checking"} /\ moves + Cardinality(runs) < MaxOutside
      /\ runs' = runs \cup {new}
  BY DEF CreateRun, Authorised, journal
<1>2. TypeOK /\ IsFiniteSet(runs) /\ Dated /\ task[t].ws \in Worktrees
  BY <1>1 DEF IInv, Working, InHand
<1>3. epoch \in 1 .. MaxEpoch
  <2>1. epoch \in Nat \ {0} /\ epoch + Len(queue) <= MaxEpoch /\ Len(queue) \in Nat /\ MaxEpoch \in Nat
    BY <1>2, ChainAssumption, LenProperties DEF TypeOK
  <2>2. QED
    BY <2>1
<1>4. Reference(t) \in References /\ Reference(t).epoch = epoch /\ Reference(t).attempt = task[t].attempt
      /\ Reference(t).task = t
  BY <1>2, <1>3, TaskType DEF Reference, References
<1>5. new \in [ref : References, phase : {"open", "closing", "complete"}, result : Trees] /\ new.ref = Reference(t)
  BY <1>4 DEF NoTree, Trees, Histories
<1> HIDE DEF new
<1>6. /\ IsFiniteSet(runs') /\ Cardinality(runs') <= Cardinality(runs) + 1
      /\ Cardinality(runs) \in Nat /\ Cardinality(runs') \in Nat
  BY <1>1, <1>2, FS_AddElement, FS_CardinalityType
<1>7. moves + Cardinality(runs') <= MaxOutside
  BY <1>1, <1>2, <1>6, ChainAssumption DEF TypeOK
<1>8. TypeOK'
  BY <1>1, <1>2, <1>5, <1>7 DEF TypeOK
<1>9. Dated'
  BY <1>1, <1>2, <1>4, <1>5, TaskType DEF Dated
<1>10. QED
  BY <1>1, <1>6, <1>8, <1>9, QuietStep

LEMMA RunPreserves ==
  ASSUME IInv, NEW r \in runs, RunStep(r)
  PROVE  IInv'
<1>1. TypeOK /\ IsFiniteSet(runs) /\ Dated
  BY DEF IInv
<1>2. /\ UNCHANGED <<task, source, queue, epoch, cancelled, tree, moves, kept, unreviewed>>
      /\ \E phase \in {"open", "closing", "complete"}, result \in Trees : Becomes(r, phase, result)
  <2>1. r.ref \in References /\ r.result \in Trees
    BY <1>1 DEF TypeOK
  <2>2. tree[r.ref.ws] \in Trees /\ NoTree \in Trees
    BY <1>1, <2>1 DEF TypeOK, References, NoTree, Trees, Histories
  <2>3. CASE CloseRun(r)
    BY <2>2, <2>3 DEF CloseRun, journal
  <2>4. CASE SaveRun(r)
    BY <2>1, <2>4 DEF SaveRun, journal
  <2>5. CASE DropClose(r)
    BY <2>2, <2>5 DEF DropClose, journal
  <2>6. QED
    BY <2>3, <2>4, <2>5 DEF RunStep
<1>3. PICK phase \in {"open", "closing", "complete"}, result \in Trees : Becomes(r, phase, result)
  BY <1>2
<1> DEFINE new == [r EXCEPT !.phase = phase, !.result = result]
<1>4. runs' = (runs \ {r}) \cup {new}
  BY <1>3 DEF Becomes
<1>5. new \in [ref : References, phase : {"open", "closing", "complete"}, result : Trees] /\ new.ref = r.ref
  BY <1>1 DEF TypeOK
<1> HIDE DEF new
<1>6. /\ IsFiniteSet(runs') /\ Cardinality(runs') <= Cardinality(runs)
      /\ Cardinality(runs) \in Nat /\ Cardinality(runs') \in Nat
  <2>1. /\ IsFiniteSet(runs \ {r}) /\ Cardinality(runs \ {r}) = Cardinality(runs) - 1
        /\ Cardinality(runs) \in Nat /\ Cardinality(runs \ {r}) \in Nat
    BY <1>1, FS_RemoveElement, FS_CardinalityType
  <2> DEFINE others == runs \ {r}
  <2> HIDE DEF others
  <2>2. IsFiniteSet(others) /\ Cardinality(others) \in Nat /\ runs' = others \cup {new}
        /\ Cardinality(others) + 1 = Cardinality(runs)
    BY <1>4, <2>1 DEF others
  <2>3. IsFiniteSet(runs') /\ (Cardinality(runs') = Cardinality(others) \/ Cardinality(runs') = Cardinality(others) + 1)
    BY <2>2, FS_AddElement
  <2>4. QED
    BY <2>1, <2>2, <2>3
<1>7. moves + Cardinality(runs') <= MaxOutside
  BY <1>1, <1>6, ChainAssumption DEF TypeOK
<1>8. TypeOK'
  <2>1. runs' \subseteq [ref : References, phase : {"open", "closing", "complete"}, result : Trees]
    BY <1>1, <1>4, <1>5 DEF TypeOK
  <2>2. QED
    BY <1>1, <1>2, <1>7, <2>1 DEF TypeOK
<1>9. Dated'
  BY <1>1, <1>2, <1>4, <1>5 DEF Dated
<1>10. QED
  BY <1>2, <1>6, <1>8, <1>9, QuietStep

----------------------------------------------------------------------------
(* Steps of many tasks.                                                    *)

(* A task gives up its worktree, which may become its new baseline.        *)
LEMMA ApartMoves ==
  ASSUME WorktreesApart, NEW Sourced,
         Sourced \subseteq {source.ws} \cup {queue[i].ws : i \in DOMAIN queue},
         {source.ws}' \cup {queue[i].ws : i \in DOMAIN queue}' \subseteq Sourced,
         \A t \in Tasks : task[t].base.ws \in Worktrees,
         \A t \in Tasks :
           \/ task'[t].ws = task[t].ws /\ task'[t].base.ws = task[t].base.ws
           \/ task'[t].ws = None /\ task'[t].base.ws = task[t].base.ws
           \/ task'[t].ws = None /\ task'[t].base.ws = task[t].ws /\ task[t].ws \in Worktrees
  PROVE  WorktreesApart'
<1>1. None \notin Worktrees /\ \A t \in Tasks : Contract[t].baseline.ws \in Worktrees
  BY ChainAssumption, ContractType, BaseType
<1>2. ASSUME NEW t \in Tasks
      PROVE  /\ Sourced \subseteq Worktrees \ ({task'[t].base.ws, Contract[t].baseline.ws} \cup {task'[t].ws})
             /\ task'[t].ws \notin {task'[t].base.ws, Contract[t].baseline.ws}
  BY <1>1, <1>2 DEF WorktreesApart
<1>3. ASSUME NEW t \in Tasks, NEW u \in Tasks \ {t}
      PROVE  /\ task'[u].ws \notin {task'[t].base.ws, Contract[t].baseline.ws}
             /\ task'[u].ws = task'[t].ws => task'[t].ws = None
             /\ task'[u].base.ws # task'[t].base.ws
  <2>1. /\ task[t].ws \notin {task[u].base.ws, Contract[u].baseline.ws}
        /\ task[u].ws \notin {task[t].base.ws, Contract[t].baseline.ws}
        /\ task[u].ws = task[t].ws => task[t].ws = None
        /\ task[u].base.ws # task[t].base.ws
    BY <1>3 DEF WorktreesApart
  <2>2. QED
    BY <1>1, <1>3, <2>1
<1>4. QED
  BY <1>2, <1>3 DEF WorktreesApart

LEMMA ReopenStep ==
  ASSUME IInv, NEW t \in Tasks, Reopen(t)
  PROVE  IInv'
<1> DEFINE affected == {t} \cup Descendants(t)
           finished == {u \in affected : task[u].status \in Ready}
<1>1. /\ UNCHANGED <<source, queue, epoch, cancelled, tree, runs, moves, unreviewed>>
      /\ \A u \in affected : task[u].status \notin Active
      /\ task' = [u \in Tasks |-> IF u \in affected THEN Reopened(u) ELSE task[u]]
      /\ kept' = [u \in Tasks |-> IF u \in finished THEN kept[u] \cup MustKeep(CompletedBaseline(u))
                                  ELSE kept[u]]
  BY DEF Reopen
<1>2. TypeOK /\ IsFiniteSet(runs) /\ Working
  BY DEF IInv
<1>3. affected \subseteq Tasks
  BY DEF Descendants
<1> HIDE DEF affected
<1>4. ASSUME NEW u \in Tasks, task[u].status \in Ready
      PROVE  /\ Reopened(u) \in TaskStates /\ Reopened(u).status = "pending" /\ Reopened(u).ws = None
             /\ Reopened(u).base.ws = task[u].ws /\ task[u].ws \in Worktrees
             /\ Reopened(u).attempt = task[u].attempt /\ CompletedBaseline(u) \in Baselines
  <2>1. task[u].attempt \in Nat /\ CompletedBaseline(u) \in Baselines /\ CompletedBaseline(u).ws = task[u].ws
        /\ task[u].ws \in Worktrees
    BY <1>2, <1>4, TaskType, BaselineTypes DEF InHand, Working
  <2>2. Reopened(u) = NewTask("pending", task[u].attempt, CompletedBaseline(u))
    BY <1>4 DEF Reopened
  <2> DEFINE baseline == CompletedBaseline(u)
             new == NewTask("pending", task[u].attempt, baseline)
  <2>3. "pending" \in Statuses /\ baseline \in Baselines
    BY <2>1 DEF Statuses
  <2> HIDE DEF baseline
  <2>4. /\ new \in TaskStates /\ new.status = "pending" /\ new.ws = None
        /\ new.attempt = task[u].attempt /\ new.base = baseline
    BY <2>1, <2>3, NewTaskType
  <2> HIDE DEF new
  <2>5. Reopened(u) = new /\ new.base = CompletedBaseline(u)
    BY <2>2, <2>4 DEF new, baseline
  <2>6. QED
    BY <2>1, <2>4, <2>5
<1>5. ASSUME NEW u \in Tasks, task[u].status = "paused"
      PROVE  /\ Reopened(u) \in TaskStates /\ Reopened(u).status = "paused" /\ Reopened(u).ws = task[u].ws
             /\ Reopened(u).base = task[u].base /\ Reopened(u).attempt = task[u].attempt
             /\ Reopened(u).mode = task[u].mode
  <2>1. Reopened(u) = [task[u] EXCEPT !.checks = {}, !.cand = {}]
    BY <1>5 DEF Reopened, Ready
  <2>2. task[u] \in TaskStates /\ {} \in SUBSET Checks /\ {} \in Histories
    BY <1>2, TaskType DEF Histories
  <2>3. QED
    BY <1>5, <2>1, <2>2 DEF TaskStates
<1>6. ASSUME NEW u \in Tasks, task[u].status \notin Ready, task[u].status # "paused"
      PROVE  Reopened(u) = task[u]
  BY <1>6 DEF Reopened
<1>7. \A u \in Tasks : /\ task'[u] \in TaskStates /\ task'[u].attempt = task[u].attempt
                       /\ u \notin affected => task'[u] = task[u]
                       /\ u \in affected => task'[u].status \notin Pinned
                       /\ task[u].status \notin Ready =>
                            /\ task'[u].status = task[u].status /\ task'[u].mode = task[u].mode
                            /\ task'[u].ws = task[u].ws /\ task'[u].base = task[u].base
                       /\ task'[u].status \in InHand => task'[u].ws \in Worktrees
                       /\ \/ task'[u].ws = task[u].ws /\ task'[u].base.ws = task[u].base.ws
                          \/ task'[u].ws = None /\ task'[u].base.ws = task[u].ws /\ task[u].ws \in Worktrees
  <2> TAKE u \in Tasks
  <2>1. task[u] \in TaskStates /\ (task[u].status \in InHand => task[u].ws \in Worktrees)
    BY <1>2, TaskType DEF Working
  <2>2. CASE u \notin affected
    BY <1>1, <2>1, <2>2
  <2>3. CASE u \in affected
    <3>1. task'[u] = Reopened(u) /\ task[u].status \notin Active
      BY <1>1, <2>3
    <3>2. CASE task[u].status \in Ready
      BY <1>4, <2>3, <3>1, <3>2 DEF InHand, Pinned, Ready
    <3>3. CASE task[u].status = "paused"
      BY <1>5, <2>1, <2>3, <3>1, <3>3 DEF InHand, Pinned, Ready
    <3>4. CASE task[u].status \notin Ready /\ task[u].status # "paused"
      BY <1>6, <2>1, <2>3, <3>1, <3>4 DEF InHand, Pinned, Ready, Active
    <3>5. QED
      BY <3>2, <3>3, <3>4
  <2>4. QED
    BY <2>2, <2>3
<1>8. TypeOK'
  <2>1. task' \in [Tasks -> TaskStates]
    BY <1>1, <1>7
  <2>2. kept' \in [Tasks -> SUBSET Changes]
    <3>1. \A u \in finished : MustKeep(CompletedBaseline(u)) \in SUBSET Changes
      BY <1>3, <1>4, BaseType
    <3>2. kept \in [Tasks -> SUBSET Changes]
      BY <1>2 DEF TypeOK
    <3> HIDE DEF finished
    <3>3. QED
      BY <1>1, <3>1, <3>2
  <2>3. QED
    BY <1>1, <1>2, <2>1, <2>2 DEF TypeOK
<1>9. Working'
  BY <1>7 DEF Working
<1>10. Contained'
  BY <1>7 DEF IInv, Contained, Pinned
<1>11. Dated'
  <2>1. \A r \in runs : r.ref.task \in Tasks
    BY <1>2 DEF TypeOK, References
  <2>2. QED
    BY <1>1, <1>7, <2>1 DEF IInv, Dated
<1>12. Waiting'
  BY <1>1, <1>2, <1>7 DEF IInv, Waiting, Waits, TypeOK
<1>13. ParentsPinned'
  <2>1. ASSUME NEW u \in Tasks, task'[u].status \in Pinned
        PROVE  (\A d \in Contract[u].deps : task'[d].status \in Ready) /\ task'[u].parents = Heads(u)'
    <3>1. u \notin affected /\ task'[u] = task[u]
      BY <1>7, <2>1
    <3>2. (\A d \in Contract[u].deps : task[d].status \in Ready) /\ task[u].parents = Heads(u)
      BY <2>1, <3>1 DEF IInv, ParentsPinned, Pinned
    <3>3. Contract[u].deps \subseteq Tasks \ affected
      BY <3>1, ContractType, DescendantsClosed DEF affected
    <3>4. \A d \in Contract[u].deps : task'[d] = task[d]
      BY <1>7, <3>3
    <3>5. Heads(u)' = Heads(u)
      <4>1. ASSUME NEW n \in Parents(u) PROVE HeadOf(n)' = HeadOf(n)
        <5>1. CASE n = Source
          BY <1>1, <5>1 DEF HeadOf
        <5>2. CASE n # Source
          BY <3>4, <5>2 DEF HeadOf, Parents
        <5>3. QED
          BY <5>1, <5>2
      <4>2. QED
        BY <4>1 DEF Heads, Parents
    <3>6. QED
      BY <3>1, <3>2, <3>4, <3>5
  <2>2. QED
    BY <2>1 DEF ParentsPinned, Pinned
<1>14. WorktreesApart'
  <2>1. WorktreesApart /\ \A u \in Tasks : task[u].base.ws \in Worktrees
    BY <1>2, TaskType, BaseType DEF IInv
  <2> DEFINE Sourced == {source.ws} \cup {queue[i].ws : i \in DOMAIN queue}
  <2>2. {source.ws}' \cup {queue[i].ws : i \in DOMAIN queue}' \subseteq Sourced
    BY <1>1
  <2> HIDE DEF Sourced
  <2>3. Sourced \subseteq {source.ws} \cup {queue[i].ws : i \in DOMAIN queue}
    BY DEF Sourced
  <2>4. QED
    BY <1>7, <2>1, <2>2, <2>3, ApartMoves
<1>15. QED
  BY <1>1, <1>2, <1>8, <1>9, <1>10, <1>11, <1>12, <1>13, <1>14 DEF IInv

LEMMA AdvanceStep ==
  ASSUME IInv, Advance
  PROVE  IInv'
<1>1. /\ queue # << >> /\ \A t \in Tasks : task[t].status \notin Active
      /\ source' = Head(queue) /\ queue' = Tail(queue) /\ epoch' = epoch + 1
      /\ task' = [t \in Tasks |-> NewTask("pending", 0, NextBaseline(t))]
      /\ kept' = [t \in Tasks |-> MustKeep(NextBaseline(t))]
      /\ unreviewed' = unreviewed \cup {t \in Tasks : task[t].status = "paused"}
      /\ UNCHANGED <<cancelled, tree, runs, moves>>
  BY DEF Advance
<1>2. TypeOK /\ IsFiniteSet(runs) /\ Working
  BY DEF IInv
<1>3. \A t \in Tasks : /\ NextBaseline(t) \in Baselines
                       /\ \/ NextBaseline(t).ws = task[t].base.ws
                          \/ NextBaseline(t).ws = task[t].ws /\ task[t].ws \in Worktrees
                       /\ task[t].status = "paused" => ~ NextBaseline(t).verified
                       /\ task[t].status \notin InHand => NextBaseline(t) = task[t].base
  <2> TAKE t \in Tasks
  <2>1. CASE task[t].status = "paused"
    BY <1>2, <2>1, BaselineTypes DEF NextBaseline, InHand, Working
  <2>2. CASE task[t].status \in Ready
    BY <1>2, <2>2, BaselineTypes DEF NextBaseline, InHand, Working, Ready
  <2>3. CASE task[t].status \notin Ready /\ task[t].status # "paused"
    BY <1>2, <2>3, TaskType DEF NextBaseline
  <2>4. QED
    BY <2>1, <2>2, <2>3 DEF InHand, Ready
<1>4. \A t \in Tasks : /\ task'[t] \in TaskStates /\ task'[t].status = "pending" /\ task'[t].ws = None
                       /\ task'[t].base = NextBaseline(t)
  BY <1>1, <1>3, NewTaskType DEF Statuses
<1>5. /\ queue' \in Seq(Sources) /\ source' \in Sources /\ epoch' \in Nat \ {0} /\ epoch' + Len(queue') <= MaxEpoch
      /\ source' = queue[1] /\ \A i \in DOMAIN queue' : i + 1 \in DOMAIN queue /\ queue'[i] = queue[i + 1]
      /\ 1 \in DOMAIN queue
  <2>1. queue \in Seq(Sources) /\ epoch \in Nat \ {0} /\ epoch + Len(queue) <= MaxEpoch /\ MaxEpoch \in Nat
    BY <1>2, ChainAssumption DEF TypeOK
  <2>2. /\ Head(queue) \in Sources /\ Head(queue) = queue[1] /\ Tail(queue) \in Seq(Sources)
        /\ Len(queue) \in Nat \ {0} /\ Len(Tail(queue)) = Len(queue) - 1 /\ DOMAIN queue = 1 .. Len(queue)
        /\ DOMAIN Tail(queue) = 1 .. Len(queue) - 1
        /\ \A i \in 1 .. Len(queue) - 1 : Tail(queue)[i] = queue[i + 1]
    BY <1>1, <2>1
  <2>3. QED
    BY <1>1, <2>1, <2>2
<1>6. TypeOK'
  <2>1. task' \in [Tasks -> TaskStates]
    BY <1>1, <1>4
  <2>2. kept' \in [Tasks -> SUBSET Changes]
    BY <1>1, <1>3, BaseType
  <2>3. unreviewed' \subseteq Tasks
    BY <1>1, <1>2 DEF TypeOK
  <2>4. QED
    BY <1>1, <1>2, <1>5, <2>1, <2>2, <2>3 DEF TypeOK
<1>7. Working' /\ Contained' /\ ParentsPinned'
  BY <1>4 DEF Working, Contained, ParentsPinned, InHand, Ready
<1>8. Dated'
  <2>1. ASSUME NEW r \in runs PROVE r.ref.epoch < epoch + 1
    <3>1. r.ref.epoch \in Nat /\ epoch \in Nat
      BY <1>2, ChainAssumption DEF TypeOK, References
    <3>2. r.ref.epoch < epoch \/ r.ref.epoch = epoch
      BY DEF IInv, Dated
    <3>3. QED
      BY <3>1, <3>2
  <2>2. QED
    BY <1>1, <2>1 DEF Dated
<1>9. Waiting'
  <2>1. ASSUME NEW t \in unreviewed' PROVE ~ NextBaseline(t).verified /\ t \in Tasks
    <3>1. CASE task[t].status = "paused"
      BY <1>1, <1>2, <1>3, <2>1, <3>1 DEF TypeOK
    <3>2. CASE task[t].status # "paused"
      <4>1. t \in unreviewed /\ t \in Tasks
        BY <1>1, <1>2, <2>1, <3>2 DEF TypeOK
      <4>2. task[t].status \notin InHand /\ ~ task[t].base.verified
        BY <1>1, <3>2, <4>1 DEF IInv, Waiting, Waits, InHand, Active, Ready
      <4>3. QED
        BY <1>3, <4>1, <4>2
    <3>3. QED
      BY <3>1, <3>2
  <2>2. QED
    BY <1>4, <2>1 DEF Waiting, Waits, InHand, Ready
<1>10. WorktreesApart'
  <2>1. WorktreesApart /\ \A u \in Tasks : task[u].base.ws \in Worktrees
    BY <1>2, TaskType, BaseType DEF IInv
  <2> DEFINE Sourced == {source.ws} \cup {queue[i].ws : i \in DOMAIN queue}
  <2>2. {source.ws}' \cup {queue[i].ws : i \in DOMAIN queue}' \subseteq Sourced
    BY <1>5
  <2> HIDE DEF Sourced
  <2>3. Sourced \subseteq {source.ws} \cup {queue[i].ws : i \in DOMAIN queue}
    BY DEF Sourced
  <2>4. QED
    BY <1>3, <1>4, <2>1, <2>2, <2>3, ApartMoves
<1>11. QED
  BY <1>1, <1>2, <1>6, <1>7, <1>8, <1>9, <1>10 DEF IInv

----------------------------------------------------------------------------
(* The theorems.                                                           *)

LEMMA StepKeepsInvariant ==
  ASSUME IInv, [Next]_vars
  PROVE  IInv'
<1>1. CASE UNCHANGED vars
  <2>1. /\ UNCHANGED <<task, source, queue, epoch, cancelled, tree, runs, moves, kept, unreviewed>>
        /\ TypeOK /\ IsFiniteSet(runs) /\ Dated
    BY <1>1 DEF vars, IInv
  <2>2. TypeOK' /\ IsFiniteSet(runs') /\ Dated'
    BY <2>1 DEF TypeOK, Dated
  <2>3. QED
    BY <2>1, <2>2, QuietStep
<1>2. ASSUME NEW t \in Tasks, TaskStep(t) PROVE IInv'
  BY <1>2, CheckpointStep, RecordCandidateStep, FinishStep, PauseStep, ReopenStep, CreateRunStep, BeginStep,
     RecordCheckStep DEF TaskStep
<1>3. CASE Next
  BY <1>2, <1>3, GitPreservesInvariant, AbandonStep, AdvanceStep, QueueSourceStep, RunPreserves DEF Next
<1>4. QED
  BY <1>1, <1>3

LEMMA InvariantHolds == Spec => []IInv
<1>1. Init => IInv
  BY InitInvariant
<1>2. IInv /\ [Next]_vars => IInv'
  BY StepKeepsInvariant
<1>3. QED
  BY <1>1, <1>2, PTL DEF Spec

(* Every variable keeps its type, and the bounds on epochs and runs hold.  *)
THEOREM ChainTypeCorrect == Spec => []TypeOK
<1>1. IInv => TypeOK
  BY DEF IInv
<1>2. QED
  BY <1>1, InvariantHolds, PTL

(* While a task is in flight or finished its dependencies are finished, with the heads
   it was pinned to: no order of reopening, pausing and advancing strands a descendant. *)
THEOREM ParentsAlwaysPinned == Spec => []ParentsPinned
<1>1. IInv => ParentsPinned
  BY DEF IInv
<1>2. QED
  BY <1>1, InvariantHolds, PTL

(* No request makes two tasks share a worktree, or work in a baseline or a source. *)
THEOREM WorktreesAlwaysApart == Spec => []WorktreesApart
<1>1. IInv => WorktreesApart
  BY DEF IInv
<1>2. QED
  BY <1>1, InvariantHolds, PTL

(* Semantic or unfinished work never ends as mechanical: the only way out of waiting is a review. *)
THEOREM ReviewNeverSkipped == Spec => []ReviewNotSkipped
<1>1. IInv => ReviewNotSkipped
  BY DEF IInv, Waiting, Waits, ReviewNotSkipped, Ready
<1>2. QED
  BY <1>1, InvariantHolds, PTL

(* Only begin starts an attempt, with a number the task has not had in this epoch. *)
LEMMA NewAttempt ==
  ASSUME IInv, Next, NEW t \in Tasks, task'[t].status = "adapting", task[t].status # "adapting"
  PROVE  epoch' = epoch /\ task'[t].attempt = task[t].attempt + 1
<1> DEFINE Claim == epoch' = epoch /\ task'[t].attempt = task[t].attempt + 1
<1>1. task \in [Tasks -> TaskStates] /\ task[t] \in TaskStates
  BY TaskType DEF IInv, TypeOK
<1>2. CASE task' = task
  BY <1>2
<1>3. CASE Advance
  <2>1. task'[t] = NewTask("pending", 0, NextBaseline(t))
    BY <1>3 DEF Advance
  <2>2. task'[t].status = "pending"
    BY <2>1 DEF NewTask
  <2>3. QED
    BY <2>2
<1>4. ASSUME NEW u \in Tasks, TaskStep(u) PROVE Claim
  <2>1. CASE Checkpoint(u)
    <3>1. u # t => task'[t] = task[t]
      BY <1>1, <2>1 DEF Checkpoint
    <3>2. task'[u].status = "pending"
      BY <1>1, <1>4, <2>1 DEF Checkpoint, TaskStates
    <3>3. QED
      BY <3>1, <3>2
  <2>2. CASE RecordCandidate(u)
    BY <1>1, <2>2 DEF RecordCandidate, TaskStates
  <2>3. CASE Finish(u)
    BY <1>1, <2>3 DEF Finish, TaskStates
  <2>4. CASE Pause(u)
    BY <1>1, <2>4 DEF Pause, TaskStates
  <2>5. CASE Reopen(u)
    <3>1. task'[t] = Reopened(t) \/ task'[t] = task[t]
      BY <2>5 DEF Reopen
    <3>2. Reopened(t).status \in {"pending", task[t].status}
      BY <1>1 DEF Reopened, NewTask, TaskStates
    <3>3. QED
      BY <3>1, <3>2
  <2>6. CASE CreateRun(u)
    BY <1>2, <2>6 DEF CreateRun, journal
  <2>7. ASSUME NEW w \in Worktrees, NEW mode \in {"mechanical", "semantic"}, Begin(u, w, mode)
        PROVE  Claim
    <3>1. epoch' = epoch /\ (u # t => task'[t] = task[t])
      BY <1>1, <2>7 DEF Begin
    <3>2. task'[u].attempt = task[u].attempt + 1
      BY <1>1, <1>4, <2>7 DEF Begin, TaskStates
    <3>3. QED
      BY <3>1, <3>2
  <2>8. ASSUME NEW name \in Bindings(u), NEW passed \in BOOLEAN, RecordCheck(u, name, passed)
        PROVE  Claim
    BY <1>1, <2>8 DEF RecordCheck, TaskStates
  <2>9. QED
    BY <1>4, <2>1, <2>2, <2>3, <2>4, <2>5, <2>6, <2>7, <2>8 DEF TaskStep
<1>5. CASE GitStep
  BY <1>2, <1>5 DEF GitStep, Edit, Commit, Switch, Move, Git, journal
<1>6. CASE Abandon
  BY <1>2, <1>6 DEF Abandon
<1>7. ASSUME NEW w \in Worktrees, QueueSource(w) PROVE Claim
  BY <1>2, <1>7 DEF QueueSource
<1>8. ASSUME NEW r \in runs, RunStep(r) PROVE Claim
  BY <1>2, <1>8 DEF RunStep, CloseRun, SaveRun, DropClose, journal
<1>9. QED
  BY <1>3, <1>4, <1>5, <1>6, <1>7, <1>8 DEF Next

(* A new attempt starts without authority from older ones, however runs and attempts interleave. *)
THEOREM NewAttemptsUnauthorised == Spec => NoOldAuthority
<1>1. ASSUME IInv, Next, NEW t \in Tasks, task'[t].status = "adapting", task[t].status # "adapting",
             NEW r \in runs, r.ref = Reference(t)'
      PROVE  FALSE
  <2>1. r.ref.epoch = epoch /\ r.ref.attempt = task[t].attempt + 1 /\ r.ref.task = t
    BY <1>1, NewAttempt DEF Reference
  <2>2. task[t].attempt \in Nat /\ epoch \in Nat
    BY <1>1, TaskType DEF IInv, TypeOK
  <2>3. r.ref.epoch < epoch \/ r.ref.attempt <= task[t].attempt
    BY <1>1, <2>1 DEF IInv, Dated
  <2>4. QED
    BY <2>1, <2>2, <2>3
<1>2. IInv /\ [Next]_vars =>
        [\A t \in Tasks :
           task'[t].status = "adapting" /\ task[t].status # "adapting" =>
             \A r \in runs : r.ref # Reference(t)']_vars
  BY <1>1
<1>3. QED
  BY <1>2, InvariantHolds, PTL DEF Spec, NoOldAuthority

(* A fresh task contains the source and every ancestor, through every level of parents. *)
LEMMA FreshContains ==
  ASSUME IInv, NEW t \in Tasks, Fresh(t), task[t].status \in Ready
  PROVE  /\ \A a \in Ancestors(t) : task[a].cand \subseteq task[t].cand
         /\ source.head \subseteq task[t].cand
<1> DEFINE all == {t} \cup Ancestors(t)
<1>1. all \subseteq Tasks /\ \A x \in all : Contract[x].deps \subseteq Ancestors(t)
  BY AncestorsClosed
<1>2. ASSUME NEW x \in all
      PROVE  \A n \in Parents(x) : HeadOf(n) \subseteq task[x].cand
  <2>1. task[x].status \in Ready /\ task[x].parents = Heads(x) /\ x \in Tasks
    BY <1>1, <1>2 DEF Fresh, ParentsFresh, FreshItself
  <2>2. \A n \in Parents(x) : task[x].parents[n] \subseteq task[x].cand
    BY <2>1 DEF IInv, Contained
  <2>3. Parents(x) \subseteq Nodes
    BY <2>1, ContractType
  <2>4. \A n \in Parents(x) : Heads(x)[n] = HeadOf(n)
    BY <2>3 DEF Heads
  <2>5. QED
    BY <2>1, <2>2, <2>4
<1>3. ASSUME NEW x \in all, NEW d \in Contract[x].deps
      PROVE  task[d].cand \subseteq task[x].cand /\ d \in Tasks
  <2>1. d \in Parents(x) /\ d # Source /\ d \in Tasks
    BY <1>1, <1>3, ChainAssumption, ContractType DEF Parents
  <2>2. QED
    BY <1>2, <2>1 DEF HeadOf
<1>4. \A a \in Ancestors(t) : task[a].cand \subseteq task[t].cand
  <2> DEFINE S == {x \in Ancestors(t) : task[x].cand \subseteq task[t].cand}
  <2>1. S \in SUBSET Tasks
    BY <1>1
  <2>2. Contract[t].deps \subseteq S
    BY <1>1, <1>3
  <2>3. ASSUME NEW x \in S PROVE Contract[x].deps \subseteq S
    BY <1>1, <1>3, <2>3
  <2> HIDE DEF S
  <2>4. Ancestors(t) \subseteq S
    BY <2>1, <2>2, <2>3, AncestorsLeast
  <2>5. QED
    BY <2>4 DEF S
<1>5. source.head \subseteq task[t].cand
  <2> DEFINE S == {x \in all : ~ (source.head \subseteq task[x].cand)}
  <2>1. CASE S = {}
    BY <2>1
  <2>2. CASE S # {}
    <3>1. S \in (SUBSET Tasks) \ {{}}
      BY <1>1, <2>2
    <3>2. \A Q \in (SUBSET Tasks) \ {{}} : \E x \in Q : Contract[x].deps \cap Q = {}
      BY ChainAssumption
    <3> HIDE DEF S
    <3>3. PICK x \in S : Contract[x].deps \cap S = {}
      BY <3>1, <3>2
    <3>4. x \in all /\ x \in Tasks /\ ~ (source.head \subseteq task[x].cand)
      BY <1>1 DEF S
    <3>5. CASE Contract[x].deps = {}
      <4>1. Source \in Parents(x)
        BY <3>5 DEF Parents
      <4>2. QED
        BY <1>2, <3>4, <4>1 DEF HeadOf
    <3>6. CASE Contract[x].deps # {}
      <4>1. PICK d \in Contract[x].deps : TRUE
        BY <3>6
      <4>2. d \in all /\ d \notin S
        BY <1>1, <3>3, <3>4, <4>1
      <4>3. source.head \subseteq task[d].cand
        BY <4>2 DEF S
      <4>4. QED
        BY <1>3, <3>4, <4>1, <4>3
    <3>7. QED
      BY <3>5, <3>6
  <2>3. QED
    BY <2>1, <2>2
<1>6. QED
  BY <1>4, <1>5

(* What get calls ready is what the worktrees hold: the source, every finished ancestor, and the tests
   of every leaf above on what is there now. *)
THEOREM ReadyAlwaysCurrent == Spec => []ReadyIsCurrent
<1>1. ASSUME IInv, NEW t \in Tasks, Publishable(t)
      PROVE  LET here(u) == tree[task[u].ws].head IN
             /\ tree[source.ws].head \subseteq here(t)
             /\ \A u \in Leaves \cap (Descendants(t) \cup {t}) : \A a \in Ancestors(u) \cup {u} :
                  /\ here(a) \subseteq here(u)
                  /\ [name |-> Test(a), head |-> here(u)] \in task[u].checks
  <2> DEFINE here(u) == tree[task[u].ws].head
  <2>1. task[t].status \in Ready /\ Fresh(t) /\ ChainTested(t) /\ tree[source.ws].head = source.head
    BY <1>1 DEF Publishable, SourceUnchanged
  <2>2. ASSUME NEW u \in Tasks, FreshItself(u) PROVE here(u) = task[u].cand
    BY <2>2 DEF FreshItself, SameTree, Candidate
  <2>3. tree[source.ws].head \subseteq here(t)
    BY <1>1, <2>1, <2>2, FreshContains DEF Fresh
  <2>4. ASSUME NEW u \in Leaves \cap (Descendants(t) \cup {t}), NEW a \in Ancestors(u) \cup {u}
        PROVE  /\ here(a) \subseteq here(u)
               /\ [name |-> Test(a), head |-> here(u)] \in task[u].checks
    <3>1. u \in Tasks /\ task[u].status \in Ready /\ Fresh(u) /\ Green(u, ChainTests(u))
      BY <2>1, <2>4 DEF ChainTested, Leaves
    <3>2. a \in Tasks /\ FreshItself(a) /\ FreshItself(u)
      BY <2>4, <3>1, AncestorsClosed DEF Fresh, ParentsFresh
    <3>3. here(a) = task[a].cand /\ here(u) = task[u].cand
      BY <2>2, <3>1, <3>2
    <3>4. task[a].cand \subseteq task[u].cand
      BY <1>1, <2>4, <3>1, FreshContains
    <3>5. [name |-> Test(a), head |-> task[u].cand] \in task[u].checks
      BY <2>4, <3>1 DEF Green, ChainTests
    <3>6. QED
      BY <3>3, <3>4, <3>5
  <2>5. QED
    BY <2>3, <2>4
<1>2. IInv => ReadyIsCurrent
  BY <1>1 DEF ReadyIsCurrent
<1>3. QED
  BY <1>2, InvariantHolds, PTL
=============================================================================
