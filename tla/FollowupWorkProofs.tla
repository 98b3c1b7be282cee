--------------------------- MODULE FollowupWorkProofs ---------------------------
(* What FollowupChain keeps of the work of a task, through pauses,         *)
(* checkpoints, reopenings and new sources, for any plan and any writers.  *)
EXTENDS FollowupChainProofs

----------------------------------------------------------------------------
(* Where the work is.  What a task has to keep is in what it has in its    *)
(* present state, or around it: in the source, in the candidates of its    *)
(* finished ancestors, and in what the others have to keep.                *)
Left(a) ==
  IF task[a].status \in Ready THEN ChangesOf(task[a].cand)
  ELSE IF task[a].status = "awaiting_checkpoint" THEN ChangesOf(task[a].base.own) ELSE kept[a]

Around(t) == ChangesOf(source.head) \cup UNION {Left(a) : a \in Ancestors(t)}

Secure(t) ==
  /\ task[t].status \in {"pending", "awaiting_checkpoint"} =>
       kept[t] \subseteq MustKeep(task[t].base) \cup Around(t)
  /\ task[t].status \in {"adapting", "checking"} => kept[t] \subseteq ChangesOf(Owned(t)) \cup Around(t)
  /\ task[t].status = "paused" =>
       kept[t] \subseteq ChangesOf(Owned(t)) \cup ChangesOf(task[t].checkpoint.head \ task[t].base.base)
                         \cup task[t].checkpoint.dirty \cup Around(t)
  /\ task[t].status \in Ready \cup {"checking"} => kept[t] \subseteq ChangesOf(task[t].cand)
  /\ task[t].status \in Pinned => task[t].parent = task[t].parents[Contract[t].parent]
  /\ task[t].base.own = task[t].base.tree.head \ task[t].base.base

KeptSecured == \A t \in Tasks : Secure(t)

(* Nothing around a task is lost by a step.                                *)
Growing == \A t \in Tasks : Around(t) \subseteq Around(t)'

(* The uncommitted work of a checkpoint is committed in commits that the   *)
(* base of the task does not have, or is found around the task anyway.     *)
SnapshotsNew ==
  \A t \in Tasks, w \in Worktrees :
    task[t].status \in {"pending", "paused"} /\ Preserves(t, w) =>
      From(t).dirty \subseteq ChangesOf(tree[w].head \ task[t].base.base) \cup Around(t)

(* The base of a task is around it, and queued sources only add to the     *)
(* accepted one.                                                           *)
Based == \A t \in Tasks : ChangesOf(task[t].base.base) \subseteq Around(t)

Ascending ==
  /\ queue # << >> => source.head \subseteq queue[1].head
  /\ \A i \in DOMAIN queue : i + 1 \in DOMAIN queue => queue[i].head \subseteq queue[i + 1].head

----------------------------------------------------------------------------
(* Changes and what is around a task.                                      *)

LEMMA ChangesOfParts ==
  ASSUME NEW S, NEW T
  PROVE  /\ S \subseteq T => ChangesOf(S) \subseteq ChangesOf(T)
         /\ ChangesOf(S \cup T) = ChangesOf(S) \cup ChangesOf(T)
         /\ ChangesOf(S) \subseteq ChangesOf(S \ T) \cup ChangesOf(T)
  BY DEF ChangesOf

(* The ancestors of a task are its dependencies and their ancestors.       *)
LEMMA AncestorsSplit ==
  ASSUME NEW t \in Tasks
  PROVE  Ancestors(t) \subseteq Contract[t].deps \cup UNION {Ancestors(d) : d \in Contract[t].deps}
<1> DEFINE S == Contract[t].deps \cup UNION {Ancestors(d) : d \in Contract[t].deps}
<1>1. S \in SUBSET Tasks
  BY ContractType, AncestorsClosed
<1>2. ASSUME NEW x \in S PROVE Contract[x].deps \subseteq S
  <2>1. CASE x \in Contract[t].deps
    <3>1. x \in Tasks
      BY <1>1
    <3>2. Contract[x].deps \subseteq Ancestors(x)
      BY <3>1, AncestorsClosed
    <3>3. QED
      BY <2>1, <3>2
  <2>2. ASSUME NEW d \in Contract[t].deps, x \in Ancestors(d) PROVE Contract[x].deps \subseteq S
    <3>1. d \in Tasks
      BY ContractType
    <3>2. Contract[x].deps \subseteq Ancestors(d)
      BY <2>2, <3>1, AncestorsClosed
    <3>3. QED
      BY <3>2
  <2>3. QED
    BY <1>2, <2>1, <2>2
<1>3. Contract[t].deps \subseteq S
  OBVIOUS
<1> HIDE DEF S
<1>4. Ancestors(t) \subseteq S
  BY <1>1, <1>2, <1>3, AncestorsLeast
<1>5. QED
  BY <1>4 DEF S

(* What is around a task: the source, and what its dependencies leave and  *)
(* have around them, before and after a step.                              *)
LEMMA AroundHas ==
  ASSUME NEW t \in Tasks
  PROVE  /\ ChangesOf(source.head) \subseteq Around(t) /\ (ChangesOf(source.head) \subseteq Around(t))'
         /\ \A d \in Contract[t].deps : /\ Left(d) \subseteq Around(t) /\ (Left(d) \subseteq Around(t))'
                                        /\ Around(d) \subseteq Around(t) /\ (Around(d) \subseteq Around(t))'
         /\ Around(t) \subseteq ChangesOf(source.head)
                                  \cup UNION {Left(d) \cup Around(d) : d \in Contract[t].deps}
<1>1. Contract[t].deps \subseteq Ancestors(t) /\ Contract[t].deps \subseteq Tasks
  BY AncestorsClosed, ContractType
<1>2. \A d \in Contract[t].deps : Ancestors(d) \subseteq Ancestors(t)
  BY <1>1, AncestorsGrow
<1>3. ASSUME NEW d \in Contract[t].deps
      PROVE  /\ Left(d) \subseteq Around(t) /\ (Left(d) \subseteq Around(t))'
             /\ Around(d) \subseteq Around(t) /\ (Around(d) \subseteq Around(t))'
  <2>1. d \in Ancestors(t) /\ Ancestors(d) \subseteq Ancestors(t)
    BY <1>1, <1>2
  <2>2. Left(d) \subseteq Around(t) /\ (Left(d) \subseteq Around(t))'
    BY <2>1 DEF Around
  <2>3. Around(d) \subseteq Around(t) /\ (Around(d) \subseteq Around(t))'
    BY <2>1 DEF Around
  <2>4. QED
    BY <2>2, <2>3
<1>4. ASSUME NEW a \in Ancestors(t)
      PROVE  Left(a) \subseteq UNION {Left(d) \cup Around(d) : d \in Contract[t].deps}
  <2>1. CASE a \in Contract[t].deps
    BY <2>1
  <2>2. ASSUME NEW d \in Contract[t].deps, a \in Ancestors(d)
        PROVE  Left(a) \subseteq UNION {Left(e) \cup Around(e) : e \in Contract[t].deps}
    <3>1. Left(a) \subseteq Around(d)
      BY <2>2 DEF Around
    <3>2. QED
      BY <3>1
  <2>3. QED
    BY <1>4, <2>1, <2>2, AncestorsSplit
<1>5. QED
  BY <1>3, <1>4 DEF Around

(* What a task leaves may move to what is around it: nothing is lost to    *)
(* its descendants.                                                        *)
LEMMA AroundGrows ==
  ASSUME ChangesOf(source.head) \subseteq ChangesOf(source.head)',
         \A a \in Tasks : Left(a) \subseteq Left(a)' \cup Around(a)
  PROVE  Growing
<1> DEFINE S == {t \in Tasks : ~ (Around(t) \subseteq Around(t)')}
<1>1. CASE S = {}
  BY <1>1 DEF Growing
<1>2. CASE S # {}
  <2>1. S \in (SUBSET Tasks) \ {{}}
    BY <1>2
  <2>2. \A Q \in (SUBSET Tasks) \ {{}} : \E x \in Q : Contract[x].deps \cap Q = {}
    BY ChainAssumption
  <2> HIDE DEF S
  <2>3. PICK t \in S : Contract[t].deps \cap S = {}
    BY <2>1, <2>2
  <2>4. t \in Tasks /\ ~ (Around(t) \subseteq Around(t)') /\ Contract[t].deps \subseteq Tasks
    BY <2>3, ContractType DEF S
  <2>5. ASSUME NEW d \in Contract[t].deps
        PROVE  Left(d) \subseteq Around(t)' /\ Around(d) \subseteq Around(t)'
    <3>1. Around(d) \subseteq Around(d)'
      BY <2>3, <2>4, <2>5 DEF S
    <3>2. Left(d)' \subseteq Around(t)' /\ Around(d)' \subseteq Around(t)'
      BY <2>4, AroundHas
    <3>3. Left(d) \subseteq Left(d)' \cup Around(d)
      BY <2>4
    <3>4. QED
      BY <3>1, <3>2, <3>3
  <2>6. ChangesOf(source.head) \subseteq Around(t)'
    BY <2>4, AroundHas
  <2>7. Around(t) \subseteq ChangesOf(source.head) \cup UNION {Left(d) \cup Around(d) : d \in Contract[t].deps}
    BY <2>4, AroundHas
  <2>8. QED
    BY <2>4, <2>5, <2>6, <2>7
<1>3. QED
  BY <1>1, <1>2

(* The parent an attempt started from is around it.                        *)
LEMMA ParentAround ==
  ASSUME IInv, NEW t \in Tasks, Secure(t), task[t].status \in Pinned
  PROVE  ChangesOf(task[t].parent) \subseteq Around(t)
<1>1. /\ \A d \in Contract[t].deps : task[d].status \in Ready
      /\ task[t].parents = Heads(t)
  BY DEF IInv, ParentsPinned, Pinned
<1>2. Contract[t].parent \in Parents(t) /\ Contract[t].parent \in Nodes
  BY ContractType
<1>3. task[t].parent = HeadOf(Contract[t].parent)
  BY <1>1, <1>2 DEF Secure, Heads
<1>4. CASE Contract[t].parent = Source
  BY <1>3, <1>4, AroundHas DEF HeadOf
<1>5. CASE Contract[t].parent # Source
  <2>1. Contract[t].parent \in Contract[t].deps
    BY <1>2, <1>5 DEF Parents
  <2>2. ChangesOf(task[t].parent) = Left(Contract[t].parent)
    BY <1>1, <1>3, <1>5, <2>1 DEF HeadOf, Left
  <2>3. QED
    BY <2>1, <2>2, AroundHas
<1>6. QED
  BY <1>4, <1>5

(* A history that contains the parents contains all that is around.        *)
LEMMA AroundContained ==
  ASSUME IInv, NEW t \in Tasks, ParentsFresh(t), NEW head, \A n \in Parents(t) : HeadOf(n) \subseteq head
  PROVE  Around(t) \subseteq ChangesOf(head)
<1>1. ASSUME NEW d \in Contract[t].deps
      PROVE  Left(d) \cup Around(d) \cup ChangesOf(source.head) \subseteq ChangesOf(head)
  <2>1. d \in Ancestors(t) /\ d \in Tasks /\ d # Source
    BY AncestorsClosed, ContractType, ChainAssumption
  <2>2. Ancestors(d) \subseteq Ancestors(t)
    BY <2>1, AncestorsGrow
  <2>3. task[d].status \in Ready /\ Fresh(d)
    BY <2>1, <2>2 DEF ParentsFresh, Fresh
  <2>4. d \in Parents(t)
    BY DEF Parents
  <2>5. task[d].cand \subseteq head
    BY <2>1, <2>4 DEF HeadOf
  <2>6. (\A a \in Ancestors(d) : task[a].cand \subseteq head) /\ source.head \subseteq head
    BY <2>1, <2>3, <2>5, FreshContains
  <2>7. \A a \in Ancestors(d) : Left(a) = ChangesOf(task[a].cand)
    BY <2>3 DEF Fresh, ParentsFresh, Left
  <2>8. ChangesOf(source.head) \subseteq ChangesOf(head)
    BY <2>6, ChangesOfParts
  <2>9. ASSUME NEW a \in Ancestors(d) PROVE Left(a) \subseteq ChangesOf(head)
    <3>1. task[a].cand \subseteq head /\ Left(a) = ChangesOf(task[a].cand)
      BY <2>6, <2>7
    <3>2. ChangesOf(task[a].cand) \subseteq ChangesOf(head)
      BY <3>1, ChangesOfParts
    <3>3. QED
      BY <3>1, <3>2
  <2>10. Left(d) \subseteq ChangesOf(head)
    BY <2>3, <2>5, ChangesOfParts DEF Left
  <2>11. QED
    BY <2>8, <2>9, <2>10 DEF Around
<1>2. CASE Contract[t].deps = {}
  <2>1. Source \in Parents(t)
    BY <1>2 DEF Parents
  <2>2. source.head \subseteq head
    BY <2>1 DEF HeadOf
  <2>3. ChangesOf(source.head) \subseteq ChangesOf(head)
    BY <2>2, ChangesOfParts
  <2>4. Around(t) \subseteq ChangesOf(source.head)
    BY <1>2, AroundHas
  <2>5. QED
    BY <2>3, <2>4
<1>3. CASE Contract[t].deps # {}
  <2>1. PICK e \in Contract[t].deps : TRUE
    BY <1>3
  <2>2. ChangesOf(source.head) \subseteq ChangesOf(head)
    BY <1>1, <2>1
  <2>3. Around(t) \subseteq ChangesOf(source.head) \cup UNION {Left(d) \cup Around(d) : d \in Contract[t].deps}
    BY AroundHas
  <2>4. QED
    BY <1>1, <2>2, <2>3
<1>4. QED
  BY <1>2, <1>3

----------------------------------------------------------------------------
(* Steps of one task.                                                      *)

(* What a task leaves does not shrink, and it stays secure if nothing      *)
(* around it is lost: then so do all.                                      *)
LEMMA OneTaskSecure ==
  ASSUME KeptSecured, NEW t \in Tasks, source' = source,
         \A u \in Tasks \ {t} : task'[u] = task[u] /\ kept'[u] = kept[u],
         Left(t) \subseteq Left(t)', task'[t].base.base = task[t].base.base,
         Around(t) \subseteq Around(t)' => Secure(t)'
  PROVE  KeptSecured' /\ Growing /\ \A u \in Tasks : task'[u].base.base = task[u].base.base
<1>1. \A u \in Tasks : Left(u) \subseteq Left(u)'
  BY DEF Left
<1>2. Growing
  BY <1>1, AroundGrows
<1>3. ASSUME NEW u \in Tasks PROVE Secure(u)'
  <2>1. CASE u = t
    BY <1>2, <2>1 DEF Growing
  <2>2. CASE u # t
    <3>1. task'[u] = task[u] /\ kept'[u] = kept[u] /\ Around(u) \subseteq Around(u)'
      BY <1>2, <2>2 DEF Growing
    <3>2. Secure(u) /\ Owned(u)' = Owned(u)
      BY <3>1 DEF KeptSecured, Owned
    <3>3. QED
      BY <3>1, <3>2 DEF Secure
  <2>3. QED
    BY <2>1, <2>2
<1>4. QED
  BY <1>2, <1>3 DEF KeptSecured

(* Nothing a task has or has to keep changes.                              *)
LEMMA QuietSecure ==
  ASSUME KeptSecured, UNCHANGED <<task, source, kept>>
  PROVE  KeptSecured' /\ Growing /\ \A u \in Tasks : task'[u].base.base = task[u].base.base
<1>1. \A u \in Tasks : Left(u)' = Left(u)
  BY DEF Left
<1>2. Growing
  BY <1>1, AroundGrows
<1>3. ASSUME NEW u \in Tasks PROVE Secure(u)'
  <2>1. Secure(u) /\ Around(u) \subseteq Around(u)' /\ Owned(u)' = Owned(u)
    BY <1>2 DEF KeptSecured, Growing, Owned
  <2>2. QED
    BY <2>1 DEF Secure
<1>4. QED
  BY <1>2, <1>3 DEF KeptSecured

LEMMA CheckpointSecures ==
  ASSUME IInv, KeptSecured, NEW t \in Tasks, Checkpoint(t)
  PROVE  KeptSecured' /\ Growing /\ \A u \in Tasks : task'[u].base.base = task[u].base.base
<1> DEFINE b == task[t].base
           now == tree[b.ws]
           base == [b EXCEPT !.tree = now, !.own = now.head \ b.base, !.verified = b.verified /\ now = b.tree]
<1>1. /\ task[t].status = "awaiting_checkpoint" /\ source' = source /\ b.tree.head \subseteq now.head
      /\ task' = [task EXCEPT ![t].status = "pending", ![t].base = base]
      /\ kept' = [kept EXCEPT ![t] = MustKeep(base)]
  BY DEF Checkpoint
<1>2. task[t] \in TaskStates /\ task \in [Tasks -> TaskStates] /\ kept \in [Tasks -> SUBSET Changes] /\ b \in Baselines
  BY TaskType DEF IInv, TypeOK
<1>3. base.base = b.base /\ base.own = now.head \ b.base /\ base.tree = now
  BY <1>2 DEF Baselines
<1> HIDE DEF base
<1>4. /\ task'[t].status = "pending" /\ task'[t].base = base /\ kept'[t] = MustKeep(base)
      /\ \A u \in Tasks \ {t} : task'[u] = task[u] /\ kept'[u] = kept[u]
  BY <1>1, <1>2 DEF TaskStates
<1>5. Left(t) \subseteq Left(t)'
  <2>1. b.own = b.tree.head \ b.base
    BY DEF KeptSecured, Secure
  <2>2. b.own \subseteq base.own
    BY <1>1, <1>3, <2>1
  <2>3. ChangesOf(b.own) \subseteq MustKeep(base)
    BY <2>2, ChangesOfParts DEF MustKeep
  <2>4. QED
    BY <1>1, <1>4, <2>3 DEF Left, Ready
<1>6. Secure(t)'
  BY <1>3, <1>4 DEF Secure, Ready, Pinned
<1>7. QED
  BY <1>1, <1>3, <1>4, <1>5, <1>6, OneTaskSecure

(* The commits begin pins, and what is around the task, hold all that the  *)
(* task has to keep.                                                       *)
LEMMA PreservedSecures ==
  ASSUME KeptSecured, SnapshotsNew, NEW t \in Tasks, NEW w \in Worktrees,
         task[t].status \in {"pending", "paused"}, Preserves(t, w)
  PROVE  kept[t] \subseteq ChangesOf(IF Preserved(t, w) # {} THEN Preserved(t, w) ELSE task[t].base.own) \cup Around(t)
<1> DEFINE P == Preserved(t, w)
           mine == IF P # {} THEN P ELSE task[t].base.own
           committed == tree[w].head \ task[t].base.base
<1>1. ChangesOf(P) \subseteq ChangesOf(mine)
  <2>1. CASE P = {}
    BY <2>1 DEF ChangesOf
  <2>2. CASE P # {}
    BY <2>2
  <2>3. QED
    BY <2>1, <2>2
<1>2. From(t).dirty \subseteq ChangesOf(committed) \cup Around(t)
  BY DEF SnapshotsNew
<1>3. From(t).dirty # {} => committed \subseteq P /\ From(t).head \subseteq tree[w].head
  BY DEF Preserved, Preserves
<1>4. From(t).dirty \subseteq ChangesOf(mine) \cup Around(t)
  <2>1. CASE From(t).dirty = {}
    BY <2>1
  <2>2. CASE From(t).dirty # {}
    <3>1. ChangesOf(committed) \subseteq ChangesOf(P)
      BY <1>3, <2>2, ChangesOfParts
    <3>2. QED
      BY <1>1, <1>2, <3>1
  <2>3. QED
    BY <2>1, <2>2
<1>5. CASE task[t].status = "pending"
  <2>1. From(t) = task[t].base.tree /\ task[t].base.own = task[t].base.tree.head \ task[t].base.base
    BY <1>5 DEF From, KeptSecured, Secure
  <2>2. ChangesOf(task[t].base.own) \subseteq ChangesOf(mine)
    <3>1. CASE From(t).dirty = {}
      <4>1. P = {}
        BY <1>5, <3>1 DEF Preserved
      <4>2. QED
        BY <4>1
    <3>2. CASE From(t).dirty # {}
      <4>1. task[t].base.own \subseteq P
        BY <1>3, <2>1, <3>2
      <4>2. QED
        BY <1>1, <4>1, ChangesOfParts
    <3>3. QED
      BY <3>1, <3>2
  <2>3. kept[t] \subseteq ChangesOf(task[t].base.own) \cup From(t).dirty \cup Around(t)
    BY <1>5, <2>1 DEF KeptSecured, Secure, MustKeep
  <2>4. QED
    BY <1>4, <2>2, <2>3
<1>6. CASE task[t].status = "paused"
  <2>1. From(t) = task[t].checkpoint
    BY <1>6 DEF From
  <2>2. Owned(t) \subseteq P /\ task[t].checkpoint.head \ task[t].base.base \subseteq P
    BY <1>6 DEF Preserved
  <2>3. ChangesOf(Owned(t)) \subseteq ChangesOf(P) /\ ChangesOf(task[t].checkpoint.head \ task[t].base.base) \subseteq ChangesOf(P)
    BY <2>2, ChangesOfParts
  <2>4. kept[t] \subseteq ChangesOf(Owned(t)) \cup ChangesOf(task[t].checkpoint.head \ task[t].base.base)
                          \cup From(t).dirty \cup Around(t)
    BY <1>6, <2>1 DEF KeptSecured, Secure
  <2>5. QED
    BY <1>1, <1>4, <2>3, <2>4
<1>7. QED
  BY <1>5, <1>6

LEMMA BeginSecures ==
  ASSUME IInv, KeptSecured, SnapshotsNew, NEW t \in Tasks, NEW w \in Worktrees,
         NEW mode \in {"mechanical", "semantic"}, Begin(t, w, mode)
  PROVE  KeptSecured' /\ Growing /\ \A u \in Tasks : task'[u].base.base = task[u].base.base
<1> DEFINE new == [task[t] EXCEPT !.status = "adapting", !.mode = mode, !.checks = {}, !.cand = {},
                                  !.attempt = task[t].attempt + 1, !.ws = w, !.parent = HeadOf(Contract[t].parent),
                                  !.parents = Heads(t), !.preserved = Preserved(t, w)]
<1>1. /\ task[t].status \in {"pending", "paused"} /\ source' = source /\ kept' = kept
      /\ Preserves(t, w) /\ task' = [task EXCEPT ![t] = new]
  BY DEF Begin
<1>2. task[t] \in TaskStates /\ task \in [Tasks -> TaskStates]
  BY TaskType DEF IInv, TypeOK
<1>3. /\ new.status = "adapting" /\ new.base = task[t].base /\ new.preserved = Preserved(t, w)
      /\ new.parent = HeadOf(Contract[t].parent) /\ new.parents = Heads(t)
  BY <1>2 DEF TaskStates
<1> HIDE DEF new
<1>4. task'[t] = new /\ \A u \in Tasks \ {t} : task'[u] = task[u] /\ kept'[u] = kept[u]
  BY <1>1, <1>2
<1>5. Left(t) \subseteq Left(t)'
  BY <1>1, <1>3, <1>4 DEF Left, Ready
<1>6. new.parent = new.parents[Contract[t].parent]
  BY <1>3, ContractType DEF Heads
<1>7. ASSUME Around(t) \subseteq Around(t)' PROVE Secure(t)'
  <2>1. kept[t] \subseteq ChangesOf(Owned(t)') \cup Around(t)
    BY <1>1, <1>3, <1>4, PreservedSecures DEF Owned
  <2>2. task[t].base.own = task[t].base.tree.head \ task[t].base.base
    BY DEF KeptSecured, Secure
  <2>3. QED
    BY <1>1, <1>3, <1>4, <1>6, <1>7, <2>1, <2>2 DEF Secure, Ready
<1>8. QED
  BY <1>1, <1>3, <1>4, <1>5, <1>7, OneTaskSecure

(* Every commit an attempt owns is in its candidate, or one that replays it. *)
LEMMA AccountedKeeps ==
  ASSUME NEW owned, NEW head, Accounted(owned, head)
  PROVE  ChangesOf(owned) \subseteq ChangesOf(head)
<1>1. PICK new \in [owned \ head -> head] : \A a \in owned \ head : new[a].change = a.change
  BY DEF Accounted
<1>2. ASSUME NEW c \in owned PROVE \E d \in head : d.change = c.change
  BY <1>1
<1>3. QED
  BY <1>2 DEF ChangesOf

LEMMA RecordCandidateSecures ==
  ASSUME IInv, KeptSecured, NEW t \in Tasks, RecordCandidate(t)
  PROVE  KeptSecured' /\ Growing /\ \A u \in Tasks : task'[u].base.base = task[u].base.base
<1> DEFINE head == tree[task[t].ws].head
<1>1. /\ task[t].status \in {"adapting", "checking"} /\ source' = source /\ kept' = kept
      /\ ParentsFresh(t) /\ task[t].parents = Heads(t)
      /\ \A n \in Parents(t) : task[t].parents[n] \subseteq head
      /\ Accounted(Owned(t), head)
      /\ task' = [task EXCEPT ![t].cand = head, ![t].checks = {}, ![t].status = "checking"]
  BY DEF RecordCandidate
<1>2. task[t] \in TaskStates /\ task \in [Tasks -> TaskStates]
  BY TaskType DEF IInv, TypeOK
<1>3. \A n \in Parents(t) : HeadOf(n) \subseteq head
  BY <1>1, ContractType DEF Heads
<1> HIDE DEF head
<1>4. /\ task'[t].status = "checking" /\ task'[t].cand = head
      /\ task'[t].base = task[t].base /\ task'[t].preserved = task[t].preserved
      /\ task'[t].parent = task[t].parent /\ task'[t].parents = task[t].parents
      /\ \A u \in Tasks \ {t} : task'[u] = task[u] /\ kept'[u] = kept[u]
  BY <1>1, <1>2 DEF TaskStates
<1>5. Left(t) \subseteq Left(t)'
  BY <1>1, <1>4 DEF Left, Ready
<1>6. kept[t] \subseteq ChangesOf(head)
  <2>1. kept[t] \subseteq ChangesOf(Owned(t)) \cup Around(t)
    BY <1>1 DEF KeptSecured, Secure
  <2>2. ChangesOf(Owned(t)) \subseteq ChangesOf(head)
    BY <1>1, AccountedKeeps
  <2>3. Around(t) \subseteq ChangesOf(head)
    BY <1>1, <1>3, AroundContained
  <2>4. QED
    BY <2>1, <2>2, <2>3
<1>7. ASSUME Around(t) \subseteq Around(t)' PROVE Secure(t)'
  <2>1. /\ kept[t] \subseteq ChangesOf(Owned(t)) \cup Around(t)
        /\ task[t].base.own = task[t].base.tree.head \ task[t].base.base
        /\ task[t].parent = task[t].parents[Contract[t].parent]
    BY <1>1 DEF KeptSecured, Secure, Pinned
  <2>2. Owned(t)' = Owned(t)
    BY <1>4 DEF Owned
  <2>3. QED
    BY <1>1, <1>4, <1>6, <1>7, <2>1, <2>2 DEF Secure, Ready
<1>8. QED
  BY <1>1, <1>4, <1>5, <1>7, OneTaskSecure

LEMMA RecordCheckSecures ==
  ASSUME IInv, KeptSecured, NEW t \in Tasks, NEW name \in Bindings(t), NEW passed \in BOOLEAN,
         RecordCheck(t, name, passed)
  PROVE  KeptSecured' /\ Growing /\ \A u \in Tasks : task'[u].base.base = task[u].base.base
<1>1. task[t] \in TaskStates /\ task \in [Tasks -> TaskStates] /\ source' = source /\ kept' = kept
  BY TaskType DEF IInv, TypeOK, RecordCheck
<1>2. PICK checks : task' = [task EXCEPT ![t].checks = checks]
  BY DEF RecordCheck
<1>3. /\ task'[t].status = task[t].status /\ task'[t].cand = task[t].cand
      /\ task'[t].base = task[t].base /\ task'[t].preserved = task[t].preserved
      /\ task'[t].parent = task[t].parent /\ task'[t].parents = task[t].parents
      /\ task'[t].checkpoint = task[t].checkpoint
      /\ \A u \in Tasks \ {t} : task'[u] = task[u] /\ kept'[u] = kept[u]
  BY <1>1, <1>2 DEF TaskStates
<1>4. Left(t) \subseteq Left(t)'
  BY <1>1, <1>3 DEF Left
<1>5. ASSUME Around(t) \subseteq Around(t)' PROVE Secure(t)'
  <2>1. Secure(t) /\ Owned(t)' = Owned(t)
    BY <1>3 DEF KeptSecured, Owned
  <2>2. QED
    BY <1>1, <1>3, <1>5, <2>1 DEF Secure
<1>6. QED
  BY <1>1, <1>3, <1>4, <1>5, OneTaskSecure

LEMMA FinishSecures ==
  ASSUME IInv, KeptSecured, NEW t \in Tasks, Finish(t)
  PROVE  KeptSecured' /\ Growing /\ \A u \in Tasks : task'[u].base.base = task[u].base.base
<1>1. /\ task[t].status = "checking" /\ source' = source /\ kept' = kept
      /\ task[t] \in TaskStates /\ task \in [Tasks -> TaskStates]
  BY TaskType DEF IInv, TypeOK, Finish
<1>2. PICK status \in Ready : task' = [task EXCEPT ![t].status = status]
  BY DEF Finish, Ready
<1>3. /\ task'[t].status \in Ready /\ task'[t].cand = task[t].cand /\ task'[t].base = task[t].base
      /\ task'[t].parent = task[t].parent /\ task'[t].parents = task[t].parents
      /\ \A u \in Tasks \ {t} : task'[u] = task[u] /\ kept'[u] = kept[u]
  BY <1>1, <1>2 DEF TaskStates
<1>4. /\ kept[t] \subseteq ChangesOf(task[t].cand)
      /\ task[t].base.own = task[t].base.tree.head \ task[t].base.base
      /\ task[t].parent = task[t].parents[Contract[t].parent]
  BY <1>1 DEF KeptSecured, Secure, Pinned
<1>5. Left(t) \subseteq Left(t)'
  BY <1>1, <1>3, <1>4 DEF Left, Ready
<1>6. Secure(t)'
  BY <1>1, <1>3, <1>4 DEF Secure, Ready
<1>7. QED
  BY <1>1, <1>3, <1>5, <1>6, OneTaskSecure

LEMMA PauseSecures ==
  ASSUME IInv, KeptSecured, NEW t \in Tasks, Pause(t)
  PROVE  KeptSecured' /\ Growing /\ \A u \in Tasks : task'[u].base.base = task[u].base.base
<1> DEFINE now == tree[task[t].ws]
           more == ChangesOf(now.head \ task[t].base.base) \cup now.dirty
<1>1. /\ task[t].status \in {"adapting", "checking"} /\ source' = source
      /\ task' = [task EXCEPT ![t].status = "paused", ![t].checkpoint = now]
      /\ kept' = [kept EXCEPT ![t] = @ \cup ChangesOf(now.head \ task[t].base.base) \cup now.dirty]
  BY DEF Pause
<1>2. task[t] \in TaskStates /\ task \in [Tasks -> TaskStates] /\ kept \in [Tasks -> SUBSET Changes]
  BY TaskType DEF IInv, TypeOK
<1> HIDE DEF now
<1>3. /\ task'[t].status = "paused" /\ task'[t].checkpoint = now
      /\ task'[t].base = task[t].base /\ task'[t].preserved = task[t].preserved
      /\ kept'[t] = kept[t] \cup more
      /\ \A u \in Tasks \ {t} : task'[u] = task[u] /\ kept'[u] = kept[u]
  BY <1>1, <1>2 DEF TaskStates
<1>4. Left(t) \subseteq Left(t)'
  BY <1>1, <1>3 DEF Left, Ready
<1>5. ASSUME Around(t) \subseteq Around(t)' PROVE Secure(t)'
  <2>1. /\ kept[t] \subseteq ChangesOf(Owned(t)) \cup Around(t)
        /\ task[t].base.own = task[t].base.tree.head \ task[t].base.base
    BY <1>1 DEF KeptSecured, Secure
  <2>2. Owned(t)' = Owned(t)
    BY <1>3 DEF Owned
  <2>3. QED
    BY <1>3, <1>5, <2>1, <2>2 DEF Secure, Ready, Pinned
<1>6. QED
  BY <1>1, <1>3, <1>4, <1>5, OneTaskSecure

----------------------------------------------------------------------------
(* Steps of many tasks.                                                    *)

(* A finished candidate is in the baseline it becomes and around the task. *)
LEMMA CompletedSecures ==
  ASSUME IInv, NEW t \in Tasks, Secure(t), task[t].status \in Ready
  PROVE  /\ ChangesOf(task[t].cand) \subseteq MustKeep(CompletedBaseline(t)) \cup Around(t)
         /\ kept[t] \subseteq MustKeep(CompletedBaseline(t)) \cup Around(t)
         /\ ChangesOf(CompletedBaseline(t).base) \subseteq Around(t)
         /\ CompletedBaseline(t).own = CompletedBaseline(t).tree.head \ CompletedBaseline(t).base
<1>1. ChangesOf(task[t].parent) \subseteq Around(t)
  BY ParentAround DEF Pinned
<1>2. ChangesOf(task[t].cand) \subseteq ChangesOf(task[t].cand \ task[t].parent) \cup ChangesOf(task[t].parent)
  BY ChangesOfParts
<1>3. kept[t] \subseteq ChangesOf(task[t].cand)
  BY DEF Secure
<1>4. /\ CompletedBaseline(t).own = task[t].cand \ task[t].parent /\ CompletedBaseline(t).base = task[t].parent
      /\ CompletedBaseline(t).tree.head = task[t].cand
  BY DEF CompletedBaseline, Candidate
<1>5. ChangesOf(task[t].cand \ task[t].parent) \subseteq MustKeep(CompletedBaseline(t))
  BY <1>4 DEF MustKeep
<1>6. QED
  BY <1>1, <1>2, <1>3, <1>4, <1>5

LEMMA ReopenSecures ==
  ASSUME IInv, KeptSecured, NEW t \in Tasks, Reopen(t)
  PROVE  /\ KeptSecured' /\ Growing
         /\ \A u \in Tasks : \/ task'[u].base.base = task[u].base.base
                             \/ ChangesOf(task'[u].base.base) \subseteq Around(u)
<1> DEFINE affected == {t} \cup Descendants(t)
           finished == {u \in affected : task[u].status \in Ready}
<1>1. /\ source' = source
      /\ task' = [u \in Tasks |-> IF u \in affected THEN Reopened(u) ELSE task[u]]
      /\ kept' = [u \in Tasks |-> IF u \in finished THEN kept[u] \cup MustKeep(CompletedBaseline(u))
                                  ELSE kept[u]]
  BY DEF Reopen
<1>2. task \in [Tasks -> TaskStates] /\ \A u \in Tasks : task[u] \in TaskStates /\ task[u].attempt \in Nat
  BY TaskType DEF IInv, TypeOK
<1> HIDE DEF affected
<1>3. ASSUME NEW u \in Tasks, u \in finished
      PROVE  /\ task'[u].status = "pending" /\ task'[u].base = CompletedBaseline(u)
             /\ kept'[u] = kept[u] \cup MustKeep(CompletedBaseline(u))
  <2>1. task'[u] = NewTask("pending", task[u].attempt, CompletedBaseline(u))
    BY <1>1, <1>3 DEF Reopened
  <2>2. task'[u].status = "pending" /\ task'[u].base = CompletedBaseline(u)
    BY <2>1 DEF NewTask
  <2>3. QED
    BY <1>1, <1>3, <2>2
<1>4. ASSUME NEW u \in Tasks, u \notin finished
      PROVE  /\ kept'[u] = kept[u] /\ task'[u].status = task[u].status /\ task'[u].base = task[u].base
             /\ \/ task'[u] = task[u]
                \/ /\ task[u].status = "paused" /\ task'[u].preserved = task[u].preserved
                   /\ task'[u].checkpoint = task[u].checkpoint
  <2>1. kept'[u] = kept[u]
    BY <1>1, <1>4
  <2>2. CASE task'[u] = task[u]
    BY <2>1, <2>2
  <2>3. CASE task'[u] # task[u]
    <3>1. task'[u] = Reopened(u) /\ task[u].status \notin Ready
      BY <1>1, <1>4, <2>3
    <3>2. task[u].status = "paused" /\ task'[u] = [task[u] EXCEPT !.checks = {}, !.cand = {}]
      BY <2>3, <3>1 DEF Reopened
    <3>3. QED
      BY <1>2, <2>1, <3>2 DEF TaskStates
  <2>4. QED
    BY <2>2, <2>3
<1>5. ASSUME NEW u \in finished
      PROVE  /\ u \in Tasks /\ Secure(u) /\ task[u].status \in Ready
             /\ ChangesOf(task[u].cand) \subseteq MustKeep(CompletedBaseline(u)) \cup Around(u)
             /\ kept[u] \subseteq MustKeep(CompletedBaseline(u)) \cup Around(u)
             /\ ChangesOf(CompletedBaseline(u).base) \subseteq Around(u)
             /\ CompletedBaseline(u).own = CompletedBaseline(u).tree.head \ CompletedBaseline(u).base
  <2>1. u \in Tasks /\ task[u].status \in Ready
    BY <1>5 DEF affected, Descendants
  <2>2. Secure(u)
    BY <2>1 DEF KeptSecured
  <2>3. QED
    BY <2>1, <2>2, CompletedSecures
<1>6. ASSUME NEW a \in Tasks PROVE Left(a) \subseteq Left(a)' \cup Around(a)
  <2>1. CASE a \in finished
    <3>1. Left(a) = ChangesOf(task[a].cand)
      BY <2>1, <1>5 DEF Left
    <3>2. Left(a)' = kept[a] \cup MustKeep(CompletedBaseline(a))
      BY <1>3, <2>1 DEF Left, Ready
    <3>3. QED
      BY <1>5, <2>1, <3>1, <3>2
  <2>2. CASE a \notin finished
    BY <1>4, <2>2 DEF Left, Ready
  <2>3. QED
    BY <2>1, <2>2
<1>7. Growing
  BY <1>1, <1>6, AroundGrows
<1>8. ASSUME NEW u \in Tasks PROVE Secure(u)'
  <2>1. Around(u) \subseteq Around(u)'
    BY <1>7 DEF Growing
  <2>2. CASE u \in finished
    <3>1. kept'[u] \subseteq MustKeep(CompletedBaseline(u)) \cup Around(u)'
      BY <1>3, <1>5, <2>1, <2>2
    <3>2. QED
      BY <1>3, <1>5, <2>2, <3>1 DEF Secure, Ready, Pinned
  <2>3. CASE u \notin finished
    <3>1. Secure(u)
      BY DEF KeptSecured
    <3>2. Owned(u)' = Owned(u)
      BY <1>4, <2>3 DEF Owned
    <3>3. CASE task'[u] = task[u]
      BY <1>4, <2>1, <2>3, <3>1, <3>2, <3>3 DEF Secure
    <3>4. CASE task[u].status = "paused" /\ task'[u].checkpoint = task[u].checkpoint
      BY <1>4, <2>1, <2>3, <3>1, <3>2, <3>4 DEF Secure, Ready, Pinned
    <3>5. QED
      BY <1>4, <2>3, <3>3, <3>4
  <2>4. QED
    BY <2>2, <2>3
<1>9. ASSUME NEW u \in Tasks
      PROVE  task'[u].base.base = task[u].base.base \/ ChangesOf(task'[u].base.base) \subseteq Around(u)
  <2>1. CASE u \in finished
    BY <1>3, <1>5, <2>1
  <2>2. CASE u \notin finished
    BY <1>4, <2>2
  <2>3. QED
    BY <2>1, <2>2
<1>10. QED
  BY <1>7, <1>8, <1>9 DEF KeptSecured

(* A new epoch starts from baselines that have what is to be kept in it.   *)
LEMMA AdvanceSecures ==
  ASSUME IInv, KeptSecured, Advance
  PROVE  KeptSecured'
<1>1. /\ task' = [t \in Tasks |-> NewTask("pending", 0, NextBaseline(t))]
      /\ kept' = [t \in Tasks |-> MustKeep(NextBaseline(t))]
  BY DEF Advance
<1>2. ASSUME NEW t \in Tasks PROVE Secure(t)'
  <2>1. task'[t].status = "pending" /\ task'[t].base = NextBaseline(t) /\ kept'[t] = MustKeep(NextBaseline(t))
    BY <1>1 DEF NewTask
  <2>2. NextBaseline(t).own = NextBaseline(t).tree.head \ NextBaseline(t).base
    <3>1. Secure(t)
      BY DEF KeptSecured
    <3>2. CASE task[t].status = "paused"
      BY <3>2 DEF NextBaseline, PausedBaseline
    <3>3. CASE task[t].status \in Ready
      BY <3>1, <3>3, CompletedSecures DEF NextBaseline, Ready
    <3>4. CASE task[t].status # "paused" /\ task[t].status \notin Ready
      BY <3>1, <3>4 DEF NextBaseline, Secure
    <3>5. QED
      BY <3>2, <3>3, <3>4
  <2>3. QED
    BY <2>1, <2>2 DEF Secure, Ready, Pinned
<1>3. QED
  BY <1>2 DEF KeptSecured

LEMMA InitSecured == Init => KeptSecured
<1> SUFFICES ASSUME Init, NEW t \in Tasks PROVE Secure(t)
  BY DEF KeptSecured
<1>1. /\ task[t].status \in {"pending", "awaiting_checkpoint"} /\ task[t].base = Contract[t].baseline
      /\ kept[t] = MustKeep(Contract[t].baseline)
  BY DEF Init, NewTask
<1>2. Contract[t].baseline.own = Contract[t].baseline.tree.head \ Contract[t].baseline.base
  BY ChainAssumption
<1>3. QED
  BY <1>1, <1>2 DEF Secure, Ready, Pinned

(* One step of the chain, all but advance: nothing around a task is lost.  *)
LEMMA StepSecures ==
  ASSUME IInv, KeptSecured, SnapshotsNew, Next, ~ Advance
  PROVE  /\ KeptSecured' /\ Growing
         /\ \A u \in Tasks : \/ task'[u].base.base = task[u].base.base
                             \/ ChangesOf(task'[u].base.base) \subseteq Around(u)
<1>1. CASE UNCHANGED <<task, source, kept>>
  BY <1>1, QuietSecure
<1>2. ASSUME NEW t \in Tasks, TaskStep(t)
      PROVE  /\ KeptSecured' /\ Growing
             /\ \A u \in Tasks : \/ task'[u].base.base = task[u].base.base
                                 \/ ChangesOf(task'[u].base.base) \subseteq Around(u)
  <2>1. CASE CreateRun(t)
    BY <1>1, <2>1 DEF CreateRun, journal
  <2>2. CASE Checkpoint(t) \/ RecordCandidate(t) \/ Finish(t) \/ Pause(t)
    BY <2>2, CheckpointSecures, RecordCandidateSecures, FinishSecures, PauseSecures
  <2>3. CASE Reopen(t)
    BY <2>3, ReopenSecures
  <2>4. ASSUME NEW w \in Worktrees, NEW mode \in {"mechanical", "semantic"}, Begin(t, w, mode)
        PROVE  KeptSecured' /\ Growing /\ \A u \in Tasks : task'[u].base.base = task[u].base.base
    BY <2>4, BeginSecures
  <2>5. ASSUME NEW name \in Bindings(t), NEW passed \in BOOLEAN, RecordCheck(t, name, passed)
        PROVE  KeptSecured' /\ Growing /\ \A u \in Tasks : task'[u].base.base = task[u].base.base
    BY <2>5, RecordCheckSecures
  <2>6. QED
    BY <1>2, <2>1, <2>2, <2>3, <2>4, <2>5 DEF TaskStep
<1>3. CASE GitStep
  BY <1>1, <1>3 DEF GitStep, Edit, Commit, Switch, Move, Git, journal
<1>4. CASE Abandon
  BY <1>1, <1>4 DEF Abandon
<1>5. ASSUME NEW w \in Worktrees, QueueSource(w) PROVE UNCHANGED <<task, source, kept>>
  BY <1>5 DEF QueueSource
<1>6. ASSUME NEW r \in runs, RunStep(r) PROVE UNCHANGED <<task, source, kept>>
  BY <1>6 DEF RunStep, CloseRun, SaveRun, DropClose, journal
<1>7. QED
  BY <1>1, <1>2, <1>3, <1>4, <1>5, <1>6 DEF Next

LEMMA KeptStaysSecured ==
  ASSUME IInv, KeptSecured, SnapshotsNew, [Next]_vars
  PROVE  KeptSecured'
<1>1. CASE UNCHANGED vars
  BY <1>1, QuietSecure DEF vars
<1>2. CASE Advance
  BY <1>2, AdvanceSecures
<1>3. CASE Next /\ ~ Advance
  BY <1>3, StepSecures
<1>4. QED
  BY <1>1, <1>2, <1>3

LEMMA SecuredIsKept == KeptSecured => WorkKept
  BY DEF KeptSecured, Secure, WorkKept

----------------------------------------------------------------------------
(* When uncommitted work of a checkpoint is new: in one epoch always, and  *)
(* over epochs if advance takes no copy without the work of its task.      *)

(* A copy that advance takes as the new baseline has what its task owns.   *)
AdvancedWhole ==
  Advance => \A t \in Tasks : task[t].status = "paused" => ChangesOf(Owned(t)) \subseteq MustKeep(PausedBaseline(t))

(* The base of a task is in the head of its parent when the chain is       *)
(* created, and so, by induction over the plan, around the task.           *)
LEMMA InitBased == Init => Based
<1> SUFFICES ASSUME Init PROVE Based
  OBVIOUS
<1> DEFINE S == {t \in Tasks : ~ (ChangesOf(task[t].base.base) \subseteq Around(t))}
<1>1. CASE S = {}
  BY <1>1 DEF Based
<1>2. CASE S # {}
  <2>1. S \in (SUBSET Tasks) \ {{}}
    BY <1>2
  <2>2. \A Q \in (SUBSET Tasks) \ {{}} : \E x \in Q : Contract[x].deps \cap Q = {}
    BY ChainAssumption
  <2> HIDE DEF S
  <2>3. PICK t \in S : Contract[t].deps \cap S = {}
    BY <2>1, <2>2
  <2>4. t \in Tasks /\ ~ (ChangesOf(task[t].base.base) \subseteq Around(t))
    BY <2>3 DEF S
  <2>5. \A u \in Tasks : /\ task[u].base = Contract[u].baseline /\ kept[u] = MustKeep(task[u].base)
                         /\ task[u].status \in {"pending", "awaiting_checkpoint"}
    BY DEF Init, NewTask
  <2>6. CASE Contract[t].deps = {}
    <3>1. Contract[t].baseline.base \subseteq StartTree[SourceWorktree].head
      BY <2>4, <2>6, ChainAssumption
    <3>2. source.head = StartTree[SourceWorktree].head
      BY DEF Init
    <3>3. ChangesOf(task[t].base.base) \subseteq ChangesOf(source.head)
      BY <2>4, <2>5, <3>1, <3>2, ChangesOfParts
    <3>4. QED
      BY <2>4, <3>3, AroundHas
  <2>7. CASE Contract[t].deps # {}
    <3> DEFINE p == Contract[t].parent
               b == Contract[p].baseline
    <3>1. p \in Contract[t].deps /\ p \in Tasks
      BY <2>4, <2>7, ContractType DEF Parents
    <3>2. Contract[t].baseline.base \subseteq b.tree.head
      BY <2>4, <2>7, ChainAssumption
    <3>3. b.own = b.tree.head \ b.base
      BY <3>1, ChainAssumption
    <3>4. task[p].base = b /\ Left(p) \in {MustKeep(b), ChangesOf(b.own)}
      BY <2>5, <3>1 DEF Left, Ready
    <3>5. task[t].base.base \subseteq b.tree.head
      BY <2>4, <2>5, <3>2
    <3> HIDE DEF b
    <3>6. ChangesOf(b.own) \subseteq Left(p)
      BY <3>4 DEF MustKeep
    <3>7. ChangesOf(b.base) \subseteq Around(p)
      BY <2>3, <3>1, <3>4 DEF S
    <3>8. ChangesOf(task[t].base.base) \subseteq ChangesOf(b.tree.head)
      BY <3>5 DEF ChangesOf
    <3>9. ChangesOf(b.tree.head) \subseteq ChangesOf(b.own) \cup ChangesOf(b.base)
      BY <3>3, ChangesOfParts
    <3>10. Left(p) \subseteq Around(t) /\ Around(p) \subseteq Around(t)
      BY <2>4, <3>1, AroundHas
    <3>11. QED
      BY <2>4, <3>6, <3>7, <3>8, <3>9, <3>10
  <2>8. QED
    BY <2>6, <2>7
<1>3. QED
  BY <1>1, <1>2

(* The commit of uncommitted work is in the worktree: past the base of the *)
(* task, or in its base and so around it.                                  *)
LEMMA BasedSnapshots == Based => SnapshotsNew
<1> SUFFICES ASSUME Based, NEW t \in Tasks, NEW w \in Worktrees, Preserves(t, w)
             PROVE  From(t).dirty \subseteq ChangesOf(tree[w].head \ task[t].base.base) \cup Around(t)
  BY DEF SnapshotsNew
<1>1. From(t).dirty # {} => From(t).dirty \subseteq ChangesOf(tree[w].head)
  <2>1. SUFFICES ASSUME From(t).dirty # {} PROVE From(t).dirty \subseteq ChangesOf(tree[w].head)
    OBVIOUS
  <2>2. tree[w].dirty = {} /\ Manifest(tree[w]) = Manifest(From(t))
    BY <2>1 DEF Preserves
  <2>3. Manifest(tree[w]) = ChangesOf(tree[w].head) /\ From(t).dirty \subseteq Manifest(From(t))
    BY <2>2 DEF Manifest
  <2>4. QED
    BY <2>2, <2>3
<1>2. ChangesOf(tree[w].head) \subseteq ChangesOf(tree[w].head \ task[t].base.base) \cup ChangesOf(task[t].base.base)
  BY DEF ChangesOf
<1>3. ChangesOf(task[t].base.base) \subseteq Around(t)
  BY DEF Based
<1>4. QED
  BY <1>1, <1>2, <1>3

LEMMA BasedKept ==
  ASSUME Based, Growing,
         \A u \in Tasks : \/ task'[u].base.base = task[u].base.base
                          \/ ChangesOf(task'[u].base.base) \subseteq Around(u)
  PROVE  Based'
<1> SUFFICES ASSUME NEW u \in Tasks PROVE ChangesOf(task'[u].base.base) \subseteq Around(u)'
  BY DEF Based
<1>1. ChangesOf(task'[u].base.base) \subseteq Around(u)
  BY DEF Based
<1>2. Around(u) \subseteq Around(u)'
  BY DEF Growing
<1>3. QED
  BY <1>1, <1>2

(* Queued sources are taken in order, and every one has the one before it. *)
LEMMA AscendingKept ==
  ASSUME TypeOK, Ascending, [Next]_vars
  PROVE  Ascending'
<1>1. CASE UNCHANGED <<source, queue>>
  BY <1>1 DEF Ascending
<1>2. ASSUME NEW w \in Worktrees, QueueSource(w) PROVE Ascending'
  <2> DEFINE last == [ws |-> w, head |-> tree[w].head]
             newest == IF queue = << >> THEN source ELSE queue[Len(queue)]
  <2>1. source' = source /\ queue' = Append(queue, last) /\ newest.head \subseteq last.head
    BY <1>2 DEF QueueSource
  <2>2. queue \in Seq(Sources) /\ last \in Sources
    BY <1>2 DEF TypeOK, Trees, Sources
  <2> HIDE DEF last
  <2>3. /\ Len(queue) \in Nat /\ DOMAIN queue = 1 .. Len(queue) /\ DOMAIN queue' = 1 .. Len(queue) + 1
        /\ queue'[Len(queue) + 1] = last /\ \A i \in 1 .. Len(queue) : queue'[i] = queue[i]
    BY <2>1, <2>2
  <2>4. queue = << >> => Len(queue) = 0
    BY <2>2
  <2>5. source'.head \subseteq queue'[1].head
    <3>1. CASE queue = << >>
      BY <2>1, <2>3, <2>4, <3>1
    <3>2. CASE queue # << >>
      <4>1. 1 \in 1 .. Len(queue)
        BY <2>2, <2>3, <3>2
      <4>2. QED
        BY <2>1, <2>3, <3>2, <4>1 DEF Ascending
    <3>3. QED
      BY <3>1, <3>2
  <2>6. ASSUME NEW i \in DOMAIN queue', i + 1 \in DOMAIN queue'
        PROVE  queue'[i].head \subseteq queue'[i + 1].head
    <3>1. CASE i + 1 \in 1 .. Len(queue)
      <4>1. i \in 1 .. Len(queue)
        BY <2>3, <2>6, <3>1
      <4>2. queue[i].head \subseteq queue[i + 1].head
        BY <2>3, <3>1, <4>1 DEF Ascending
      <4>3. QED
        BY <2>3, <3>1, <4>1, <4>2
    <3>2. CASE i + 1 \notin 1 .. Len(queue)
      <4>1. i = Len(queue) /\ i \in 1 .. Len(queue) /\ queue # << >>
        BY <2>3, <2>4, <2>6, <3>2
      <4>2. newest.head = queue[i].head
        BY <4>1
      <4>3. QED
        BY <2>1, <2>3, <4>1, <4>2
    <3>3. QED
      BY <3>1, <3>2
  <2>7. QED
    BY <2>5, <2>6 DEF Ascending
<1>3. CASE Advance
  <2>1. queue # << >> /\ source' = Head(queue) /\ queue' = Tail(queue) /\ queue \in Seq(Sources)
    BY <1>3 DEF Advance, TypeOK
  <2>2. /\ Len(queue) \in Nat /\ Len(queue) > 0 /\ DOMAIN queue = 1 .. Len(queue)
        /\ DOMAIN queue' = 1 .. Len(queue) - 1 /\ source' = queue[1]
        /\ \A i \in 1 .. Len(queue) - 1 : queue'[i] = queue[i + 1]
    BY <2>1
  <2>3. queue' # << >> => source'.head \subseteq queue'[1].head
    <3>1. SUFFICES ASSUME queue' # << >> PROVE source'.head \subseteq queue'[1].head
      OBVIOUS
    <3>2. 1 \in 1 .. Len(queue) - 1
      BY <2>1, <2>2, <3>1
    <3>3. 1 \in DOMAIN queue /\ 1 + 1 \in DOMAIN queue
      BY <2>2, <3>2
    <3>4. queue[1].head \subseteq queue[1 + 1].head
      BY <3>3 DEF Ascending
    <3>5. QED
      BY <2>2, <3>2, <3>4
  <2>4. ASSUME NEW i \in DOMAIN queue', i + 1 \in DOMAIN queue'
        PROVE  queue'[i].head \subseteq queue'[i + 1].head
    <3>1. i + 1 \in DOMAIN queue /\ (i + 1) + 1 \in DOMAIN queue
      BY <2>2, <2>4
    <3>2. queue[i + 1].head \subseteq queue[(i + 1) + 1].head
      BY <3>1 DEF Ascending
    <3>3. QED
      BY <2>2, <2>4, <3>2
  <2>5. QED
    BY <2>3, <2>4 DEF Ascending
<1>4. ASSUME NEW t \in Tasks, TaskStep(t) PROVE UNCHANGED <<source, queue>>
  BY <1>4 DEF TaskStep, Checkpoint, Begin, RecordCandidate, RecordCheck, Finish, Pause, Reopen, CreateRun, journal
<1>5. CASE GitStep
  BY <1>1, <1>5 DEF GitStep, Edit, Commit, Switch, Move, Git, journal
<1>6. CASE Abandon
  BY <1>1, <1>6 DEF Abandon
<1>7. ASSUME NEW r \in runs, RunStep(r) PROVE UNCHANGED <<source, queue>>
  BY <1>7 DEF RunStep, CloseRun, SaveRun, DropClose, journal
<1>8. CASE UNCHANGED vars
  BY <1>1, <1>8 DEF vars
<1>9. QED
  BY <1>1, <1>2, <1>3, <1>4, <1>5, <1>6, <1>7, <1>8 DEF Next

LEMMA AdvanceBased ==
  ASSUME IInv, KeptSecured, Based, Ascending, Advance, AdvancedWhole
  PROVE  Based'
<1>1. /\ queue # << >> /\ source' = Head(queue) /\ queue \in Seq(Sources)
      /\ \A t \in Tasks : task[t].status \notin Active
      /\ task' = [t \in Tasks |-> NewTask("pending", 0, NextBaseline(t))]
      /\ kept' = [t \in Tasks |-> MustKeep(NextBaseline(t))]
  BY DEF Advance, IInv, TypeOK
<1>2. ChangesOf(source.head) \subseteq ChangesOf(source.head)'
  <2>1. source'.head = queue[1].head
    BY <1>1
  <2>2. source.head \subseteq source'.head
    BY <1>1, <2>1 DEF Ascending
  <2>3. QED
    BY <2>2, ChangesOfParts
<1>3. \A t \in Tasks : /\ task'[t].status = "pending" /\ task'[t].base = NextBaseline(t)
                       /\ kept'[t] = MustKeep(NextBaseline(t))
  BY <1>1 DEF NewTask
<1>4. ASSUME NEW t \in Tasks
      PROVE  /\ Left(t) \subseteq MustKeep(NextBaseline(t)) \cup Around(t)
             /\ ChangesOf(NextBaseline(t).base) \subseteq Around(t)
  <2>1. Secure(t) /\ ChangesOf(task[t].base.base) \subseteq Around(t)
    BY DEF KeptSecured, Based
  <2>2. CASE task[t].status \in Ready
    <3>1. NextBaseline(t) = CompletedBaseline(t) /\ Left(t) = ChangesOf(task[t].cand)
      BY <2>2 DEF NextBaseline, Ready, Left
    <3>2. QED
      BY <2>1, <2>2, <3>1, CompletedSecures
  <2>3. CASE task[t].status = "paused"
    <3>1. NextBaseline(t) = PausedBaseline(t) /\ Left(t) = kept[t]
      BY <2>3 DEF NextBaseline, Left, Ready
    <3>2. ChangesOf(Owned(t)) \subseteq MustKeep(PausedBaseline(t))
      BY <2>3 DEF AdvancedWhole
    <3>3. /\ PausedBaseline(t).base = task[t].base.base
          /\ MustKeep(PausedBaseline(t)) =
               ChangesOf(task[t].checkpoint.head \ task[t].base.base) \cup task[t].checkpoint.dirty
      BY DEF PausedBaseline, MustKeep
    <3>4. kept[t] \subseteq MustKeep(PausedBaseline(t)) \cup Around(t)
      BY <2>1, <2>3, <3>2, <3>3 DEF Secure
    <3>5. QED
      BY <2>1, <3>1, <3>3, <3>4
  <2>4. CASE task[t].status = "pending"
    <3>1. NextBaseline(t) = task[t].base /\ Left(t) = kept[t]
      BY <2>4 DEF NextBaseline, Left, Ready
    <3>2. QED
      BY <2>1, <2>4, <3>1 DEF Secure
  <2>5. task[t].status \in Ready \cup {"paused", "pending"}
    BY <1>1, TaskType DEF IInv, Statuses
  <2>6. QED
    BY <2>2, <2>3, <2>4, <2>5
<1>5. ASSUME NEW t \in Tasks PROVE Left(t) \subseteq Left(t)' \cup Around(t)
  <2>1. Left(t)' = MustKeep(NextBaseline(t))
    BY <1>3 DEF Left, Ready
  <2>2. QED
    BY <1>4, <2>1
<1>6. Growing
  BY <1>2, <1>5, AroundGrows
<1>7. QED
  BY <1>3, <1>4, <1>6, BasedKept

LEMMA StaysBased ==
  ASSUME IInv, KeptSecured, Based, Ascending, AdvancedWhole, [Next]_vars
  PROVE  Based' /\ KeptSecured'
<1>1. SnapshotsNew
  BY BasedSnapshots
<1>2. KeptSecured'
  BY <1>1, KeptStaysSecured
<1>3. CASE UNCHANGED vars
  <2>1. UNCHANGED <<task, source, kept>>
    BY <1>3 DEF vars
  <2>2. QED
    BY <2>1, QuietSecure, BasedKept
<1>4. CASE Advance
  BY <1>2, <1>4, AdvanceBased
<1>5. CASE Next /\ ~ Advance
  <2>1. /\ Growing
        /\ \A u \in Tasks : \/ task'[u].base.base = task[u].base.base
                            \/ ChangesOf(task'[u].base.base) \subseteq Around(u)
    BY <1>1, <1>5, StepSecures
  <2>2. QED
    BY <1>2, <2>1, BasedKept
<1>6. QED
  BY <1>2, <1>3, <1>4, <1>5

(* Begin, checkpoint, pause, reopen, replays and new candidates lose no work of a task, committed or not,
   from one attempt to the next, and an advance to a new source loses none unless it takes a paused copy
   without the commits the task owns as the new baseline (followup.py:397). *)
THEOREM WorkKeptIfAdvancedWhole == Spec /\ [][AdvancedWhole]_vars => []WorkKept
<1>1. Init => KeptSecured /\ Based /\ Ascending
  <2>1. Init => Ascending
    BY DEF Init, Ascending
  <2>2. QED
    BY <2>1, InitSecured, InitBased
<1>2. IInv /\ KeptSecured /\ Based /\ Ascending /\ [Next]_vars /\ [AdvancedWhole]_vars
        => KeptSecured' /\ Based' /\ Ascending'
  <2> SUFFICES ASSUME IInv, KeptSecured, Based, Ascending, [Next]_vars, [AdvancedWhole]_vars
               PROVE  KeptSecured' /\ Based' /\ Ascending'
    OBVIOUS
  <2>1. Ascending'
    BY AscendingKept DEF IInv
  <2>2. CASE AdvancedWhole
    BY <2>1, <2>2, StaysBased
  <2>3. CASE UNCHANGED vars
    <3>1. UNCHANGED <<task, source, kept>>
      BY <2>3 DEF vars
    <3>2. QED
      BY <2>1, <3>1, QuietSecure, BasedKept
  <2>4. QED
    BY <2>2, <2>3
<1>3. QED
  BY <1>1, <1>2, SecuredIsKept, InvariantHolds, PTL DEF Spec

----------------------------------------------------------------------------
(* The history of a published branch.                                      *)

(* A copy of a published branch that advance takes as the new baseline     *)
(* has the history of the one before.                                      *)
AdvancedOn ==
  Advance => \A t \in Tasks : Contract[t].published /\ task[t].status = "paused" =>
               task[t].base.tree.head \subseteq task[t].checkpoint.head

(* The published history is in the baseline, whatever it has become, and   *)
(* in the candidate.                                                       *)
HistoryIn(t) ==
  LET history == Contract[t].baseline.tree.head IN
  /\ history \subseteq task[t].base.tree.head
  /\ task[t].cand # {} \/ task[t].status \in Ready \cup {"checking"} => history \subseteq task[t].cand

HistoriesIn == \A t \in Tasks : Contract[t].published => HistoryIn(t)

LEMMA OneHistory ==
  ASSUME HistoriesIn, NEW t \in Tasks, NEW new, task' = [task EXCEPT ![t] = new], TypeOK,
         task[t].base.tree.head \subseteq new.base.tree.head,
         \/ new.cand = {} /\ new.status \notin Ready \cup {"checking"}
         \/ new.cand = task[t].cand /\ (task[t].status \in Ready \cup {"checking"} \/ new.status \notin Ready \cup {"checking"})
         \/ Contract[t].published => task[t].base.tree.head \subseteq new.cand
  PROVE  HistoriesIn'
<1>1. task'[t] = new /\ \A u \in Tasks \ {t} : task'[u] = task[u]
  BY DEF TypeOK
<1>2. ASSUME NEW u \in Tasks, Contract[u].published PROVE HistoryIn(u)'
  <2>1. HistoryIn(u)
    BY <1>2 DEF HistoriesIn
  <2>2. CASE u # t
    BY <1>1, <2>1, <2>2 DEF HistoryIn
  <2>3. CASE u = t
    BY <1>1, <1>2, <2>1, <2>3 DEF HistoryIn
  <2>4. QED
    BY <2>2, <2>3
<1>3. QED
  BY <1>2 DEF HistoriesIn

LEMMA TaskHistories ==
  ASSUME TypeOK, HistoriesIn, NEW t \in Tasks, TaskStep(t)
  PROVE  HistoriesIn'
<1>1. /\ task[t] \in TaskStates /\ task \in [Tasks -> TaskStates]
      /\ task[t].base \in Baselines /\ tree \in [Worktrees -> Trees]
  BY TaskType DEF TypeOK
<1>2. CASE Checkpoint(t)
  <2> DEFINE b == task[t].base
             now == tree[b.ws]
             base == [b EXCEPT !.tree = now, !.own = now.head \ b.base, !.verified = b.verified /\ now = b.tree]
             new == [task[t] EXCEPT !.status = "pending", !.base = base]
  <2>1. b.tree.head \subseteq now.head /\ task' = [task EXCEPT ![t].status = "pending", ![t].base = base]
        /\ task[t].status = "awaiting_checkpoint"
    BY <1>2 DEF Checkpoint
  <2>2. base.tree = now
    BY <1>1 DEF Baselines
  <2> HIDE DEF base
  <2>3. new.base = base /\ new.status = "pending" /\ new.cand = task[t].cand
    BY <1>1 DEF TaskStates
  <2>4. task' = [task EXCEPT ![t] = new]
    BY <1>1, <2>1
  <2> HIDE DEF new
  <2>5. new.status \notin Ready \cup {"checking"}
    BY <2>3 DEF Ready
  <2>6. QED
    BY <2>1, <2>2, <2>3, <2>4, <2>5, OneHistory
<1>3. ASSUME NEW w \in Worktrees, NEW mode \in {"mechanical", "semantic"}, Begin(t, w, mode) PROVE HistoriesIn'
  <2> DEFINE new == [task[t] EXCEPT !.status = "adapting", !.mode = mode, !.checks = {}, !.cand = {},
                                    !.attempt = task[t].attempt + 1, !.ws = w, !.parent = HeadOf(Contract[t].parent),
                                    !.parents = Heads(t), !.preserved = Preserved(t, w)]
  <2>1. task' = [task EXCEPT ![t] = new]
    BY <1>3 DEF Begin
  <2>2. new.status = "adapting" /\ new.cand = {} /\ new.base = task[t].base
    BY <1>1 DEF TaskStates
  <2> HIDE DEF new
  <2>3. new.status \notin Ready \cup {"checking"}
    BY <2>2 DEF Ready
  <2>4. QED
    BY <2>1, <2>2, <2>3, OneHistory
<1>4. CASE RecordCandidate(t)
  <2> DEFINE head == tree[task[t].ws].head
             new == [task[t] EXCEPT !.cand = head, !.checks = {}, !.status = "checking"]
  <2>1. /\ Contract[t].published => task[t].base.tree.head \subseteq head
        /\ task' = [task EXCEPT ![t].cand = head, ![t].checks = {}, ![t].status = "checking"]
    BY <1>4 DEF RecordCandidate
  <2>2. new.cand = head /\ new.base = task[t].base
    BY <1>1 DEF TaskStates
  <2>3. task' = [task EXCEPT ![t] = new]
    BY <1>1, <2>1
  <2> HIDE DEF new, head
  <2>4. QED
    BY <2>1, <2>2, <2>3, OneHistory
<1>5. ASSUME NEW name \in Bindings(t), NEW passed \in BOOLEAN, RecordCheck(t, name, passed) PROVE HistoriesIn'
  <2>1. PICK checks : task' = [task EXCEPT ![t].checks = checks]
    BY <1>5 DEF RecordCheck
  <2> DEFINE new == [task[t] EXCEPT !.checks = checks]
  <2>2. new.cand = task[t].cand /\ new.base = task[t].base /\ new.status = task[t].status
    BY <1>1 DEF TaskStates
  <2>3. task' = [task EXCEPT ![t] = new]
    BY <1>1, <2>1
  <2> HIDE DEF new
  <2>4. QED
    BY <2>2, <2>3, OneHistory
<1>6. CASE Finish(t)
  <2>1. PICK status \in Ready : task' = [task EXCEPT ![t].status = status]
    BY <1>6 DEF Finish, Ready
  <2> DEFINE new == [task[t] EXCEPT !.status = status]
  <2>2. new.cand = task[t].cand /\ new.base = task[t].base /\ task[t].status = "checking"
    BY <1>1, <1>6 DEF TaskStates, Finish
  <2>3. task' = [task EXCEPT ![t] = new]
    BY <1>1, <2>1
  <2> HIDE DEF new
  <2>4. QED
    BY <2>2, <2>3, OneHistory
<1>7. CASE Pause(t)
  <2> DEFINE new == [task[t] EXCEPT !.status = "paused", !.checkpoint = tree[task[t].ws]]
  <2>1. task' = [task EXCEPT ![t].status = "paused", ![t].checkpoint = tree[task[t].ws]]
    BY <1>7 DEF Pause
  <2>2. new.cand = task[t].cand /\ new.base = task[t].base /\ new.status = "paused"
    BY <1>1 DEF TaskStates
  <2>3. task' = [task EXCEPT ![t] = new]
    BY <1>1, <2>1
  <2> HIDE DEF new
  <2>4. new.status \notin Ready \cup {"checking"}
    BY <2>2 DEF Ready
  <2>5. QED
    BY <2>2, <2>3, <2>4, OneHistory
<1>8. CASE Reopen(t)
  <2>1. \A u \in Tasks : task'[u] \in {task[u], Reopened(u)}
    BY <1>8 DEF Reopen
  <2>2. ASSUME NEW u \in Tasks, Contract[u].published, task'[u] = Reopened(u) PROVE HistoryIn(u)'
    <3>1. HistoryIn(u) /\ task[u] \in TaskStates
      BY <2>2, TaskType DEF HistoriesIn
    <3>2. CASE task[u].status \in Ready
      <4>1. /\ task'[u].base = CompletedBaseline(u) /\ task'[u].cand = {}
            /\ task'[u].status = "pending"
        BY <2>2, <3>2 DEF Reopened, NewTask
      <4>2. CompletedBaseline(u).tree.head = task[u].cand
        BY DEF CompletedBaseline, Candidate
      <4>3. QED
        BY <3>1, <3>2, <4>1, <4>2 DEF HistoryIn, Ready
    <3>3. CASE task[u].status = "paused"
      <4>1. task[u].status \notin Ready
        BY <3>3 DEF Ready
      <4>2. task'[u] = [task[u] EXCEPT !.checks = {}, !.cand = {}]
        BY <2>2, <3>3, <4>1 DEF Reopened
      <4>3. task'[u].base = task[u].base /\ task'[u].cand = {} /\ task'[u].status = "paused"
        BY <3>1, <3>3, <4>2 DEF TaskStates
      <4>4. QED
        BY <3>1, <4>3 DEF HistoryIn, Ready
    <3>4. CASE task[u].status \notin Ready \cup {"paused"}
      BY <2>2, <3>1, <3>4 DEF Reopened, HistoryIn
    <3>5. QED
      BY <3>2, <3>3, <3>4
  <2>3. ASSUME NEW u \in Tasks, Contract[u].published, task'[u] = task[u] PROVE HistoryIn(u)'
    BY <2>3 DEF HistoriesIn, HistoryIn
  <2>4. QED
    BY <2>1, <2>2, <2>3 DEF HistoriesIn
<1>9. CASE CreateRun(t)
  BY <1>9 DEF CreateRun, journal, HistoriesIn, HistoryIn
<1>10. QED
  BY <1>2, <1>3, <1>4, <1>5, <1>6, <1>7, <1>8, <1>9 DEF TaskStep

LEMMA HistoriesStay ==
  ASSUME TypeOK, HistoriesIn, AdvancedOn, [Next]_vars
  PROVE  HistoriesIn'
<1>1. CASE task' = task
  BY <1>1 DEF HistoriesIn, HistoryIn
<1>2. CASE Advance
  <2>1. task' = [t \in Tasks |-> NewTask("pending", 0, NextBaseline(t))]
    BY <1>2 DEF Advance
  <2>2. ASSUME NEW t \in Tasks, Contract[t].published PROVE HistoryIn(t)'
    <3>1. HistoryIn(t)
      BY <2>2 DEF HistoriesIn
    <3>2. task'[t].base = NextBaseline(t) /\ task'[t].cand = {} /\ task'[t].status = "pending"
      BY <2>1 DEF NewTask
    <3>3. Contract[t].baseline.tree.head \subseteq NextBaseline(t).tree.head
      <4>1. CASE task[t].status = "paused"
        BY <1>2, <2>2, <3>1, <4>1 DEF AdvancedOn, HistoryIn, NextBaseline, PausedBaseline
      <4>2. CASE task[t].status \in Ready
        BY <3>1, <4>2 DEF HistoryIn, NextBaseline, CompletedBaseline, Candidate, Ready
      <4>3. CASE task[t].status \notin Ready \cup {"paused"}
        BY <3>1, <4>3 DEF HistoryIn, NextBaseline
      <4>4. QED
        BY <4>1, <4>2, <4>3
    <3>4. QED
      BY <3>2, <3>3 DEF HistoryIn, Ready
  <2>3. QED
    BY <2>2 DEF HistoriesIn
<1>3. ASSUME NEW t \in Tasks, TaskStep(t) PROVE HistoriesIn'
  BY <1>3, TaskHistories
<1>4. CASE GitStep
  BY <1>1, <1>4 DEF GitStep, Edit, Commit, Switch, Move, Git, journal
<1>5. CASE Abandon
  BY <1>1, <1>5 DEF Abandon
<1>6. ASSUME NEW w \in Worktrees, QueueSource(w) PROVE HistoriesIn'
  BY <1>1, <1>6 DEF QueueSource
<1>7. ASSUME NEW r \in runs, RunStep(r) PROVE HistoriesIn'
  BY <1>1, <1>7 DEF RunStep, CloseRun, SaveRun, DropClose, journal
<1>8. CASE UNCHANGED vars
  BY <1>1, <1>8 DEF vars
<1>9. QED
  BY <1>2, <1>3, <1>4, <1>5, <1>6, <1>7, <1>8 DEF Next

(* A published branch keeps the history it was published with, through any reopening and over any number
   of sources, unless an advance takes a paused copy of it that left this history behind: the one way the
   run chain_history finds is the only one there is. *)
THEOREM HistoryKeptIfAdvancedOn == Spec /\ [][AdvancedOn]_vars => []PublishedHistoryKept
<1>1. Init => HistoriesIn
  <2> SUFFICES ASSUME Init, NEW t \in Tasks PROVE HistoryIn(t)
    BY DEF HistoriesIn
  <2>1. /\ task[t].base = Contract[t].baseline /\ task[t].cand = {}
        /\ task[t].status \in {"pending", "awaiting_checkpoint"}
    BY DEF Init, NewTask
  <2>2. QED
    BY <2>1 DEF HistoryIn, Ready
<1>2. IInv /\ HistoriesIn /\ [Next]_vars /\ [AdvancedOn]_vars => HistoriesIn'
  <2>1. CASE AdvancedOn
    BY <2>1, HistoriesStay DEF IInv
  <2>2. CASE UNCHANGED vars
    BY <2>2 DEF vars, HistoriesIn, HistoryIn
  <2>3. QED
    BY <2>1, <2>2
<1>3. HistoriesIn => PublishedHistoryKept
  BY DEF HistoriesIn, HistoryIn, PublishedHistoryKept
<1>4. QED
  BY <1>1, <1>2, <1>3, InvariantHolds, PTL DEF Spec
================================================================================
